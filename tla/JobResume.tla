------------------------------ MODULE JobResume ------------------------------
(***************************************************************************)
(* The governed continuation of one finished background job: _job_resume,  *)
(* the `jobs resume' branch and spawn_background of _background, and the    *)
(* launch boundary of the child in run_subagent and _executor.             *)
(*                                                                         *)
(* The ledger of the source holds one claim at most.  Every change of it   *)
(* is a read, a check and an atomic replace under an flock, so it is one   *)
(* step.  Several callers of `jobs resume' race for the claim; each holds  *)
(* the successor's launch lock from its look at the claim to the end of    *)
(* the spawn, and loses it when it dies.  The child runs on its own: it    *)
(* passes the gate, crosses the provider boundary, publishes its result    *)
(* and seals the claim with it.                                            *)
(*                                                                         *)
(* Digests, permissions, qualifications and the private files are left     *)
(* out: a claim, a record and a result that do not match are refused, and  *)
(* nothing here forges them.  A result is what the property needs of it:   *)
(* whether it authenticates and what it says of the provider.              *)
(*                                                                         *)
(* Bounds: MaxFaults, the kills, failed ledger writes and ambiguous Popen  *)
(* calls of a behaviour; Child, the successor processes there could be.    *)
(***************************************************************************)
EXTENDS Naturals, FiniteSets

CONSTANTS Caller,      \* processes that run `jobs resume'
          Request,     \* request ids
          Child,       \* identities of successor processes
          MaxFaults,
          None

ASSUME ResumeAssumption == /\ MaxFaults \in Nat
                           /\ None \notin Caller \cup Request

VARIABLES claim,      \* the claim of the ledger, or None
          record,     \* the successor's launch record: absent, or its pid field
          launchLock, \* the caller that holds the successor's launch lock
          call,       \* where each caller is
          seen,       \* the parent phase each caller has read
          child,      \* where each successor process is
          says,       \* what the envelope a child prepares says of the provider
          result,     \* the successor's result file
          runs,       \* provider processes ever started (history)
          faults

vars == <<claim, record, launchLock, call, seen, child, says, result, runs,
          faults>>

ParentPhase == {"reserved", "successor_prepared", "child_launch_claimed",
                "spawned", "spawn_failed", "indeterminate", "terminal"}
GatePhase == {"not_required", "pending", "launch_claimed", "spawned", "reaped",
              "spawn_failed", "approved", "denied", "indeterminate"}
ProviderPhase == {"pending", "launch_claimed", "spawned", "reaped",
                  "spawn_failed", "terminal", "indeterminate"}
Contacted == {"unknown", "no", "yes"}

(* A claim that _validate_ledger accepts; a gate in "error" is a denial.   *)
Claim == [req : Request, parent : ParentPhase, gate : GatePhase,
          provider : ProviderPhase, contacted : Contacted]

ASSUME ClaimAssumption == None \notin Claim

Fault == /\ faults < MaxFaults
         /\ faults' = faults + 1

-----------------------------------------------------------------------------
(* The callers of `jobs resume'. *)

(* reserve_request: the first request makes the claim, the same request    *)
(* finds it again, any other is refused and changes nothing.               *)
MayBind(q) == claim # None => claim.req = q

Reserve(c) ==
  /\ call[c] = "idle"
  /\ \E q \in Request, g \in {"not_required", "pending"} :
       /\ MayBind(q)
       /\ claim' = IF claim # None THEN claim
                   ELSE [req |-> q, parent |-> "reserved", gate |-> g,
                         provider |-> "pending", contacted |-> "unknown"]
  /\ call' = [call EXCEPT ![c] = "bound"]
  /\ UNCHANGED <<record, launchLock, seen, child, says, result, runs, faults>>

(* The launch lock is taken and the claim read (get_claim). *)
LookAtClaim(c) ==
  /\ call[c] = "bound"
  /\ launchLock = None
  /\ launchLock' = c
  /\ seen' = [seen EXCEPT ![c] = claim.parent]
  /\ call' = [call EXCEPT ![c] = "looked"]
  /\ UNCHANGED <<claim, record, child, says, result, runs, faults>>

Alive == {s \in Child : child[s] \notin {"absent", "gone"}}

(* job_status: a result that authenticates, a pid that is alive, or neither.*)
StatusOfSuccessor ==
  IF result \in {"contact", "no_contact"} THEN "trusted"
  ELSE IF result = "none" /\ record = "pid" /\ Alive # {} THEN "running"
  ELSE "other"

(* What is to be done for a successor that was not launched.               *)
Unlaunched(phase) ==
  IF phase \in {"spawn_failed", "successor_prepared"} THEN "recover"
  ELSE IF phase = "reserved" THEN IF record = "absent" THEN "prepare" ELSE "finish"
  ELSE "leave"

(* As a bug: only the uncertain launch is looked into, not the spawned job. *)
Verdict_SpawnedLeft(phase) ==
  IF phase = "child_launch_claimed" THEN
    IF StatusOfSuccessor = "trusted" THEN "reconcile"
    ELSE IF StatusOfSuccessor = "running" THEN "to_spawned"
    ELSE "to_indeterminate"
  ELSE Unlaunched(phase)

Verdict(phase) ==
  IF phase \in {"child_launch_claimed", "spawned", "indeterminate"}
     /\ StatusOfSuccessor = "trusted" THEN "reconcile"
  ELSE IF phase = "child_launch_claimed" /\ StatusOfSuccessor = "running" THEN "to_spawned"
  ELSE IF phase \in {"child_launch_claimed", "spawned"}
          /\ StatusOfSuccessor = "other" THEN "to_indeterminate"
  ELSE Unlaunched(phase)

Judge(c) ==
  /\ call[c] = "looked"
  /\ call' = [call EXCEPT ![c] = Verdict(seen[c])]
  /\ UNCHANGED <<claim, record, launchLock, seen, child, says, result, runs,
                 faults>>

(* The caller is done or dead: its flock goes with it. *)
Hang(c) == /\ call' = [call EXCEPT ![c] = "idle"]
           /\ seen' = [seen EXCEPT ![c] = None]
           /\ launchLock' = IF launchLock = c THEN None ELSE launchLock

Answer(c) == /\ call[c] = "leave"
             /\ Hang(c)
             /\ UNCHANGED <<claim, record, child, says, result, runs, faults>>

(* claim_transition on the parent phase: compare and swap, or refuse. *)
Swapped(from, to, contacted) ==
  IF claim.parent = from
  THEN [claim EXCEPT !.parent = to, !.contacted = contacted]
  ELSE claim

Settle(c) ==
  /\ \/ /\ call[c] = "to_spawned"
        /\ claim' = Swapped("child_launch_claimed", "spawned", claim.contacted)
     \/ /\ call[c] = "to_indeterminate"
        /\ claim' = Swapped(seen[c], "indeterminate", claim.contacted)
  /\ Hang(c)
  /\ UNCHANGED <<record, child, says, result, runs, faults>>

(* _mark_terminal_identified: what a result may seal, and the sealed claim.*)
MayHaveRun == {"child_launch_claimed", "spawned", "indeterminate"}

(* As a bug: a result without contact fits a claimed launch. *)
FitsProvider_Claimed(contacted) ==
  claim.provider \in IF contacted THEN {"spawned", "reaped", "indeterminate"}
                     ELSE {"pending", "launch_claimed", "spawn_failed", "indeterminate"}

FitsProvider(contacted) ==
  claim.provider \in IF contacted THEN {"spawned", "reaped", "indeterminate"}
                                  ELSE {"pending", "spawn_failed", "indeterminate"}

Sealable == /\ result \in {"contact", "no_contact"}
            /\ claim.parent \in MayHaveRun
            /\ FitsProvider(result = "contact")

SealedClaim ==
  IF claim.provider = "indeterminate"
  THEN [claim EXCEPT !.parent = "terminal", !.contacted = "unknown"]
  ELSE [claim EXCEPT !.parent = "terminal", !.provider = "terminal",
                     !.contacted = IF result = "contact" THEN "yes" ELSE "no"]

Reconcile(c) ==
  /\ call[c] = "reconcile"
  /\ claim' = IF Sealable THEN SealedClaim ELSE claim
  /\ Hang(c)
  /\ UNCHANGED <<record, child, says, result, runs, faults>>

-----------------------------------------------------------------------------
(* spawn_background, under the launch lock. *)

(* The bundle is frozen and the record written without a pid. *)
WritePrepared(c) ==
  /\ call[c] = "prepare"
  /\ record' = "prepared"
  /\ call' = [call EXCEPT ![c] = "finish"]
  /\ UNCHANGED <<claim, launchLock, seen, child, says, result, runs, faults>>

(* prepare_successor: the private claim file, then the claim itself. *)
PrepareSuccessor(c) ==
  /\ call[c] = "finish"
  /\ IF claim.parent \in {"reserved", "successor_prepared"}
     THEN /\ claim' = [claim EXCEPT !.parent = "successor_prepared"]
          /\ call' = [call EXCEPT ![c] = "ready"]
          /\ seen' = [seen EXCEPT ![c] = "successor_prepared"]
          /\ UNCHANGED launchLock
     ELSE Hang(c) /\ UNCHANGED claim
  /\ UNCHANGED <<record, child, says, result, runs, faults>>

(* _load_resume_recovery: only what proved to have no process. *)
Recoverable == /\ record = "prepared"
               /\ \/ claim.parent = "spawn_failed" /\ claim.contacted = "no"
                  \/ claim.parent = "successor_prepared" /\ claim.contacted = "unknown"

LoadRecovery(c) ==
  /\ call[c] = "recover"
  /\ IF Recoverable
     THEN /\ call' = [call EXCEPT ![c] = "ready"]
          /\ seen' = [seen EXCEPT ![c] = claim.parent]
          /\ UNCHANGED launchLock
     ELSE Hang(c)
  /\ UNCHANGED <<claim, record, child, says, result, runs, faults>>

(* A file that cannot be written or read before the launch is claimed. *)
PrepareFails(c) ==
  /\ call[c] \in {"prepare", "finish", "recover"}
  /\ Hang(c)
  /\ UNCHANGED <<claim, record, child, says, result, runs, faults>>

ClaimLaunch(c) ==
  /\ call[c] = "ready"
  /\ claim' = Swapped(seen[c], "child_launch_claimed", "unknown")
  /\ IF claim.parent = seen[c]
     THEN call' = [call EXCEPT ![c] = "claimed"] /\ UNCHANGED <<launchLock, seen>>
     ELSE Hang(c)
  /\ UNCHANGED <<record, child, says, result, runs, faults>>

(* The in-flight hooks cannot be set up: the claim stays as it is. *)
HookSetupFails(c) ==
  /\ call[c] = "claimed"
  /\ Hang(c)
  /\ UNCHANGED <<claim, record, child, says, result, runs, faults>>

Starts(s) == child[s] = "absent" /\ child' = [child EXCEPT ![s] = "start"]

Popen(c) ==
  /\ call[c] = "claimed"
  /\ \E s \in Child : Starts(s)
  /\ call' = [call EXCEPT ![c] = "popped"]
  /\ UNCHANGED <<claim, record, launchLock, seen, says, result, runs, faults>>

(* OSError: no process. The write that says so may fail. *)
PopenFails(c) ==
  /\ call[c] = "claimed"
  /\ \/ /\ claim' = Swapped("child_launch_claimed", "spawn_failed", "no")
        /\ UNCHANGED faults
     \/ Fault /\ UNCHANGED claim
  /\ Hang(c)
  /\ UNCHANGED <<record, child, says, result, runs>>

(* As a bug: every exception of Popen is taken for a failed launch. *)
PopenAmbiguous_Failed(c) ==
  /\ call[c] = "claimed"
  /\ Fault
  /\ claim' = Swapped("child_launch_claimed", "spawn_failed", "no")
  /\ (\E s \in Child : Starts(s)) \/ UNCHANGED child
  /\ Hang(c)
  /\ UNCHANGED <<record, says, result, runs>>

(* An interrupt or any other exception: there may be a process. *)
PopenAmbiguous(c) ==
  /\ call[c] = "claimed"
  /\ Fault
  /\ \/ claim' = Swapped("child_launch_claimed", "indeterminate", claim.contacted)
     \/ UNCHANGED claim
  /\ (\E s \in Child : Starts(s)) \/ UNCHANGED child
  /\ Hang(c)
  /\ UNCHANGED <<record, says, result, runs>>

(* update_spawned; when it fails the job runs and the record has no pid. *)
RecordPid(c) ==
  /\ call[c] = "popped"
  /\ \/ record' = "pid" /\ UNCHANGED faults
     \/ Fault /\ UNCHANGED record
  /\ call' = [call EXCEPT ![c] = "stamped"]
  /\ UNCHANGED <<claim, launchLock, seen, child, says, result, runs>>

ConfirmSpawn(c) ==
  /\ call[c] = "stamped"
  /\ claim' = Swapped("child_launch_claimed", "spawned", claim.contacted)
  /\ Hang(c)
  /\ UNCHANGED <<record, child, says, result, runs, faults>>

CallerDies(c) ==
  /\ call[c] # "idle"
  /\ Fault
  /\ Hang(c)
  /\ UNCHANGED <<claim, record, child, says, result, runs>>

-----------------------------------------------------------------------------
(* The successor: its gate. *)

Gated == claim.gate # "not_required"
Launched == claim.parent \in {"child_launch_claimed", "spawned"}

Moves(s, from, to) == child[s] = from /\ child' = [child EXCEPT ![s] = to]

Unless(field, to) ==     \* launch_indeterminate
  IF claim[field] \in {"launch_claimed", "spawned"}
  THEN [claim EXCEPT ![field] = to] ELSE claim

(* before_launch of the gate, or a gate that is refused before it. *)
ClaimGate(s) ==
  /\ child[s] = "start" /\ Gated
  /\ \/ /\ Launched /\ claim.gate = "pending"
        /\ claim' = [claim EXCEPT !.gate = "launch_claimed"]
        /\ Moves(s, "start", "gate_claimed")
     \/ /\ ~(Launched /\ claim.gate = "pending")
        /\ claim' = Unless("gate", "indeterminate")
        /\ Moves(s, "start", "gate_no")
     \/ Moves(s, "start", "gate_no") /\ UNCHANGED claim
  /\ UNCHANGED <<record, launchLock, call, seen, says, result, runs, faults>>

LaunchGate(s) ==
  /\ \/ /\ Moves(s, "gate_claimed", "gate_running")
        /\ claim' = [claim EXCEPT !.gate = "spawned"]
        /\ UNCHANGED faults
     \/ /\ Moves(s, "gate_claimed", "gate_no")
        /\ claim' = [claim EXCEPT !.gate = "spawn_failed"]
        /\ UNCHANGED faults
     \/ /\ Moves(s, "gate_claimed", "gate_no")
        /\ claim' = Unless("gate", "indeterminate") \/ UNCHANGED claim
        /\ Fault
  /\ UNCHANGED <<record, launchLock, call, seen, says, result, runs>>

GateAnswers(s) ==
  /\ \/ Moves(s, "gate_running", "gate_yes")
     \/ Moves(s, "gate_running", "gate_no")
  /\ claim' = [claim EXCEPT !.gate = IF @ = "spawned" THEN "reaped" ELSE @]
  /\ UNCHANGED <<record, launchLock, call, seen, says, result, runs, faults>>

Ends(s, from, what) == /\ Moves(s, from, "ended")
                       /\ says' = [says EXCEPT ![s] = what]

(* mark_gate_terminal: without a gate that reached a launch, and without a *)
(* written decision, the successor ends.                                   *)
GateRan == claim.gate \in {"spawned", "reaped", "spawn_failed"}

MarkGate(s) ==
  /\ \/ /\ \/ /\ Moves(s, "gate_yes", "cleared")
              /\ claim' = [claim EXCEPT !.gate = "approved"]
              /\ UNCHANGED says
           \/ /\ Ends(s, "gate_no", "no_contact")
              /\ claim' = [claim EXCEPT !.gate = "denied"]
        /\ GateRan
        /\ UNCHANGED faults
     \/ /\ Ends(s, "gate_yes", "no_contact") \/ Ends(s, "gate_no", "no_contact")
        /\ IF GateRan THEN Fault ELSE UNCHANGED faults
        /\ UNCHANGED claim
  /\ UNCHANGED <<record, launchLock, call, seen, result, runs>>

-----------------------------------------------------------------------------
(* The successor: the provider boundary. *)

AtBoundary(s) == \/ child[s] = "cleared"
                 \/ child[s] = "start" /\ ~Gated

(* Any local refusal before the boundary. *)
Refuses(s) ==
  /\ Ends(s, "cleared", "no_contact") \/ Ends(s, "start", "no_contact")
  /\ UNCHANGED <<claim, record, launchLock, call, seen, result, runs, faults>>

(* before_launch of the provider, under the source's admission lock. *)
MayContact == /\ Launched
              /\ claim.gate \in {"not_required", "approved"}
              /\ claim.provider = "pending"

ClaimProvider(s) ==
  /\ AtBoundary(s)
  /\ IF MayContact
     THEN /\ claim' = [claim EXCEPT !.provider = "launch_claimed"]
          /\ Moves(s, child[s], "claimed")
          /\ UNCHANGED says
     ELSE /\ claim' = Unless("provider", "indeterminate")
          /\ Ends(s, child[s], "no_contact")
  /\ UNCHANGED <<record, launchLock, call, seen, result, runs, faults>>

(* pre_spawn_failed: the launch changed, was cancelled or met an OSError.  *)
(* The executor goes on when the ledger cannot be written.                 *)
LaunchFails(s) ==
  /\ Ends(s, "claimed", "no_contact")
  /\ \/ /\ claim.provider = "launch_claimed"
        /\ claim' = [claim EXCEPT !.provider = "spawn_failed", !.contacted = "no"]
        /\ UNCHANGED faults
     \/ Fault /\ UNCHANGED claim
  /\ UNCHANGED <<record, launchLock, call, seen, result, runs>>

(* Any other exception of Popen: the provider may run. *)
LaunchAmbiguous(s) ==
  /\ Ends(s, "claimed", "no_contact")
  /\ Fault
  /\ claim' = Unless("provider", "indeterminate") \/ UNCHANGED claim
  /\ runs' \in {runs, runs + 1}
  /\ UNCHANGED <<record, launchLock, call, seen, result>>

StartProvider(s) ==
  /\ Moves(s, "claimed", "created")
  /\ runs' = runs + 1
  /\ UNCHANGED <<claim, record, launchLock, call, seen, says, result, faults>>

(* on_spawn; when it cannot be written the provider is killed and the     *)
(* launch marked indeterminate, if that can be written.                    *)
Register(s) ==
  /\ Moves(s, "created", "running")
  /\ claim.provider = "launch_claimed"
  /\ claim' = [claim EXCEPT !.provider = "spawned", !.contacted = "yes"]
  /\ UNCHANGED <<record, launchLock, call, seen, says, result, runs, faults>>

RegistrationFails(s) ==
  /\ Ends(s, "created", "contact")
  /\ Fault
  /\ claim' = Unless("provider", "indeterminate") \/ UNCHANGED claim
  /\ UNCHANGED <<record, launchLock, call, seen, result, runs>>

ProviderEnds(s) ==
  /\ Ends(s, "running", "contact")
  /\ claim' = [claim EXCEPT !.provider = IF @ = "spawned" THEN "reaped" ELSE @]
  /\ UNCHANGED <<record, launchLock, call, seen, result, runs, faults>>

-----------------------------------------------------------------------------
(* The successor: its result, and its death. *)

(* The first terminal envelope stands. *)
Published(what) == result' = IF result = "none" THEN what ELSE result

Publish(s) ==
  /\ Moves(s, "ended", "published")
  /\ Published(says[s])
  /\ UNCHANGED <<claim, record, launchLock, call, seen, says, runs, faults>>

(* mark_terminal_for_job: a claim already sealed with this result is fine. *)
Seal(s) ==
  /\ \/ /\ Moves(s, "published", "gone")
        /\ claim.parent = "terminal" \/ Sealable
        /\ claim' = IF Sealable THEN SealedClaim ELSE claim
        /\ UNCHANGED faults
     \/ /\ Moves(s, "published", "unsealed")
        /\ IF claim.parent = "terminal" \/ Sealable THEN Fault ELSE UNCHANGED faults
        /\ UNCHANGED claim
  /\ UNCHANGED <<record, launchLock, call, seen, says, result, runs>>

(* As a bug: a phase the ledger does not know. *)
RecordFailure_Error(s) ==
  /\ Moves(s, "unsealed", "gone")
  /\ claim' = IF claim.parent \in MayHaveRun
              THEN [claim EXCEPT !.parent = "error"] ELSE claim
  /\ UNCHANGED <<record, launchLock, call, seen, says, result, runs, faults>>

(* As a bug: a claim that was repaired meanwhile is marked again. *)
RecordFailure_Again(s) ==
  /\ Moves(s, "unsealed", "gone")
  /\ claim' = [claim EXCEPT !.parent = "indeterminate"]
  /\ UNCHANGED <<record, launchLock, call, seen, says, result, runs, faults>>

(* record_terminalization_failure *)
RecordFailure(s) ==
  /\ Moves(s, "unsealed", "gone")
  /\ \/ /\ claim' = IF claim.parent \in MayHaveRun
                    THEN [claim EXCEPT !.parent = "indeterminate"] ELSE claim
        /\ UNCHANGED faults
     \/ Fault /\ UNCHANGED claim
  /\ UNCHANGED <<record, launchLock, call, seen, says, result, runs>>

(* The last-resort handler publishes an envelope without the executable's  *)
(* identity, which never authenticates; a kill publishes nothing.          *)
ChildDies(s) ==
  /\ s \in Alive
  /\ Fault
  /\ child' = [child EXCEPT ![s] = "gone"]
  /\ Published("crash") \/ UNCHANGED result
  /\ UNCHANGED <<claim, record, launchLock, call, seen, says, runs>>

-----------------------------------------------------------------------------
Init == /\ claim = None
        /\ record = "absent"
        /\ launchLock = None
        /\ call = [c \in Caller |-> "idle"]
        /\ seen = [c \in Caller |-> None]
        /\ child = [s \in Child |-> "absent"]
        /\ says = [s \in Child |-> "none"]
        /\ result = "none"
        /\ runs = 0
        /\ faults = 0

(* What a caller does until its answer, once it has asked. *)
CallerStep(c) ==
  \/ Reserve(c) \/ LookAtClaim(c) \/ Judge(c) \/ Answer(c) \/ Settle(c)
  \/ Reconcile(c) \/ WritePrepared(c) \/ PrepareSuccessor(c) \/ LoadRecovery(c)
  \/ PrepareFails(c) \/ ClaimLaunch(c) \/ HookSetupFails(c) \/ Popen(c)
  \/ PopenFails(c) \/ PopenAmbiguous(c) \/ RecordPid(c) \/ ConfirmSpawn(c)

ChildStep(s) ==
  \/ ClaimGate(s) \/ LaunchGate(s) \/ GateAnswers(s) \/ MarkGate(s)
  \/ Refuses(s) \/ ClaimProvider(s) \/ LaunchFails(s) \/ LaunchAmbiguous(s)
  \/ StartProvider(s) \/ Register(s) \/ RegistrationFails(s) \/ ProviderEnds(s)
  \/ Publish(s) \/ Seal(s) \/ RecordFailure(s)

Next == \/ \E c \in Caller : CallerStep(c) \/ CallerDies(c)
        \/ \E s \in Child : ChildStep(s) \/ ChildDies(s)

Spec == Init /\ [][Next]_vars

(* Somebody keeps asking for the job with the same request, and a call     *)
(* that was made runs to its end; the successor is not obliged to anything.*)
FairSpec == Spec /\ \A c \in Caller : WF_vars(CallerStep(c))

-----------------------------------------------------------------------------
(* The type invariant. *)
TypeOK ==
  /\ claim = None \/ claim \in Claim
  /\ record \in {"absent", "prepared", "pid"}
  /\ launchLock \in Caller \cup {None}
  /\ call \in [Caller -> {"idle", "bound", "looked", "leave", "to_spawned",
                          "to_indeterminate", "reconcile", "recover", "prepare",
                          "finish", "ready", "claimed", "popped", "stamped"}]
  /\ seen \in [Caller -> ParentPhase \cup {None}]
  /\ child \in [Child -> {"absent", "start", "gate_claimed", "gate_running",
                          "gate_yes", "gate_no", "cleared", "claimed", "created",
                          "running", "ended", "published", "unsealed", "gone"}]
  /\ says \in [Child -> {"none", "contact", "no_contact"}]
  /\ result \in {"none", "contact", "no_contact", "crash"}
  /\ runs \in Nat
  /\ faults \in 0 .. MaxFaults

(* However many callers ask, and wherever they or the successor die, one   *)
(* successor process is ever started for a source, and a caller that is    *)
(* between its claim of the launch and its Popen is the only one.          *)
OneSuccessor ==
  Cardinality({s \in Child : child[s] # "absent"})
  + Cardinality({c \in Caller : call[c] = "claimed"}) <= 1

(* Why: a caller past its look at the claim holds the launch lock, and acts *)
(* on the claim it has read only by comparison with it.                    *)
LockHolders ==
  \A c \in Caller :
     /\ launchLock = c <=> call[c] \notin {"idle", "bound"}
     /\ call[c] # "idle" => claim # None
     /\ call[c] = "to_indeterminate" => seen[c] \in {"child_launch_claimed", "spawned"}
     /\ call[c] = "ready" => seen[c] \in {"successor_prepared", "spawn_failed"}

Started(s) == child[s] # "absent"

(* Before the Popen nothing is started, whoever had claimed the launch;    *)
(* after it the claim is never again one that can be launched.             *)
Unstarted ==
  /\ result = "none" /\ runs = 0
  /\ claim # None => /\ claim.provider = "pending"
                     /\ claim.contacted = "unknown" \/ claim.parent = "spawn_failed"

LaunchOnce ==
  /\ \A s, t \in Child : Started(s) /\ Started(t) => s = t
  /\ (\A s \in Child : ~Started(s)) => Unstarted
  /\ \A s \in Child : Started(s) =>
       claim # None /\ claim.parent \in MayHaveRun \cup {"terminal"}
  /\ \A c \in Caller : call[c] = "claimed" =>
       /\ claim.parent = "child_launch_claimed"
       /\ \A s \in Child : ~Started(s)

(* A result is that of a successor with nothing left to do but to seal it, *)
(* and only a result seals.                                                *)
ResultIsLast ==
  /\ result # "none" => \A s \in Child : child[s] \in {"absent", "published", "unsealed", "gone"}
  /\ claim # None /\ claim.parent = "terminal" => result # "none"

(* Where the successor is fits the provider's phase, and the phase fits    *)
(* the runs that were and what is said of them.                            *)
BoundaryKept ==
  \A s \in Child :
     /\ child[s] \in {"start", "gate_claimed", "gate_running", "gate_yes", "gate_no",
                      "cleared"} => claim.provider = "pending"
     /\ child[s] \in {"claimed", "created"} => claim.provider = "launch_claimed"
     /\ child[s] = "claimed" => runs = 0
     /\ child[s] = "created" => runs = 1
     /\ child[s] = "running" => claim.provider = "spawned"

LedgerTrue ==
  /\ runs \in {0, 1}
  /\ claim = None => runs = 0
  /\ claim # None =>
     /\ claim.provider = "pending" => /\ runs = 0
                                      /\ \/ claim.contacted = "unknown"
                                         \/ claim.contacted = "no" /\ claim.parent = "spawn_failed"
     /\ claim.provider = "spawn_failed" => runs = 0 /\ claim.contacted = "no"
     /\ claim.provider \in {"launch_claimed", "indeterminate"} => claim.contacted = "unknown"
     /\ claim.provider \in {"spawned", "reaped"} => runs = 1 /\ claim.contacted = "yes"
     /\ claim.provider = "terminal" =>
          /\ claim.parent = "terminal"
          /\ claim.contacted = IF runs = 1 THEN "yes" ELSE "no"

(* Types, and the one successor with the reasons for it.                   *)
ResumeInv == /\ TypeOK /\ OneSuccessor
             /\ LockHolders /\ LaunchOnce /\ ResultIsLast
             /\ BoundaryKept /\ LedgerTrue

(* What a sealed claim says is never changed again: not by the successor,  *)
(* a caller that read it before, or a repair.                              *)
SealedForGood ==
  [][(claim # None /\ claim.parent = "terminal") => claim' = claim]_vars

(* The one provider run and what the ledger says of it are those of        *)
(* SingleUse: a retry after "no contact" is possible because nothing ran,  *)
(* and a run that may have happened is never reported as unspent.          *)
Once == INSTANCE SingleUse
          WITH used <- runs,
               told <- IF claim = None \/ claim.contacted = "unknown" THEN "unknown"
                       ELSE IF claim.contacted = "yes" THEN "spent" ELSE "unspent"

HandleUsedOnce == Once!Spec

(* A successor that is gone does not stay "spawned": as long as somebody   *)
(* asks for it, the claim is sealed or marked indeterminate, although one  *)
(* of the files' operations failed.  (After two faults it may be refused   *)
(* to everybody for good.)                                                 *)
Closed == claim # None /\ claim.parent \in {"terminal", "indeterminate"}

EndedIsReported == (\E s \in Child : child[s] = "gone") ~> (Closed \/ faults > 1)
=============================================================================

---------------------------- MODULE JobResumeProofs ----------------------------
(***************************************************************************)
(* One successor and one provider run for a finished job, however many     *)
(* callers ask for it (JobResume!ResumeInv, SealedForGood), and that the   *)
(* continuation implements SingleUse (HandleUsedOnce).                     *)
(*                                                                         *)
(* The callers and the successor share the claim only.  A caller acts      *)
(* under the launch lock on a claim that no successor has been started     *)
(* for; once one is started, the claim is in a phase that no caller can    *)
(* launch from, and the successor alone moves the provider's phase.        *)
(***************************************************************************)
EXTENDS JobResume, FiniteSetTheorems, TLAPS

CallPlace == {"idle", "bound", "looked", "leave", "to_spawned",
              "to_indeterminate", "reconcile", "recover", "prepare",
              "finish", "ready", "claimed", "popped", "stamped"}
ChildPlace == {"absent", "start", "gate_claimed", "gate_running",
               "gate_yes", "gate_no", "cleared", "claimed", "created",
               "running", "ended", "published", "unsealed", "gone"}
-----------------------------------------------------------------------------
(* Types, a part at a time. *)

ClaimOK  == claim = None \/ claim \in Claim
CallsOK  == /\ call \in [Caller -> CallPlace]
            /\ seen \in [Caller -> ParentPhase \cup {None}]
            /\ launchLock \in Caller \cup {None}
ChildOK  == child \in [Child -> ChildPlace]
SaysOK   == /\ says \in [Child -> {"none", "contact", "no_contact"}]
            /\ result \in {"none", "contact", "no_contact", "crash"}
OthersOK == /\ record \in {"absent", "prepared", "pid"}
            /\ runs \in Nat
            /\ faults \in 0 .. MaxFaults

LEMMA TypeParts == TypeOK <=> ClaimOK /\ CallsOK /\ ChildOK /\ SaysOK /\ OthersOK
  BY DEF TypeOK, ClaimOK, CallsOK, CallPlace, ChildOK, ChildPlace, SaysOK, OthersOK

\* The claim's own invariants mention the claim, the successors, the result and
\* the runs; the callers' the claim and the callers.
Launches ==
  /\ \A s, t \in Child : Started(s) /\ Started(t) => s = t
  /\ (\A s \in Child : ~Started(s)) => Unstarted
  /\ \A s \in Child : Started(s) =>
       claim # None /\ claim.parent \in MayHaveRun \cup {"terminal"}

Launcher ==
  \A c \in Caller : call[c] = "claimed" =>
     /\ claim.parent = "child_launch_claimed"
     /\ \A s \in Child : ~Started(s)

LEMMA LaunchParts == LaunchOnce <=> Launches /\ Launcher
  BY DEF LaunchOnce, Launches, Launcher

Job == ClaimOK /\ ChildOK /\ Launches /\ ResultIsLast /\ BoundaryKept /\ LedgerTrue

-----------------------------------------------------------------------------
(* Callers. *)

LEMMA HangFacts ==
  ASSUME CallsOK, NEW c \in Caller, Hang(c)
  PROVE  /\ CallsOK'
         /\ call'[c] = "idle"
         /\ launchLock' # c
         /\ \A d \in Caller \ {c} : /\ call'[d] = call[d] /\ seen'[d] = seen[d]
                                    /\ launchLock' = d <=> launchLock = d
<1>1. /\ call' = [call EXCEPT ![c] = "idle"]
      /\ seen' = [seen EXCEPT ![c] = None]
      /\ launchLock' = IF launchLock = c THEN None ELSE launchLock
  BY DEF Hang
<1>2. None \notin Caller
  BY ResumeAssumption
<1> QED BY <1>1, <1>2 DEF CallsOK, CallPlace

LEMMA VerdictFacts ==
  ASSUME NEW phase
  PROVE  /\ Verdict(phase) \in {"leave", "to_spawned", "to_indeterminate", "reconcile",
                                "recover", "prepare", "finish"}
         /\ Verdict(phase) = "to_indeterminate" => phase \in {"child_launch_claimed", "spawned"}
<1>1. Unlaunched(phase) \in {"recover", "prepare", "finish", "leave"}
  BY DEF Unlaunched
<1> QED BY <1>1 DEF Verdict

\* What a caller's step leaves to prove of the callers: its own place.
Own(c) ==
  /\ CallsOK'
  /\ \A d \in Caller \ {c} : /\ call'[d] = call[d] /\ seen'[d] = seen[d]
                             /\ launchLock' = d <=> launchLock = d
  /\ launchLock' = c <=> call'[c] \notin {"idle", "bound"}
  /\ call'[c] # "idle" => claim' # None
  /\ call'[c] = "to_indeterminate" => seen'[c] \in {"child_launch_claimed", "spawned"}
  /\ call'[c] = "ready" => seen'[c] \in {"successor_prepared", "spawn_failed"}

LEMMA OwnHang ==
  ASSUME CallsOK, NEW c \in Caller, Hang(c)
  PROVE  Own(c)
  BY HangFacts DEF Own

LEMMA OwnMove ==
  ASSUME CallsOK, NEW c \in Caller, NEW place \in CallPlace \ {"to_indeterminate", "ready"},
         call' = [call EXCEPT ![c] = place], seen' = seen, launchLock' = launchLock,
         launchLock = c <=> place \notin {"idle", "bound"},
         claim' # None
  PROVE  Own(c)
  BY DEF CallsOK, Own

-----------------------------------------------------------------------------
(* The claim: what a step makes of it is a claim. *)

LEMMA ClaimFields ==
  ASSUME claim \in Claim
  PROVE  /\ \A p \in ParentPhase, k \in Contacted : [claim EXCEPT !.parent = p, !.contacted = k] \in Claim
         /\ \A p \in ParentPhase : [claim EXCEPT !.parent = p] \in Claim
         /\ \A g \in GatePhase : [claim EXCEPT !.gate = g] \in Claim
         /\ \A v \in ProviderPhase : [claim EXCEPT !.provider = v] \in Claim
         /\ \A v \in ProviderPhase, k \in Contacted : [claim EXCEPT !.provider = v, !.contacted = k] \in Claim
         /\ \A p \in ParentPhase, v \in ProviderPhase, k \in Contacted :
              [claim EXCEPT !.parent = p, !.provider = v, !.contacted = k] \in Claim
  BY DEF Claim

LEMMA UnlessFacts ==
  ASSUME claim \in Claim
  PROVE  /\ Unless("gate", "indeterminate") \in {claim, [claim EXCEPT !.gate = "indeterminate"]}
         /\ Unless("provider", "indeterminate") =
              IF claim.provider \in {"launch_claimed", "spawned"}
              THEN [claim EXCEPT !.provider = "indeterminate"] ELSE claim
  BY DEF Unless, Claim
\* Where the claim of a caller's step goes.
LEMMA SwapFacts ==
  ASSUME claim \in Claim, NEW from, NEW to \in ParentPhase, NEW contacted \in Contacted
  PROVE  /\ Swapped(from, to, contacted) \in Claim
         /\ claim.contacted \in Contacted
  BY ClaimFields DEF Swapped, Claim

LEMMA SealFacts == claim \in Claim => SealedClaim \in Claim
<1>1. "terminal" \in ParentPhase /\ "terminal" \in ProviderPhase
      /\ "unknown" \in Contacted /\ "yes" \in Contacted /\ "no" \in Contacted
  BY DEF ParentPhase, ProviderPhase, Contacted
<1> QED BY <1>1, ClaimFields DEF SealedClaim

\* Only the first request makes a claim, and every later step has one.
LEMMA ClaimStep ==
  ASSUME ClaimOK, CallsOK, ChildOK, LockHolders, Launches, Next
  PROVE  ClaimOK' /\ (claim # None => claim' # None)
<1> USE ClaimAssumption DEF ClaimOK
<1>0. /\ {"reserved", "successor_prepared", "child_launch_claimed",
          "spawned", "spawn_failed", "indeterminate", "terminal"} \subseteq ParentPhase
      /\ {"pending", "launch_claimed", "spawned", "reaped", "spawn_failed",
          "terminal", "indeterminate"} \subseteq ProviderPhase
      /\ {"not_required", "pending", "launch_claimed", "spawned", "reaped",
          "spawn_failed", "approved", "denied", "indeterminate"} \subseteq GatePhase
      /\ {"unknown", "no", "yes"} \subseteq Contacted
  BY DEF ParentPhase, ProviderPhase, GatePhase, Contacted
<1>1. ASSUME NEW c \in Caller, CallerStep(c) \/ CallerDies(c)
      PROVE  ClaimOK' /\ (claim # None => claim' # None)
  <2>1. CASE Reserve(c)
    BY <1>0, <2>1 DEF Reserve, Claim
  <2>2. CASE \/ LookAtClaim(c) \/ Judge(c) \/ Answer(c) \/ WritePrepared(c) \/ LoadRecovery(c)
             \/ PrepareFails(c) \/ HookSetupFails(c) \/ Popen(c) \/ RecordPid(c) \/ CallerDies(c)
    BY <2>2 DEF LookAtClaim, Judge, Answer, WritePrepared, LoadRecovery, PrepareFails,
                HookSetupFails, Popen, RecordPid, CallerDies
  <2>3. CASE \/ Settle(c) \/ Reconcile(c) \/ PrepareSuccessor(c) \/ ClaimLaunch(c)
             \/ PopenFails(c) \/ PopenAmbiguous(c) \/ ConfirmSpawn(c)
    <3>1. claim \in Claim
      BY <2>3 DEF LockHolders, Settle, Reconcile, PrepareSuccessor, ClaimLaunch,
                  PopenFails, PopenAmbiguous, ConfirmSpawn
    <3>2. \/ claim' = claim \/ claim' = SealedClaim
          \/ claim' = [claim EXCEPT !.parent = "successor_prepared"]
          \/ \E from, to \in ParentPhase, contacted \in Contacted :
                claim' = Swapped(from, to, contacted)
      <4>1. CASE Settle(c)
        BY <1>0, <3>1, <4>1, SwapFacts DEF Settle, CallsOK, LockHolders
      <4>2. CASE Reconcile(c) \/ PrepareSuccessor(c)
        BY <4>2 DEF Reconcile, PrepareSuccessor
      <4>3. CASE ClaimLaunch(c)
        <5>1. seen[c] \in {"successor_prepared", "spawn_failed"}
          BY <4>3 DEF ClaimLaunch, LockHolders
        <5>2. seen[c] \in ParentPhase /\ "child_launch_claimed" \in ParentPhase /\ "unknown" \in Contacted
          BY <5>1 DEF ParentPhase, Contacted
        <5>3. claim' = Swapped(seen[c], "child_launch_claimed", "unknown")
          BY <4>3 DEF ClaimLaunch
        <5>4. \E from, to \in ParentPhase, contacted \in Contacted :
                 claim' = Swapped(from, to, contacted)
          BY <5>2, <5>3, Zenon
        <5> QED BY <5>4
      <4>4. CASE PopenFails(c) \/ PopenAmbiguous(c) \/ ConfirmSpawn(c)
        BY <1>0, <3>1, <4>4, SwapFacts DEF PopenFails, PopenAmbiguous, ConfirmSpawn
      <4> QED BY <2>3, <4>1, <4>2, <4>3, <4>4
    <3>3. ASSUME NEW from, NEW to \in ParentPhase, NEW contacted \in Contacted,
                 claim' = Swapped(from, to, contacted)
          PROVE  claim' \in Claim
      BY <3>1, <3>3, SwapFacts
    <3>4. [claim EXCEPT !.parent = "successor_prepared"] \in Claim
      BY <3>1 DEF Claim, ParentPhase
    <3>5. claim' \in Claim
      BY <3>1, <3>2, <3>3, <3>4, SealFacts
    <3> QED BY <3>5
  <2> QED BY <1>1, <2>1, <2>2, <2>3 DEF CallerStep
<1>2. ASSUME NEW s \in Child, ChildStep(s) \/ ChildDies(s)
      PROVE  ClaimOK' /\ (claim # None => claim' # None)
  <2>1. CASE Refuses(s) \/ StartProvider(s) \/ Publish(s) \/ ChildDies(s)
    BY <2>1 DEF Refuses, StartProvider, Publish, ChildDies
  <2>2. CASE \/ ClaimGate(s) \/ LaunchGate(s) \/ GateAnswers(s) \/ MarkGate(s)
             \/ ClaimProvider(s) \/ LaunchFails(s) \/ LaunchAmbiguous(s) \/ Register(s)
             \/ RegistrationFails(s) \/ ProviderEnds(s) \/ Seal(s) \/ RecordFailure(s)
    <3>1. child[s] # "absent"
      BY <2>2 DEF ClaimGate, LaunchGate, GateAnswers, MarkGate, ClaimProvider, LaunchFails,
                  LaunchAmbiguous, Register, RegistrationFails, ProviderEnds, Seal,
                  RecordFailure, Moves, Ends, AtBoundary
    <3>2. claim \in Claim
      BY <3>1 DEF Launches, Started
    <3>3. CASE ClaimGate(s)
      <4>1. \/ claim' = claim \/ claim' = [claim EXCEPT !.gate = "launch_claimed"]
            \/ claim' = Unless("gate", "indeterminate")
        BY <3>3, Zenon DEF ClaimGate
      <4>2. [claim EXCEPT !.gate = "launch_claimed"] \in Claim
            /\ [claim EXCEPT !.gate = "indeterminate"] \in Claim
        BY <3>2 DEF Claim, GatePhase
      <4>3. claim' \in Claim
        BY <3>2, <4>1, <4>2, UnlessFacts
      <4> QED BY <4>3
    <3>4. CASE LaunchGate(s)
      BY <3>2, <3>4, UnlessFacts DEF LaunchGate, Claim, GatePhase
    <3>5. CASE GateAnswers(s) \/ MarkGate(s)
      BY <3>2, <3>5 DEF GateAnswers, MarkGate, Claim, GatePhase
    <3>6. CASE ClaimProvider(s) \/ LaunchAmbiguous(s) \/ RegistrationFails(s)
      BY <3>2, <3>6, UnlessFacts DEF ClaimProvider, LaunchAmbiguous, RegistrationFails, Claim, ProviderPhase
    <3>7. CASE LaunchFails(s) \/ Register(s) \/ ProviderEnds(s)
      <4>1. \/ claim' = claim
            \/ claim' = [claim EXCEPT !.provider = "spawn_failed", !.contacted = "no"]
            \/ claim' = [claim EXCEPT !.provider = "spawned", !.contacted = "yes"]
            \/ claim' = [claim EXCEPT !.provider = IF @ = "spawned" THEN "reaped" ELSE @]
        BY <3>7, Zenon DEF LaunchFails, Register, ProviderEnds
      <4>2. /\ [claim EXCEPT !.provider = "spawn_failed", !.contacted = "no"] \in Claim
            /\ [claim EXCEPT !.provider = "spawned", !.contacted = "yes"] \in Claim
        BY <3>2 DEF Claim, ProviderPhase, Contacted
      <4>3. [claim EXCEPT !.provider = IF @ = "spawned" THEN "reaped" ELSE @] \in Claim
        BY <3>2 DEF Claim, ProviderPhase
      <4>4. claim' \in Claim
        BY <3>2, <4>1, <4>2, <4>3
      <4> QED BY <4>4
    <3>8. CASE Seal(s) \/ RecordFailure(s)
      BY <3>2, <3>8, SealFacts DEF Seal, RecordFailure, Claim, ParentPhase
    <3> QED BY <2>2, <3>3, <3>4, <3>5, <3>6, <3>7, <3>8
  <2> QED BY <1>2, <2>1, <2>2 DEF ChildStep
<1> QED BY <1>1, <1>2 DEF Next

-----------------------------------------------------------------------------
(* The callers' part of the invariant. *)

LEMMA OwnStep ==
  ASSUME ClaimOK, CallsOK, ChildOK, LockHolders, Launches, Next,
         NEW c \in Caller, CallerStep(c) \/ CallerDies(c)
  PROVE  Own(c)
<1>0. (claim # None => claim' # None) /\ ClaimOK'
  BY ClaimStep
<1>1. /\ launchLock = c <=> call[c] \notin {"idle", "bound"}
      /\ call[c] # "idle" => claim # None
      /\ None \notin Caller
  BY ResumeAssumption DEF LockHolders
<1>2. CASE Reserve(c)
  <2>1. claim' # None
    BY <1>2, ClaimAssumption DEF Reserve, Claim, ParentPhase, GatePhase, ProviderPhase, Contacted
  <2> QED BY <1>1, <1>2, <2>1, OwnMove DEF Reserve, CallPlace
<1>3. CASE LookAtClaim(c)
  <2>1. claim \in Claim /\ claim' = claim
    BY <1>1, <1>3 DEF LookAtClaim, ClaimOK
  <2> QED BY <1>0, <1>1, <1>3, <2>1 DEF LookAtClaim, Own, CallsOK, CallPlace, Claim
<1>4. CASE Judge(c)
  BY <1>0, <1>1, <1>4, VerdictFacts DEF Judge, Own, CallsOK, CallPlace
<1>5. CASE \/ Answer(c) \/ Settle(c) \/ Reconcile(c) \/ PrepareFails(c) \/ HookSetupFails(c)
           \/ PopenFails(c) \/ PopenAmbiguous(c) \/ ConfirmSpawn(c) \/ CallerDies(c)
  BY <1>5, OwnHang DEF Answer, Settle, Reconcile, PrepareFails, HookSetupFails,
     PopenFails, PopenAmbiguous, ConfirmSpawn, CallerDies
<1>6. CASE WritePrepared(c) \/ Popen(c) \/ RecordPid(c)
  BY <1>0, <1>1, <1>6, OwnMove DEF WritePrepared, Popen, RecordPid, CallPlace
<1>7. CASE PrepareSuccessor(c)
  <2>1. CASE claim.parent \in {"reserved", "successor_prepared"}
    BY <1>0, <1>1, <1>7, <2>1 DEF PrepareSuccessor, Own, CallsOK, CallPlace, ParentPhase
  <2> QED BY <1>7, <2>1, OwnHang DEF PrepareSuccessor
<1>8. CASE LoadRecovery(c)
  <2>1. CASE Recoverable
    BY <1>0, <1>1, <1>8, <2>1 DEF LoadRecovery, Recoverable, Own, CallsOK, CallPlace, ParentPhase
  <2> QED BY <1>8, <2>1, OwnHang DEF LoadRecovery
<1>9. CASE ClaimLaunch(c)
  <2>1. CASE claim.parent = seen[c]
    BY <1>0, <1>1, <1>9, <2>1, OwnMove DEF ClaimLaunch, CallPlace
  <2> QED BY <1>9, <2>1, OwnHang DEF ClaimLaunch
<1> QED BY <1>2, <1>3, <1>4, <1>5, <1>6, <1>7, <1>8, <1>9 DEF CallerStep

LEMMA ChildLeavesCallers ==
  ASSUME NEW s \in Child, ChildStep(s) \/ ChildDies(s)
  PROVE  UNCHANGED <<launchLock, call, seen>>
<1>1. CASE \/ ClaimGate(s) \/ LaunchGate(s) \/ GateAnswers(s) \/ MarkGate(s) \/ Refuses(s)
           \/ ClaimProvider(s) \/ LaunchFails(s) \/ LaunchAmbiguous(s)
  BY <1>1 DEF ClaimGate, LaunchGate, GateAnswers, MarkGate, Refuses, ClaimProvider,
              LaunchFails, LaunchAmbiguous
<1>2. CASE \/ StartProvider(s) \/ Register(s) \/ RegistrationFails(s) \/ ProviderEnds(s)
           \/ Publish(s) \/ Seal(s) \/ RecordFailure(s) \/ ChildDies(s)
  BY <1>2 DEF StartProvider, Register, RegistrationFails, ProviderEnds, Publish, Seal,
              RecordFailure, ChildDies
<1> QED BY <1>1, <1>2 DEF ChildStep

LEMMA LockHoldersStep ==
  ASSUME ClaimOK, CallsOK, ChildOK, LockHolders, Launches, Next
  PROVE  LockHolders' /\ CallsOK'
<1>0. claim # None => claim' # None
  BY ClaimStep
<1>1. ASSUME NEW c \in Caller, CallerStep(c) \/ CallerDies(c) PROVE LockHolders' /\ CallsOK'
  <2>1. Own(c)
    BY <1>1, OwnStep
  <2> QED BY <1>0, <2>1 DEF Own, LockHolders
<1>2. ASSUME NEW s \in Child, ChildStep(s) \/ ChildDies(s) PROVE LockHolders' /\ CallsOK'
  <2>1. launchLock' = launchLock /\ call' = call /\ seen' = seen
    BY <1>2, ChildLeavesCallers
  <2> QED BY <1>0, <2>1 DEF LockHolders, CallsOK
<1> QED BY <1>1, <1>2 DEF Next

-----------------------------------------------------------------------------
(* The claim's part of the invariant: the ways the claim moves while the   *)
(* successors, the result and the runs stay as they are.                   *)

Core == Launches /\ ResultIsLast /\ BoundaryKept /\ LedgerTrue

Fresh == /\ claim = None
         /\ \E q \in Request, g \in {"not_required", "pending"} :
              claim' = [req |-> q, parent |-> "reserved", gate |-> g,
                        provider |-> "pending", contacted |-> "unknown"]
Prepared == /\ claim \in Claim /\ claim.parent \in {"reserved", "successor_prepared"}
            /\ claim' = [claim EXCEPT !.parent = "successor_prepared"]
LaunchClaimed == /\ claim \in Claim /\ claim.parent \in {"successor_prepared", "spawn_failed"}
                 /\ claim' = [claim EXCEPT !.parent = "child_launch_claimed",
                                           !.contacted = "unknown"]
Settled == /\ claim \in Claim /\ claim.parent \in MayHaveRun
           /\ \E to \in {"spawned", "indeterminate"} :
                claim' = [claim EXCEPT !.parent = to, !.contacted = claim.contacted]
NeverRan == /\ claim \in Claim /\ claim.parent = "child_launch_claimed"
            /\ \A s \in Child : ~Started(s)
            /\ claim' = [claim EXCEPT !.parent = "spawn_failed", !.contacted = "no"]
Sealed == claim \in Claim /\ Sealable /\ claim' = SealedClaim

Still == child' = child /\ result' = result /\ runs' = runs

\* The fields of the claim that such a move leaves, field by field.
LEMMA MovedFields ==
  /\ Prepared => /\ claim'.parent = "successor_prepared" /\ claim'.gate = claim.gate
                 /\ claim'.provider = claim.provider /\ claim'.contacted = claim.contacted
  /\ LaunchClaimed => /\ claim'.parent = "child_launch_claimed" /\ claim'.gate = claim.gate
                      /\ claim'.provider = claim.provider /\ claim'.contacted = "unknown"
  /\ Settled => /\ claim'.parent \in {"spawned", "indeterminate"} /\ claim'.gate = claim.gate
                /\ claim'.provider = claim.provider /\ claim'.contacted = claim.contacted
  /\ NeverRan => /\ claim'.parent = "spawn_failed" /\ claim'.gate = claim.gate
                 /\ claim'.provider = claim.provider /\ claim'.contacted = "no"
<1>1. Prepared => /\ claim'.parent = "successor_prepared" /\ claim'.gate = claim.gate
                 /\ claim'.provider = claim.provider /\ claim'.contacted = claim.contacted
  BY DEF Prepared, Claim
<1>2. LaunchClaimed => /\ claim'.parent = "child_launch_claimed" /\ claim'.gate = claim.gate
                      /\ claim'.provider = claim.provider /\ claim'.contacted = "unknown"
  BY DEF LaunchClaimed, Claim
<1>3. Settled => /\ claim'.parent \in {"spawned", "indeterminate"} /\ claim'.gate = claim.gate
                /\ claim'.provider = claim.provider /\ claim'.contacted = claim.contacted
  BY DEF Settled, Claim
<1>4. NeverRan => /\ claim'.parent = "spawn_failed" /\ claim'.gate = claim.gate
                 /\ claim'.provider = claim.provider /\ claim'.contacted = "no"
  BY DEF NeverRan, Claim
<1> QED BY <1>1, <1>2, <1>3, <1>4

LEMMA SealedFields ==
  ASSUME Sealed
  PROVE  /\ claim'.parent = "terminal" /\ claim'.gate = claim.gate
         /\ claim.provider = "indeterminate" =>
              claim'.provider = "indeterminate" /\ claim'.contacted = "unknown"
         /\ claim.provider # "indeterminate" =>
              /\ claim'.provider = "terminal"
              /\ claim'.contacted = IF result = "contact" THEN "yes" ELSE "no"
         /\ result \in {"contact", "no_contact"} /\ claim.parent \in MayHaveRun
         /\ result = "contact" => claim.provider \in {"spawned", "reaped", "indeterminate"}
         /\ result = "no_contact" => claim.provider \in {"pending", "spawn_failed", "indeterminate"}
<1>1. CASE claim.provider = "indeterminate"
  BY <1>1 DEF Sealed, Sealable, SealedClaim, FitsProvider, Claim
<1>2. CASE claim.provider # "indeterminate"
  BY <1>2 DEF Sealed, Sealable, SealedClaim, FitsProvider, Claim
<1> QED BY <1>1, <1>2

LEMMA SameCore ==
  ASSUME Core, Still, claim' = claim PROVE Core'
  BY DEF Core, Still, Launches, ResultIsLast, BoundaryKept, LedgerTrue, Unstarted, Started

LEMMA FreshCore ==
  ASSUME Core, ChildOK, Still, Fresh PROVE Core'
<1>1. PICK q \in Request, g \in {"not_required", "pending"} :
        claim' = [req |-> q, parent |-> "reserved", gate |-> g,
                  provider |-> "pending", contacted |-> "unknown"]
  BY DEF Fresh
<1>2. /\ claim'.parent = "reserved" /\ claim'.provider = "pending" /\ claim'.contacted = "unknown"
  BY <1>1
<1>3. /\ \A s \in Child : ~Started(s)
      /\ result = "none" /\ runs = 0
  BY DEF Fresh, Core, Launches, Unstarted
<1>4. Launches' /\ ResultIsLast'
  BY <1>2, <1>3 DEF Still, Launches, ResultIsLast, Unstarted, Started
<1>5. BoundaryKept' /\ LedgerTrue'
  BY <1>2, <1>3 DEF Still, BoundaryKept, LedgerTrue, Started
<1> QED BY <1>4, <1>5 DEF Core

LEMMA UnstartedCore ==
  ASSUME Core, Still, Prepared \/ LaunchClaimed \/ NeverRan PROVE Core'
<1>0. claim # None
  BY ClaimAssumption DEF Prepared, LaunchClaimed, NeverRan
<1>1. \A s \in Child : ~Started(s)
  BY DEF Core, Launches, Prepared, LaunchClaimed, NeverRan, MayHaveRun
<1>2. /\ result = "none" /\ runs = 0 /\ claim.provider = "pending"
      /\ claim.contacted = "unknown" \/ claim.parent = "spawn_failed"
  BY <1>0, <1>1 DEF Core, Launches, Unstarted
<1>3. /\ claim'.provider = "pending"
      /\ claim'.parent \in {"successor_prepared", "child_launch_claimed", "spawn_failed"}
      /\ claim'.contacted = "unknown" \/ (claim'.parent = "spawn_failed" /\ claim'.contacted = "no")
  <2>1. CASE Prepared
    <3>1. claim.contacted = "unknown"
      BY <1>2, <2>1 DEF Prepared
    <3> QED BY <1>2, <2>1, <3>1, MovedFields
  <2>2. CASE LaunchClaimed \/ NeverRan
    BY <1>2, <2>2, MovedFields
  <2> QED BY <2>1, <2>2
<1>4. Launches' /\ ResultIsLast'
  BY <1>1, <1>2, <1>3 DEF Still, Launches, ResultIsLast, Unstarted, Started
<1>5. BoundaryKept' /\ LedgerTrue'
  BY <1>0, <1>1, <1>2, <1>3 DEF Still, BoundaryKept, LedgerTrue, Started
<1> QED BY <1>4, <1>5 DEF Core

LEMMA SettledCore ==
  ASSUME Core, Still, Settled, claim' # None PROVE Core'
<1>0. claim # None
  BY ClaimAssumption DEF Settled
<1>1. /\ claim'.parent \in {"spawned", "indeterminate"} /\ claim'.provider = claim.provider
      /\ claim'.contacted = claim.contacted /\ claim.parent \in MayHaveRun
  BY MovedFields DEF Settled
<1>2. Launches' /\ ResultIsLast'
  BY <1>0, <1>1 DEF Core, Still, Launches, ResultIsLast, Unstarted, Started, MayHaveRun
<1>3. BoundaryKept' /\ LedgerTrue'
  BY <1>0, <1>1 DEF Core, Still, BoundaryKept, LedgerTrue, MayHaveRun
<1> QED BY <1>2, <1>3 DEF Core

LEMMA SealedCore ==
  ASSUME Core, Still, Sealed, claim' # None PROVE Core'
<1>0. claim # None
  BY ClaimAssumption DEF Sealed
<1>1. result # "none" /\ claim'.parent = "terminal" /\ claim.parent \in MayHaveRun
  BY SealedFields
<1>2. Launches' /\ ResultIsLast'
  BY <1>0, <1>1 DEF Core, Still, Launches, ResultIsLast, Unstarted, Started
<1>3. BoundaryKept'
  BY <1>1 DEF Core, Still, BoundaryKept, ResultIsLast
<1>4. LedgerTrue'
  <2>1. CASE claim.provider = "indeterminate"
    BY <1>0, <1>1, <2>1, SealedFields DEF Core, Still, LedgerTrue
  <2>2. CASE claim.provider # "indeterminate" /\ result = "contact"
    BY <1>0, <1>1, <2>2, SealedFields DEF Core, Still, LedgerTrue
  <2>3. CASE claim.provider # "indeterminate" /\ result = "no_contact"
    BY <1>0, <1>1, <2>3, SealedFields DEF Core, Still, LedgerTrue
  <2> QED BY <2>1, <2>2, <2>3, SealedFields
<1> QED BY <1>2, <1>3, <1>4 DEF Core

\* How a caller moves the claim.
CallerMove == claim' = claim \/ Fresh \/ Prepared \/ LaunchClaimed \/ Settled \/ NeverRan \/ Sealed

LEMMA CallerMoves ==
  ASSUME ClaimOK, LockHolders, Launcher, NEW c \in Caller,
         CallerStep(c) \/ CallerDies(c), ~Popen(c), ~PopenAmbiguous(c)
  PROVE  Still /\ CallerMove
<1>0. call[c] # "idle" => claim \in Claim /\ claim # None
  BY DEF LockHolders, ClaimOK
<1>1. CASE Reserve(c)
  <2>1. Still
    BY <1>1 DEF Reserve, Still
  <2>2. claim = None => Fresh
    BY <1>1 DEF Reserve, Fresh
  <2>3. claim # None => claim' = claim
    BY <1>1 DEF Reserve
  <2> QED BY <2>1, <2>2, <2>3 DEF CallerMove
<1>2. CASE \/ LookAtClaim(c) \/ Judge(c) \/ Answer(c) \/ WritePrepared(c) \/ LoadRecovery(c)
           \/ PrepareFails(c) \/ HookSetupFails(c) \/ RecordPid(c) \/ CallerDies(c)
  BY <1>2 DEF LookAtClaim, Judge, Answer, WritePrepared, LoadRecovery, PrepareFails,
              HookSetupFails, RecordPid, CallerDies, Still, CallerMove
<1>3. CASE Settle(c)
  <2>0. claim \in Claim
    BY <1>0, <1>3 DEF Settle
  <2>1. Still
    BY <1>3 DEF Settle, Still
  <2>2. CASE call[c] = "to_spawned"
    <3>1. claim' = Swapped("child_launch_claimed", "spawned", claim.contacted)
      BY <1>3, <2>2 DEF Settle
    <3>2. CASE claim.parent = "child_launch_claimed"
      <4>1. claim' = [claim EXCEPT !.parent = "spawned", !.contacted = claim.contacted]
        BY <3>1, <3>2 DEF Swapped
      <4>2. Settled
        BY <2>0, <3>2, <4>1 DEF Settled, MayHaveRun
      <4> QED BY <2>1, <4>2 DEF CallerMove
    <3> QED BY <2>1, <3>1, <3>2 DEF Swapped, CallerMove
  <2>3. CASE call[c] = "to_indeterminate"
    <3>1. claim' = Swapped(seen[c], "indeterminate", claim.contacted)
      BY <1>3, <2>3 DEF Settle
    <3>2. CASE claim.parent = seen[c]
      <4>1. claim.parent \in MayHaveRun
        BY <2>3, <3>2 DEF LockHolders, MayHaveRun
      <4>2. claim' = [claim EXCEPT !.parent = "indeterminate", !.contacted = claim.contacted]
        BY <3>1, <3>2 DEF Swapped
      <4>3. Settled
        BY <2>0, <4>1, <4>2 DEF Settled
      <4> QED BY <2>1, <4>3 DEF CallerMove
    <3> QED BY <2>1, <3>1, <3>2 DEF Swapped, CallerMove
  <2> QED BY <1>3, <2>2, <2>3, <2>1 DEF Settle, CallerMove
<1>4. CASE Reconcile(c)
  BY <1>0, <1>4 DEF Reconcile, Sealed, Still, CallerMove
<1>5. CASE PrepareSuccessor(c)
  BY <1>0, <1>5 DEF PrepareSuccessor, Prepared, Still, CallerMove
<1>6. CASE ClaimLaunch(c)
  <2>1. seen[c] \in {"successor_prepared", "spawn_failed"} /\ claim \in Claim
    BY <1>0, <1>6 DEF ClaimLaunch, LockHolders
  <2>2. CASE claim.parent = seen[c]
    BY <1>6, <2>1, <2>2 DEF ClaimLaunch, Swapped, LaunchClaimed, Still, CallerMove
  <2>3. CASE claim.parent # seen[c]
    BY <1>6, <2>3 DEF ClaimLaunch, Swapped, Still, CallerMove
  <2> QED BY <2>2, <2>3
<1>7. CASE PopenFails(c)
  <2>1. claim.parent = "child_launch_claimed" /\ claim \in Claim /\ \A s \in Child : ~Started(s)
    BY <1>0, <1>7 DEF PopenFails, Launcher
  <2> QED BY <1>7, <2>1 DEF PopenFails, Swapped, NeverRan, Still, CallerMove
<1>8. CASE ConfirmSpawn(c)
  <2>1. claim \in Claim
    BY <1>0, <1>8 DEF ConfirmSpawn
  <2>2. claim.parent = "child_launch_claimed" => Settled
    BY <1>8, <2>1 DEF ConfirmSpawn, Swapped, Settled, MayHaveRun
  <2> QED BY <1>8, <2>2 DEF ConfirmSpawn, Swapped, Still, CallerMove
<1> QED BY <1>1, <1>2, <1>3, <1>4, <1>5, <1>6, <1>7, <1>8 DEF CallerStep

\* The successor is started on a claim whose launch is claimed.
LEMMA StartCore ==
  ASSUME Core, ChildOK, claim # None, claim' # None,
         claim.parent = "child_launch_claimed", \A s \in Child : ~Started(s),
         claim'.parent \in MayHaveRun, claim'.provider = claim.provider,
         claim'.contacted = claim.contacted,
         NEW s \in Child, Starts(s), result' = result, runs' = runs
  PROVE  Core'
<1>1. /\ child'[s] = "start"
      /\ \A t \in Child \ {s} : child'[t] = "absent"
  BY DEF Starts, Started, ChildOK
<1>2. result = "none" /\ runs = 0 /\ claim.provider = "pending" /\ claim.contacted = "unknown"
  BY DEF Core, Launches, Unstarted
<1>3. Launches'
  BY <1>1 DEF Launches, Started
<1>4. ResultIsLast' /\ LedgerTrue'
  BY <1>2 DEF ResultIsLast, LedgerTrue, MayHaveRun
<1>5. BoundaryKept'
  BY <1>1, <1>2 DEF BoundaryKept
<1> QED BY <1>3, <1>4, <1>5 DEF Core

LEMMA CallerCore ==
  ASSUME ClaimOK, CallsOK, ChildOK, LockHolders, Launcher, Core, Next, NEW c \in Caller,
         CallerStep(c) \/ CallerDies(c)
  PROVE  Core'
<1>0. claim # None => claim' # None
  BY ClaimStep DEF Core
<1>1. CASE Popen(c) \/ PopenAmbiguous(c)
  <2>1. claim.parent = "child_launch_claimed" /\ \A s \in Child : ~Started(s)
    BY <1>1 DEF Popen, PopenAmbiguous, Launcher
  <2>2. claim # None /\ claim \in Claim
    BY <1>1 DEF Popen, PopenAmbiguous, LockHolders, ClaimOK
  <2>3. result' = result /\ runs' = runs
    BY <1>1 DEF Popen, PopenAmbiguous
  <2>4. claim' = claim \/ Settled
    BY <1>1, <2>1, <2>2 DEF Popen, PopenAmbiguous, Swapped, Settled, MayHaveRun
  <2>5. /\ claim'.parent \in MayHaveRun /\ claim'.provider = claim.provider
        /\ claim'.contacted = claim.contacted
    BY <2>1, <2>4, MovedFields DEF MayHaveRun
  <2>6. CASE child' = child
    <3>1. Still
      BY <2>3, <2>6 DEF Still
    <3> QED BY <1>0, <2>2, <2>4, <3>1, SameCore, SettledCore
  <2>7. CASE \E s \in Child : Starts(s)
    BY <1>0, <2>1, <2>2, <2>3, <2>5, <2>7, StartCore
  <2> QED BY <1>1, <2>6, <2>7 DEF Popen, PopenAmbiguous
<1>2. CASE ~Popen(c) /\ ~PopenAmbiguous(c)
  <2>1. Still /\ CallerMove
    BY <1>2, CallerMoves
  <2>2. Settled \/ Sealed => claim' # None
    BY <1>0, ClaimAssumption DEF Settled, Sealed
  <2> QED BY <2>1, <2>2, SameCore, FreshCore, UnstartedCore, SettledCore, SealedCore DEF CallerMove
<1> QED BY <1>1, <1>2

-----------------------------------------------------------------------------
(* The successor's steps. *)

\* Where a successor at a place expects the provider's phase and the runs.
Fits(place, provider, n) ==
  /\ place \in {"start", "gate_claimed", "gate_running", "gate_yes", "gate_no", "cleared"}
       => provider = "pending"
  /\ place \in {"claimed", "created"} => provider = "launch_claimed"
  /\ place = "claimed" => n = 0
  /\ place = "created" => n = 1
  /\ place = "running" => provider = "spawned"

Last == {"published", "unsealed", "gone"}

LEMMA TheOnlyChild ==
  ASSUME Core, ClaimOK, ChildOK, NEW s \in Child, child[s] # "absent"
  PROVE  /\ claim # None /\ claim \in Claim
         /\ claim.parent \in MayHaveRun \cup {"terminal"}
         /\ \A t \in Child \ {s} : child[t] = "absent"
         /\ Fits(child[s], claim.provider, runs)
         /\ result # "none" => child[s] \in Last
         /\ claim.parent = "terminal" => result # "none"
<1>1. /\ claim # None /\ claim \in Claim /\ claim.parent \in MayHaveRun \cup {"terminal"}
      /\ \A t \in Child \ {s} : child[t] = "absent"
  BY DEF Core, Launches, Started, ClaimOK
<1>2. Fits(child[s], claim.provider, runs)
  BY DEF Core, BoundaryKept, Fits
<1>3. /\ result # "none" => child[s] \in Last
      /\ claim.parent = "terminal" => result # "none"
  BY <1>1 DEF Core, ResultIsLast, Last
<1> QED BY <1>1, <1>2, <1>3

\* What a step of the only successor has to keep.
LEMMA OnlyChildCore ==
  ASSUME Core, ClaimOK, ChildOK, NEW s \in Child, child[s] # "absent",
         NEW place \in ChildPlace \ {"absent"}, child' = [child EXCEPT ![s] = place],
         claim' # None, claim'.parent \in MayHaveRun \cup {"terminal"},
         Fits(place, claim'.provider, runs'),
         result' # "none" => place \in Last,
         claim'.parent = "terminal" => result' # "none",
         LedgerTrue'
  PROVE  Core'
<1>1. child'[s] = place /\ \A t \in Child \ {s} : child'[t] = "absent"
  BY TheOnlyChild DEF ChildOK
<1>2. Launches'
  BY <1>1 DEF Launches, Started
<1>3. ResultIsLast'
  BY <1>1 DEF ResultIsLast, Last
<1>4. BoundaryKept'
  <2> SUFFICES ASSUME NEW t \in Child PROVE Fits(child'[t], claim'.provider, runs')
    BY DEF BoundaryKept, Fits
  <2>1. Fits("absent", claim'.provider, runs')
    BY DEF Fits
  <2> QED BY <1>1, <2>1
<1> QED BY <1>2, <1>3, <1>4 DEF Core

\* Steps that leave the provider's phase, the result and the runs.
LEMMA AsideCore ==
  ASSUME Core, ClaimOK, ChildOK, NEW s \in Child, child[s] # "absent", child[s] \notin Last,
         NEW place \in ChildPlace \ {"absent"}, child' = [child EXCEPT ![s] = place],
         claim' # None, claim'.parent = claim.parent, claim'.provider = claim.provider,
         claim'.contacted = claim.contacted, result' = result, runs' = runs,
         Fits(place, claim.provider, runs)
  PROVE  Core'
<1>1. result = "none" /\ claim # None
  BY TheOnlyChild
<1>2. LedgerTrue'
  BY <1>1 DEF Core, LedgerTrue
<1> QED BY <1>1, <1>2, TheOnlyChild, OnlyChildCore

LEMMA GateFields ==
  ASSUME claim \in Claim, NEW g \in GatePhase
  PROVE  /\ [claim EXCEPT !.gate = g].parent = claim.parent
         /\ [claim EXCEPT !.gate = g].provider = claim.provider
         /\ [claim EXCEPT !.gate = g].contacted = claim.contacted
  BY DEF Claim

LEMMA GateMoves ==
  ASSUME Core, ClaimOK, ChildOK, NEW s \in Child,
         ClaimGate(s) \/ LaunchGate(s) \/ GateAnswers(s) \/ MarkGate(s) \/ Refuses(s)
  PROVE  /\ \E place \in ChildPlace \ {"absent"} :
              child' = [child EXCEPT ![s] = place] /\ Fits(place, claim.provider, runs)
         /\ claim'.parent = claim.parent /\ claim'.provider = claim.provider
         /\ claim'.contacted = claim.contacted
         /\ result' = result /\ runs' = runs
         /\ child[s] # "absent" /\ child[s] \notin Last
<1> DEFINE Before == {"start", "gate_claimed", "gate_running", "gate_yes", "gate_no", "cleared"}
<1>1. PICK place \in {"gate_claimed", "gate_running", "gate_yes", "gate_no", "cleared", "ended"} :
        child' = [child EXCEPT ![s] = place]
  BY DEF ClaimGate, LaunchGate, GateAnswers, MarkGate, Refuses, Moves, Ends
<1>2. child[s] \in Before
  BY DEF ClaimGate, LaunchGate, GateAnswers, MarkGate, Refuses, Moves, Ends
<1>3. claim \in Claim /\ claim # None /\ claim.provider = "pending"
  BY <1>2, TheOnlyChild DEF Fits
<1>4. result' = result /\ runs' = runs
  BY DEF ClaimGate, LaunchGate, GateAnswers, MarkGate, Refuses
<1>5. claim' = claim \/ \E g \in GatePhase : claim' = [claim EXCEPT !.gate = g]
  <2>1. CASE ClaimGate(s) \/ LaunchGate(s)
    BY <1>3, <2>1, UnlessFacts DEF ClaimGate, LaunchGate, GatePhase
  <2>2. CASE GateAnswers(s)
    <3>1. claim' = [claim EXCEPT !.gate = IF claim.gate = "spawned" THEN "reaped" ELSE claim.gate]
      BY <2>2 DEF GateAnswers
    <3>2. (IF claim.gate = "spawned" THEN "reaped" ELSE claim.gate) \in GatePhase
      BY <1>3 DEF Claim, GatePhase
    <3> QED BY <3>1, <3>2
  <2>3. CASE MarkGate(s) \/ Refuses(s)
    BY <2>3 DEF MarkGate, Refuses, GatePhase
  <2> QED BY <2>1, <2>2, <2>3
<1>6. /\ claim'.parent = claim.parent /\ claim'.provider = claim.provider
      /\ claim'.contacted = claim.contacted
  BY <1>3, <1>5, GateFields
<1>7. Fits(place, claim.provider, runs)
  BY <1>3 DEF Fits
<1>8. place \in ChildPlace \ {"absent"} /\ child[s] # "absent" /\ child[s] \notin Last
  BY <1>2 DEF ChildPlace, Last
<1> QED BY <1>1, <1>4, <1>6, <1>7, <1>8

LEMMA GateCore ==
  ASSUME Core, ClaimOK, ChildOK, claim' # None, NEW s \in Child,
         ClaimGate(s) \/ LaunchGate(s) \/ GateAnswers(s) \/ MarkGate(s) \/ Refuses(s)
  PROVE  Core'
  BY GateMoves, AsideCore

LEMMA BoundaryCore ==
  ASSUME Core, ClaimOK, ChildOK, claim' # None, NEW s \in Child,
         \/ ClaimProvider(s) \/ LaunchFails(s) \/ LaunchAmbiguous(s) \/ StartProvider(s)
         \/ Register(s) \/ RegistrationFails(s) \/ ProviderEnds(s)
  PROVE  Core'
<1> DEFINE Here == child[s]
<1>1. Here \in {"start", "cleared", "claimed", "created", "running"}
  BY DEF ClaimProvider, LaunchFails, LaunchAmbiguous, StartProvider, Register, RegistrationFails,
         ProviderEnds, Moves, Ends, AtBoundary
<1>2. /\ claim \in Claim /\ claim # None /\ claim.parent \in MayHaveRun \cup {"terminal"}
      /\ Fits(Here, claim.provider, runs) /\ result = "none" /\ claim.parent # "terminal"
  BY <1>1, TheOnlyChild DEF Last
<1>3. result' = result
  BY DEF ClaimProvider, LaunchFails, LaunchAmbiguous, StartProvider, Register, RegistrationFails,
         ProviderEnds
<1>4. LedgerTrue
  BY DEF Core
<1>5. ASSUME NEW place \in ChildPlace \ {"absent"}, child' = [child EXCEPT ![s] = place],
             claim'.parent = claim.parent, Fits(place, claim'.provider, runs'), LedgerTrue'
      PROVE  Core'
  BY <1>1, <1>2, <1>3, <1>5, OnlyChildCore
<1>6. {"ended", "claimed", "created", "running"} \subseteq ChildPlace \ {"absent"}
  BY DEF ChildPlace
<1>7. CASE ClaimProvider(s)
  <2>1. claim.provider = "pending" /\ runs' = runs /\ runs = 0
    BY <1>2, <1>4, <1>7 DEF ClaimProvider, AtBoundary, Fits, LedgerTrue
  <2>2. CASE MayContact
    <3>1. /\ claim' = [claim EXCEPT !.provider = "launch_claimed"]
          /\ child' = [child EXCEPT ![s] = "claimed"]
      BY <1>7, <2>2 DEF ClaimProvider, Moves
    <3>2. /\ claim'.parent = claim.parent /\ claim'.provider = "launch_claimed"
          /\ claim'.contacted = claim.contacted
      BY <1>2, <3>1 DEF Claim
    <3>3. claim.contacted = "unknown"
      BY <1>2, <1>4, <2>1, <2>2 DEF LedgerTrue, MayContact, Launched
    <3>4. LedgerTrue' /\ Fits("claimed", claim'.provider, runs')
      BY <2>1, <3>2, <3>3 DEF LedgerTrue, Fits
    <3> QED BY <1>5, <1>6, <3>1, <3>2, <3>4
  <2>3. CASE ~MayContact
    <3>1. claim' = claim /\ child' = [child EXCEPT ![s] = "ended"]
      BY <1>2, <1>7, <2>1, <2>3, UnlessFacts DEF ClaimProvider, Ends, Moves
    <3>2. LedgerTrue' /\ Fits("ended", claim'.provider, runs')
      BY <1>4, <2>1, <3>1 DEF LedgerTrue, Fits
    <3> QED BY <1>5, <1>6, <3>1, <3>2
  <2> QED BY <2>2, <2>3
<1>8. CASE LaunchFails(s)
  <2>1. claim.provider = "launch_claimed" /\ runs' = runs /\ runs = 0
        /\ child' = [child EXCEPT ![s] = "ended"]
    BY <1>2, <1>8 DEF LaunchFails, Ends, Moves, Fits
  <2>2. claim' = claim \/ claim' = [claim EXCEPT !.provider = "spawn_failed", !.contacted = "no"]
    BY <1>8 DEF LaunchFails
  <2>3. /\ claim'.parent = claim.parent
        /\ claim' = claim \/ (claim'.provider = "spawn_failed" /\ claim'.contacted = "no")
    BY <1>2, <2>2 DEF Claim
  <2>4. LedgerTrue' /\ Fits("ended", claim'.provider, runs')
    BY <1>4, <2>1, <2>3 DEF LedgerTrue, Fits
  <2> QED BY <1>5, <1>6, <2>1, <2>3, <2>4
<1>9. CASE LaunchAmbiguous(s) \/ RegistrationFails(s)
  <2>1. /\ claim.provider = "launch_claimed" /\ runs' \in {0, 1}
        /\ child' = [child EXCEPT ![s] = "ended"]
    BY <1>2, <1>4, <1>9 DEF LaunchAmbiguous, RegistrationFails, Ends, Moves, Fits
  <2>2. claim' = claim \/ claim' = [claim EXCEPT !.provider = "indeterminate"]
    BY <1>2, <1>9, UnlessFacts DEF LaunchAmbiguous, RegistrationFails
  <2>3. /\ claim'.parent = claim.parent /\ claim'.contacted = claim.contacted
        /\ claim'.provider \in {"launch_claimed", "indeterminate"}
    BY <1>2, <2>1, <2>2 DEF Claim
  <2>4. LedgerTrue' /\ Fits("ended", claim'.provider, runs')
    BY <1>2, <1>4, <2>1, <2>3 DEF LedgerTrue, Fits
  <2> QED BY <1>5, <1>6, <2>1, <2>3, <2>4
<1>10. CASE StartProvider(s)
  <2>1. /\ claim.provider = "launch_claimed" /\ runs' = 1 /\ claim' = claim
        /\ child' = [child EXCEPT ![s] = "created"]
    BY <1>2, <1>10 DEF StartProvider, Moves, Fits
  <2>2. LedgerTrue' /\ Fits("created", claim'.provider, runs')
    BY <1>2, <1>4, <2>1 DEF LedgerTrue, Fits
  <2> QED BY <1>5, <1>6, <2>1, <2>2
<1>11. CASE Register(s)
  <2>1. /\ runs = 1 /\ runs' = 1 /\ child' = [child EXCEPT ![s] = "running"]
        /\ claim' = [claim EXCEPT !.provider = "spawned", !.contacted = "yes"]
    BY <1>2, <1>11 DEF Register, Moves, Fits
  <2>2. claim'.parent = claim.parent /\ claim'.contacted = "yes" /\ claim'.provider = "spawned"
    BY <1>2, <2>1 DEF Claim
  <2>3. LedgerTrue' /\ Fits("running", claim'.provider, runs')
    BY <1>2, <1>4, <2>1, <2>2 DEF LedgerTrue, Fits
  <2> QED BY <1>5, <1>6, <2>1, <2>2, <2>3
<1>12. CASE ProviderEnds(s)
  <2>1. /\ claim.provider = "spawned" /\ runs' = runs /\ child' = [child EXCEPT ![s] = "ended"]
        /\ claim' = [claim EXCEPT !.provider = "reaped"]
    BY <1>2, <1>12 DEF ProviderEnds, Ends, Moves, Fits
  <2>2. claim'.parent = claim.parent /\ claim'.contacted = claim.contacted /\ claim'.provider = "reaped"
    BY <1>2, <2>1 DEF Claim
  <2>3. LedgerTrue' /\ Fits("ended", claim'.provider, runs')
    BY <1>2, <1>4, <2>1, <2>2 DEF LedgerTrue, Fits
  <2> QED BY <1>5, <1>6, <2>1, <2>2, <2>3
<1> QED BY <1>7, <1>8, <1>9, <1>10, <1>11, <1>12

LEMMA EndCore ==
  ASSUME Core, ClaimOK, ChildOK, claim' # None, NEW s \in Child,
         Publish(s) \/ Seal(s) \/ RecordFailure(s) \/ ChildDies(s)
  PROVE  Core'
<1>1. child[s] # "absent"
  BY DEF Publish, Seal, RecordFailure, ChildDies, Moves, Alive
<1>2. /\ claim \in Claim /\ claim # None /\ claim.parent \in MayHaveRun \cup {"terminal"}
      /\ result # "none" => child[s] \in Last
      /\ claim.parent = "terminal" => result # "none"
  BY <1>1, TheOnlyChild
<1>3. PICK place \in Last : child' = [child EXCEPT ![s] = place]
  BY DEF Publish, Seal, RecordFailure, ChildDies, Moves, Last
<1>4. runs' = runs /\ (result # "none" => result' = result)
  BY DEF Publish, Seal, RecordFailure, ChildDies, Published
<1>5. Fits(place, claim'.provider, runs') /\ place \in ChildPlace \ {"absent"}
  BY <1>3 DEF Fits, Last, ChildPlace
<1>6. CASE claim' = claim
  <2>1. LedgerTrue'
    BY <1>4, <1>6 DEF Core, LedgerTrue
  <2> QED BY <1>1, <1>2, <1>3, <1>4, <1>5, <1>6, <2>1, OnlyChildCore
<1>7. CASE claim' # claim
  <2>1. Seal(s) \/ RecordFailure(s)
    BY <1>7 DEF Publish, ChildDies
  <2>2. result' = result
    BY <2>1 DEF Seal, RecordFailure
  <2>3. CASE Seal(s)
    <3>1. Sealed
      BY <1>2, <1>7, <2>3 DEF Seal, Sealed
    <3>2. claim'.parent = "terminal" /\ result # "none"
      BY <3>1, SealedFields
    <3>3. LedgerTrue'
      <4>1. CASE claim.provider = "indeterminate"
        BY <1>2, <1>4, <3>1, <4>1, SealedFields DEF Core, LedgerTrue
      <4>2. CASE claim.provider # "indeterminate" /\ result = "contact"
        BY <1>2, <1>4, <3>1, <4>2, SealedFields DEF Core, LedgerTrue, MayHaveRun
      <4>3. CASE claim.provider # "indeterminate" /\ result = "no_contact"
        BY <1>2, <1>4, <3>1, <4>3, SealedFields DEF Core, LedgerTrue, MayHaveRun
      <4> QED BY <3>1, <4>1, <4>2, <4>3, SealedFields
    <3> QED BY <1>1, <1>3, <1>5, <2>2, <3>2, <3>3, OnlyChildCore DEF Last
  <2>4. CASE RecordFailure(s)
    <3>1. claim.parent \in MayHaveRun /\ claim' = [claim EXCEPT !.parent = "indeterminate"]
      BY <1>7, <2>4 DEF RecordFailure
    <3>2. /\ claim'.parent = "indeterminate" /\ claim'.provider = claim.provider
          /\ claim'.contacted = claim.contacted
      BY <1>2, <3>1 DEF Claim
    <3>3. LedgerTrue'
      BY <1>2, <1>4, <3>1, <3>2 DEF Core, LedgerTrue, MayHaveRun
    <3>4. claim'.parent \in MayHaveRun \cup {"terminal"} /\ claim'.parent # "terminal"
      BY <3>2 DEF MayHaveRun
    <3> QED BY <1>1, <1>3, <1>5, <3>3, <3>4, OnlyChildCore
  <2> QED BY <2>1, <2>3, <2>4
<1> QED BY <1>6, <1>7

-----------------------------------------------------------------------------
(* The invariant. *)

LEMMA ChildStarted ==
  ASSUME NEW s \in Child, ChildStep(s) \/ ChildDies(s)
  PROVE  child[s] # "absent"
<1>1. CASE \/ ClaimGate(s) \/ LaunchGate(s) \/ GateAnswers(s) \/ MarkGate(s) \/ Refuses(s)
           \/ ClaimProvider(s) \/ LaunchFails(s) \/ LaunchAmbiguous(s)
  BY <1>1 DEF ClaimGate, LaunchGate, GateAnswers, MarkGate, Refuses, ClaimProvider,
              LaunchFails, LaunchAmbiguous, Moves, Ends, AtBoundary
<1>2. CASE \/ StartProvider(s) \/ Register(s) \/ RegistrationFails(s) \/ ProviderEnds(s)
           \/ Publish(s) \/ Seal(s) \/ RecordFailure(s) \/ ChildDies(s)
  BY <1>2 DEF StartProvider, Register, RegistrationFails, ProviderEnds, Publish, Seal,
              RecordFailure, ChildDies, Moves, Ends, Alive
<1> QED BY <1>1, <1>2 DEF ChildStep

LEMMA CoreStep ==
  ASSUME ClaimOK, CallsOK, ChildOK, LockHolders, Launcher, Core, Next
  PROVE  Core'
<1>1. ASSUME NEW c \in Caller, CallerStep(c) \/ CallerDies(c) PROVE Core'
  BY <1>1, CallerCore
<1>2. ASSUME NEW s \in Child, ChildStep(s) \/ ChildDies(s) PROVE Core'
  <2>1. claim' # None
    BY <1>2, ChildStarted, TheOnlyChild, ClaimStep DEF Core
  <2> QED BY <1>2, <2>1, GateCore, BoundaryCore, EndCore DEF ChildStep
<1> QED BY <1>1, <1>2 DEF Next

\* Nobody but the caller that claimed the launch moves the claim before its Popen.
LEMMA LauncherStep ==
  ASSUME ClaimOK, CallsOK, ChildOK, LockHolders, Launcher, Core, Next
  PROVE  Launcher'
<1>1. ASSUME NEW c \in Caller, CallerStep(c) \/ CallerDies(c) PROVE Launcher'
  <2> SUFFICES ASSUME NEW d \in Caller, call'[d] = "claimed"
               PROVE  /\ claim'.parent = "child_launch_claimed"
                      /\ \A s \in Child : child'[s] = "absent"
    BY DEF Launcher, Started
  <2>1. Own(c)
    BY <1>1, OwnStep DEF Core
  <2>2. CASE d # c
    <3>1. call[d] = "claimed" /\ launchLock = d /\ launchLock # c
      BY <2>1, <2>2 DEF Own, LockHolders
    <3>2. call[c] \in {"idle", "bound"} /\ claim # None
      BY <3>1 DEF LockHolders
    <3>3. Reserve(c) \/ CallerDies(c) \/ LookAtClaim(c)
      BY <1>1, <3>2 DEF CallerStep, Judge, Answer, Settle, Reconcile, WritePrepared,
         PrepareSuccessor, LoadRecovery, PrepareFails, ClaimLaunch, HookSetupFails, Popen,
         PopenFails, PopenAmbiguous, RecordPid, ConfirmSpawn
    <3>4. claim' = claim /\ child' = child
      BY <3>2, <3>3 DEF Reserve, CallerDies, LookAtClaim
    <3> QED BY <3>1, <3>4 DEF Launcher, Started
  <2>3. CASE d = c
    <3>0. call[c] # "claimed" /\ call \in [Caller -> CallPlace]
      <4>1. call[c] = "claimed" => \/ HookSetupFails(c) \/ Popen(c) \/ PopenFails(c)
                                   \/ PopenAmbiguous(c) \/ CallerDies(c)
        BY <1>1 DEF CallerStep, Reserve, LookAtClaim, Judge, Answer, Settle, Reconcile, WritePrepared,
         PrepareSuccessor, LoadRecovery, PrepareFails, ClaimLaunch, RecordPid, ConfirmSpawn
      <4>2. HookSetupFails(c) \/ PopenFails(c) \/ PopenAmbiguous(c) \/ CallerDies(c) => Hang(c)
        BY DEF HookSetupFails, PopenFails, PopenAmbiguous, CallerDies
      <4>3. Popen(c) => call'[c] = "popped"
        BY DEF Popen, CallsOK
      <4> QED BY <2>3, <4>1, <4>2, <4>3, HangFacts DEF CallsOK
    <3>1. ~Hang(c)
      BY <2>3, HangFacts
    <3>2. ClaimLaunch(c)
      <4>1. \/ Reserve(c) \/ LookAtClaim(c) \/ Judge(c) \/ WritePrepared(c) \/ PrepareSuccessor(c)
            \/ LoadRecovery(c) \/ ClaimLaunch(c) \/ Popen(c) \/ RecordPid(c)
        BY <1>1, <3>1 DEF CallerStep, Answer, Settle, Reconcile, PrepareFails, HookSetupFails,
           PopenFails, PopenAmbiguous, ConfirmSpawn, CallerDies
      <4>2. Reserve(c) \/ LookAtClaim(c) \/ WritePrepared(c) \/ Popen(c) \/ RecordPid(c)
              => call'[c] \in {"bound", "looked", "finish", "popped", "stamped"}
        BY <3>0 DEF Reserve, LookAtClaim, WritePrepared, Popen, RecordPid
      <4>3. Judge(c) => call'[c] # "claimed"
        BY <3>0, VerdictFacts DEF Judge
      <4>4. PrepareSuccessor(c) \/ LoadRecovery(c) => call'[c] = "ready"
        BY <3>0, <3>1 DEF PrepareSuccessor, LoadRecovery
      <4> QED BY <2>3, <4>1, <4>2, <4>3, <4>4
    <3>3. /\ claim.parent = seen[c] /\ seen[c] \in {"successor_prepared", "spawn_failed"}
          /\ claim # None /\ claim \in Claim /\ child' = child
      BY <3>1, <3>2 DEF ClaimLaunch, LockHolders, ClaimOK
    <3>4. claim' = [claim EXCEPT !.parent = "child_launch_claimed", !.contacted = "unknown"]
      BY <3>2, <3>3 DEF ClaimLaunch, Swapped
    <3>5. claim'.parent = "child_launch_claimed"
      BY <3>3, <3>4 DEF Claim
    <3>6. \A s \in Child : ~Started(s)
      BY <3>3 DEF Core, Launches, MayHaveRun
    <3> QED BY <3>3, <3>5, <3>6 DEF Started
  <2> QED BY <2>2, <2>3
<1>2. ASSUME NEW s \in Child, ChildStep(s) \/ ChildDies(s) PROVE Launcher'
  <2>1. call' = call /\ child[s] # "absent"
    BY <1>2, ChildLeavesCallers, ChildStarted
  <2> QED BY <2>1 DEF Launcher, Started
<1> QED BY <1>1, <1>2 DEF Next

LEMMA OthersStep ==
  ASSUME ChildOK, SaysOK, OthersOK, Next
  PROVE  ChildOK' /\ SaysOK' /\ OthersOK'
<1>0. MaxFaults \in Nat
  BY ResumeAssumption
<1>1. ASSUME NEW c \in Caller, CallerStep(c) \/ CallerDies(c)
      PROVE  ChildOK' /\ SaysOK' /\ OthersOK'
  <2>1. says' = says /\ result' = result /\ runs' = runs
    BY <1>1 DEF CallerStep, Reserve, LookAtClaim, Judge, Answer, Settle, Reconcile, WritePrepared,
         PrepareSuccessor, LoadRecovery, PrepareFails, ClaimLaunch, HookSetupFails, Popen,
         PopenFails, PopenAmbiguous, RecordPid, ConfirmSpawn, CallerDies
  <2>2. child' = child \/ \E s \in Child : Starts(s)
    BY <1>1 DEF CallerStep, Reserve, LookAtClaim, Judge, Answer, Settle, Reconcile, WritePrepared,
         PrepareSuccessor, LoadRecovery, PrepareFails, ClaimLaunch, HookSetupFails, Popen,
         PopenFails, PopenAmbiguous, RecordPid, ConfirmSpawn, CallerDies
  <2>3. faults' = faults \/ Fault
    BY <1>1 DEF CallerStep, Reserve, LookAtClaim, Judge, Answer, Settle, Reconcile, WritePrepared,
         PrepareSuccessor, LoadRecovery, PrepareFails, ClaimLaunch, HookSetupFails, Popen,
         PopenFails, PopenAmbiguous, RecordPid, ConfirmSpawn, CallerDies
  <2>4. record' \in {record, "prepared", "pid"}
    BY <1>1 DEF CallerStep, Reserve, LookAtClaim, Judge, Answer, Settle, Reconcile, WritePrepared,
         PrepareSuccessor, LoadRecovery, PrepareFails, ClaimLaunch, HookSetupFails, Popen,
         PopenFails, PopenAmbiguous, RecordPid, ConfirmSpawn, CallerDies
  <2>5. ChildOK'
    BY <2>2 DEF ChildOK, ChildPlace, Starts
  <2>6. OthersOK'
    BY <1>0, <2>1, <2>3, <2>4 DEF OthersOK, Fault
  <2> QED BY <2>1, <2>5, <2>6 DEF SaysOK
<1>2. ASSUME NEW s \in Child, ChildStep(s) \/ ChildDies(s)
      PROVE  ChildOK' /\ SaysOK' /\ OthersOK'
  <2>1. \E place \in ChildPlace : child' = [child EXCEPT ![s] = place]
    <3>1. CASE \/ ClaimGate(s) \/ LaunchGate(s) \/ GateAnswers(s) \/ MarkGate(s) \/ Refuses(s)
               \/ ClaimProvider(s) \/ LaunchFails(s) \/ LaunchAmbiguous(s)
      BY <3>1 DEF ClaimGate, LaunchGate, GateAnswers, MarkGate, Refuses, ClaimProvider,
                  LaunchFails, LaunchAmbiguous, Moves, Ends, ChildPlace
    <3>2. CASE \/ StartProvider(s) \/ Register(s) \/ RegistrationFails(s) \/ ProviderEnds(s)
               \/ Publish(s) \/ Seal(s) \/ RecordFailure(s) \/ ChildDies(s)
      BY <3>2 DEF StartProvider, Register, RegistrationFails, ProviderEnds, Publish, Seal,
                  RecordFailure, ChildDies, Moves, Ends, ChildPlace
    <3> QED BY <1>2, <3>1, <3>2 DEF ChildStep
  <2>2. says' = says \/ \E what \in {"contact", "no_contact"} : says' = [says EXCEPT ![s] = what]
    <3>1. CASE \/ ClaimGate(s) \/ LaunchGate(s) \/ GateAnswers(s) \/ MarkGate(s) \/ Refuses(s)
               \/ ClaimProvider(s) \/ LaunchFails(s) \/ LaunchAmbiguous(s)
      BY <3>1 DEF ClaimGate, LaunchGate, GateAnswers, MarkGate, Refuses, ClaimProvider,
                  LaunchFails, LaunchAmbiguous, Ends
    <3>2. CASE \/ StartProvider(s) \/ Register(s) \/ RegistrationFails(s) \/ ProviderEnds(s)
               \/ Publish(s) \/ Seal(s) \/ RecordFailure(s) \/ ChildDies(s)
      BY <3>2 DEF StartProvider, Register, RegistrationFails, ProviderEnds, Publish, Seal,
                  RecordFailure, ChildDies, Ends
    <3> QED BY <1>2, <3>1, <3>2 DEF ChildStep
  <2>3. result' \in {result, says[s], "crash"} /\ (faults' = faults \/ Fault) /\ record' = record
    <3>1. CASE \/ ClaimGate(s) \/ LaunchGate(s) \/ GateAnswers(s) \/ MarkGate(s) \/ Refuses(s)
               \/ ClaimProvider(s) \/ LaunchFails(s) \/ LaunchAmbiguous(s)
      BY <3>1 DEF ClaimGate, LaunchGate, GateAnswers, MarkGate, Refuses, ClaimProvider,
                  LaunchFails, LaunchAmbiguous
    <3>2. CASE \/ StartProvider(s) \/ Register(s) \/ RegistrationFails(s) \/ ProviderEnds(s)
               \/ Publish(s) \/ Seal(s) \/ RecordFailure(s) \/ ChildDies(s)
      BY <3>2 DEF StartProvider, Register, RegistrationFails, ProviderEnds, Publish, Published, Seal,
                  RecordFailure, ChildDies
    <3> QED BY <1>2, <3>1, <3>2 DEF ChildStep
  <2>4. runs' \in {runs, runs + 1}
    <3>1. CASE \/ ClaimGate(s) \/ LaunchGate(s) \/ GateAnswers(s) \/ MarkGate(s) \/ Refuses(s)
               \/ ClaimProvider(s) \/ LaunchFails(s) \/ LaunchAmbiguous(s)
      BY <3>1 DEF ClaimGate, LaunchGate, GateAnswers, MarkGate, Refuses, ClaimProvider,
                  LaunchFails, LaunchAmbiguous
    <3>2. CASE \/ StartProvider(s) \/ Register(s) \/ RegistrationFails(s) \/ ProviderEnds(s)
               \/ Publish(s) \/ Seal(s) \/ RecordFailure(s) \/ ChildDies(s)
      BY <3>2 DEF StartProvider, Register, RegistrationFails, ProviderEnds, Publish, Seal,
                  RecordFailure, ChildDies
    <3> QED BY <1>2, <3>1, <3>2 DEF ChildStep
  <2>5. ChildOK'
    BY <2>1 DEF ChildOK
  <2>6. SaysOK'
    BY <2>2, <2>3 DEF SaysOK
  <2>7. OthersOK'
    BY <1>0, <2>3, <2>4 DEF OthersOK, Fault
  <2> QED BY <2>5, <2>6, <2>7
<1> QED BY <1>1, <1>2 DEF Next

\* At most one successor or launcher, counted.
LEMMA Counted == LockHolders /\ LaunchOnce => OneSuccessor
<1> SUFFICES ASSUME LockHolders, LaunchOnce PROVE OneSuccessor
  OBVIOUS
<1> DEFINE S == {s \in Child : child[s] # "absent"}
           C == {c \in Caller : call[c] = "claimed"}
<1>1. \A s, t \in S : s = t
  BY DEF LaunchOnce, Started
<1>2. \A c, d \in C : c = d
  BY DEF LockHolders
<1>3. S = {} \/ C = {}
  BY DEF LaunchOnce, Started
<1>4. ASSUME NEW T, \A s, t \in T : s = t PROVE Cardinality(T) \in {0, 1}
  <2>1. CASE T = {}
    BY <2>1, FS_EmptySet
  <2>2. CASE T # {}
    <3>1. PICK t \in T : TRUE
      BY <2>2
    <3>2. T = {t}
      BY <1>4, <3>1
    <3> QED BY <3>2, FS_Singleton
  <2> QED BY <2>1, <2>2
<1>5. Cardinality({}) = 0
  BY FS_EmptySet
<1>6. Cardinality(S) \in {0, 1} /\ Cardinality(C) \in {0, 1}
  BY <1>1, <1>2, <1>4
<1>7. Cardinality(S) + Cardinality(C) <= 1
  BY <1>3, <1>5, <1>6
<1> QED BY <1>7 DEF OneSuccessor

LEMMA ResumeInit == Init => ResumeInv
<1> SUFFICES ASSUME Init PROVE ResumeInv
  OBVIOUS
<1> USE DEF Init
<1>1. ClaimOK /\ CallsOK /\ ChildOK /\ SaysOK /\ OthersOK
  BY ResumeAssumption DEF ClaimOK, CallsOK, CallPlace, ChildOK, ChildPlace, SaysOK, OthersOK
<1>2. LockHolders
  BY ResumeAssumption DEF LockHolders
<1>3. LaunchOnce
  BY DEF LaunchOnce, Started, Unstarted
<1>4. ResultIsLast /\ BoundaryKept /\ LedgerTrue
  BY DEF ResultIsLast, BoundaryKept, LedgerTrue
<1> QED BY <1>1, <1>2, <1>3, <1>4, TypeParts, Counted DEF ResumeInv

LEMMA InvParts ==
  ResumeInv <=> /\ ClaimOK /\ CallsOK /\ ChildOK /\ SaysOK /\ OthersOK
                /\ LockHolders /\ Launcher /\ Core
<1>1. LaunchOnce /\ ResultIsLast /\ BoundaryKept /\ LedgerTrue <=> Launcher /\ Core
  BY LaunchParts DEF Core
<1> QED BY <1>1, TypeParts, Counted DEF ResumeInv

LEMMA InvPartsNext ==
  /\ ClaimOK' /\ CallsOK' /\ ChildOK' /\ SaysOK' /\ OthersOK'
  /\ LockHolders' /\ Launcher' /\ Core'
  => ResumeInv'
<1>1. ASSUME ClaimOK, CallsOK, ChildOK, SaysOK, OthersOK, LockHolders, Launcher, Core
      PROVE  ResumeInv
  BY <1>1, InvParts
<1> QED BY <1>1, PTL

LEMMA ResumeStep == ResumeInv /\ [Next]_vars => ResumeInv'
<1> SUFFICES ASSUME ResumeInv, [Next]_vars PROVE ResumeInv'
  OBVIOUS
<1>1. CASE UNCHANGED vars
  BY <1>1 DEF vars, ResumeInv, TypeOK, OneSuccessor, LockHolders, LaunchOnce, Started, Unstarted,
              ResultIsLast, BoundaryKept, LedgerTrue
<1>2. CASE Next
  <2>1. /\ ClaimOK /\ CallsOK /\ ChildOK /\ SaysOK /\ OthersOK
        /\ LockHolders /\ Launcher /\ Core
    BY InvParts
  <2>2. Launches
    BY <2>1 DEF Core
  <2>3. ClaimOK' /\ CallsOK' /\ LockHolders'
    BY <1>2, <2>1, <2>2, ClaimStep, LockHoldersStep
  <2>4. ChildOK' /\ SaysOK' /\ OthersOK'
    BY <1>2, <2>1, OthersStep
  <2>5. Launcher' /\ Core'
    BY <1>2, <2>1, LauncherStep, CoreStep
  <2> QED BY <2>3, <2>4, <2>5, InvPartsNext
<1> QED BY <1>1, <1>2

\* One successor for one source job (JobResume!ResumeInv), however many callers
\* of `jobs resume' race, die and come back (reserve_request, spawn_background).
THEOREM ResumeInvariance == Spec => []ResumeInv
<1>1. Init => ResumeInv
  BY ResumeInit
<1>2. ResumeInv /\ [Next]_vars => ResumeInv'
  BY ResumeStep
<1> QED BY <1>1, <1>2, PTL DEF Spec

-----------------------------------------------------------------------------
(* What follows from the invariant. *)

LEMMA SealedStays ==
  ASSUME ResumeInv, Next, claim # None, claim.parent = "terminal"
  PROVE  claim' = claim
<1>0. /\ ClaimOK /\ CallsOK /\ ChildOK /\ LockHolders /\ Launcher /\ Core
      /\ "terminal" \notin MayHaveRun
  BY InvParts DEF MayHaveRun
<1>1. ASSUME NEW c \in Caller, CallerStep(c) \/ CallerDies(c) PROVE claim' = claim
  <2>1. ~Popen(c) /\ ~PopenAmbiguous(c)
    BY <1>0 DEF Launcher, Popen, PopenAmbiguous
  <2>2. CallerMove
    BY <1>0, <1>1, <2>1, CallerMoves
  <2> QED BY <1>0, <2>2 DEF CallerMove, Fresh, Prepared, LaunchClaimed, Settled, NeverRan, Sealed, Sealable
<1>2. ASSUME NEW s \in Child, ChildStep(s) \/ ChildDies(s) PROVE claim' = claim
  <2>1. child[s] \in Last
    BY <1>0, <1>2, ChildStarted, TheOnlyChild
  <2>2. Seal(s) \/ RecordFailure(s) \/ ChildDies(s)
    <3>1. ~ (\/ ClaimGate(s) \/ LaunchGate(s) \/ GateAnswers(s) \/ MarkGate(s) \/ Refuses(s)
             \/ ClaimProvider(s) \/ LaunchFails(s) \/ LaunchAmbiguous(s))
      BY <2>1 DEF ClaimGate, LaunchGate, GateAnswers, MarkGate, Refuses, ClaimProvider,
                  LaunchFails, LaunchAmbiguous, Moves, Ends, AtBoundary, Last
    <3>2. ~ (StartProvider(s) \/ Register(s) \/ RegistrationFails(s) \/ ProviderEnds(s) \/ Publish(s))
      BY <2>1 DEF StartProvider, Register, RegistrationFails, ProviderEnds, Publish, Moves, Ends, Last
    <3> QED BY <1>2, <3>1, <3>2 DEF ChildStep
  <2> QED BY <1>0, <2>2 DEF Seal, Sealable, RecordFailure, ChildDies
<1> QED BY <1>1, <1>2 DEF Next

\* What a sealed claim says stands (JobResume!SealedForGood,
\* _mark_terminal_identified).
THEOREM SealStands == Spec => SealedForGood
<1>1. ResumeInv /\ [Next]_vars =>
        [(claim # None /\ claim.parent = "terminal") => claim' = claim]_vars
  BY SealedStays
<1> QED BY <1>1, ResumeInvariance, PTL DEF Spec, SealedForGood

-----------------------------------------------------------------------------
(* The continuation implements SingleUse. *)

Told == IF claim = None \/ claim.contacted = "unknown" THEN "unknown"
        ELSE IF claim.contacted = "yes" THEN "spent" ELSE "unspent"

OnceStep == \/ runs' = runs /\ Told' = Told
            \/ /\ runs = 0 /\ Told = "unknown" /\ runs' = 1 /\ Told' = Told
            \/ /\ Told = "unknown" /\ runs' = runs
               /\ Told' = IF runs = 1 THEN "spent" ELSE "unspent"
            \/ Told = "unspent" /\ Told' = "unknown" /\ runs' = runs

\* The steps that only change what the ledger says, and those that do not.
LEMMA SameTold ==
  ASSUME claim # None, claim' # None, claim'.contacted = claim.contacted
  PROVE  Told' = Told
  BY DEF Told

LEMMA SealTold ==
  ASSUME Core, Sealed, runs' = runs, claim # None, claim' # None
  PROVE  OnceStep
<1>1. LedgerTrue
  BY DEF Core
<1>2. CASE claim.provider = "indeterminate"
  BY <1>1, <1>2, SealedFields DEF LedgerTrue, OnceStep, Told
<1>3. CASE claim.provider # "indeterminate" /\ result = "contact"
  BY <1>1, <1>3, SealedFields DEF LedgerTrue, OnceStep, Told
<1>4. CASE claim.provider = "pending" /\ result = "no_contact"
  <2>1. claim.contacted = "unknown" /\ runs = 0 /\ claim'.contacted = "no"
    BY <1>1, <1>4, SealedFields DEF LedgerTrue, MayHaveRun
  <2> QED BY <2>1 DEF OnceStep, Told
<1>5. CASE claim.provider = "spawn_failed" /\ result = "no_contact"
  BY <1>1, <1>5, SealedFields DEF LedgerTrue, OnceStep, Told
<1> QED BY <1>2, <1>3, <1>4, <1>5, SealedFields

LEMMA CallerTold ==
  ASSUME ClaimOK, CallsOK, ChildOK, LockHolders, Launcher, Core, Next, NEW c \in Caller,
         CallerStep(c) \/ CallerDies(c)
  PROVE  OnceStep
<1>0. (claim # None => claim' # None) /\ ClaimOK'
  BY ClaimStep DEF Core
<1>1. CASE Popen(c) \/ PopenAmbiguous(c)
  <2>1. claim # None /\ claim \in Claim /\ claim.parent = "child_launch_claimed"
    BY <1>1 DEF Popen, PopenAmbiguous, LockHolders, ClaimOK, Launcher
  <2>2. runs' = runs /\ (claim' = claim \/ Settled)
    BY <1>1, <2>1 DEF Popen, PopenAmbiguous, Swapped, Settled, MayHaveRun
  <2> QED BY <1>0, <2>1, <2>2, MovedFields, SameTold DEF OnceStep
<1>2. CASE ~Popen(c) /\ ~PopenAmbiguous(c)
  <2>1. Still /\ CallerMove
    BY <1>2, CallerMoves
  <2>2. runs' = runs
    BY <2>1 DEF Still
  <2>3. CASE claim' = claim
    BY <2>2, <2>3 DEF OnceStep, Told
  <2>4. CASE Fresh
    <3>1. claim = None /\ claim'.contacted = "unknown"
      BY <2>4 DEF Fresh
    <3> QED BY <2>2, <3>1 DEF OnceStep, Told
  <2>5. CASE Prepared \/ Settled
    <3>1. claim # None
      BY <2>5, ClaimAssumption DEF Prepared, Settled
    <3> QED BY <1>0, <2>2, <2>5, <3>1, MovedFields, SameTold DEF OnceStep
  <2>6. CASE LaunchClaimed
    <3>1. claim # None /\ claim'.contacted = "unknown"
      BY <2>6, ClaimAssumption, MovedFields DEF LaunchClaimed
    <3>2. \A s \in Child : ~Started(s)
      BY <2>6 DEF LaunchClaimed, Core, Launches, MayHaveRun
    <3>3. claim.contacted \in {"unknown", "no"}
      BY <3>1, <3>2 DEF Core, Launches, Unstarted, LedgerTrue
    <3> QED BY <1>0, <2>2, <3>1, <3>3 DEF OnceStep, Told
  <2>7. CASE NeverRan
    <3>1. claim # None /\ claim'.contacted = "no"
      BY <2>7, ClaimAssumption, MovedFields DEF NeverRan
    <3>2. claim.contacted = "unknown" /\ runs = 0
      BY <2>7, <3>1 DEF NeverRan, Core, Launches, Unstarted
    <3> QED BY <1>0, <2>2, <3>1, <3>2 DEF OnceStep, Told
  <2>8. CASE Sealed
    <3>1. claim # None
      BY <2>8, ClaimAssumption DEF Sealed
    <3> QED BY <1>0, <2>2, <2>8, <3>1, SealTold
  <2> QED BY <2>1, <2>3, <2>4, <2>5, <2>6, <2>7, <2>8 DEF CallerMove
<1> QED BY <1>1, <1>2

LEMMA ChildTold ==
  ASSUME ClaimOK, ChildOK, Core, claim' # None, NEW s \in Child,
         ChildStep(s) \/ ChildDies(s)
  PROVE  OnceStep
<1>0. /\ claim # None /\ claim \in Claim /\ Fits(child[s], claim.provider, runs)
      /\ result # "none" => child[s] \in Last
  BY ChildStarted, TheOnlyChild
<1>1. LedgerTrue
  BY DEF Core
<1>2. CASE ClaimGate(s) \/ LaunchGate(s) \/ GateAnswers(s) \/ MarkGate(s) \/ Refuses(s)
  BY <1>0, <1>2, GateMoves, SameTold DEF OnceStep
<1>3. CASE ClaimProvider(s)
  <2>1. claim' \in {claim, [claim EXCEPT !.provider = "launch_claimed"],
                    [claim EXCEPT !.provider = "indeterminate"]}
    BY <1>0, <1>3, UnlessFacts DEF ClaimProvider
  <2>2. claim'.contacted = claim.contacted
    BY <1>0, <2>1 DEF Claim
  <2>3. runs' = runs
    BY <1>3 DEF ClaimProvider
  <2> QED BY <1>0, <2>2, <2>3, SameTold DEF OnceStep
<1>4. CASE LaunchFails(s)
  <2>1. claim.provider = "launch_claimed" /\ runs = 0 /\ runs' = runs /\ claim.contacted = "unknown"
    BY <1>0, <1>1, <1>4 DEF LaunchFails, Ends, Moves, Fits, LedgerTrue
  <2>2. claim' = claim \/ claim' = [claim EXCEPT !.provider = "spawn_failed", !.contacted = "no"]
    BY <1>4 DEF LaunchFails
  <2>3. claim' = claim \/ claim'.contacted = "no"
    BY <1>0, <2>2 DEF Claim
  <2> QED BY <1>0, <2>1, <2>3 DEF OnceStep, Told
<1>5. CASE LaunchAmbiguous(s)
  <2>1. claim.contacted = "unknown" /\ runs = 0 /\ runs' \in {0, 1}
    BY <1>0, <1>1, <1>5 DEF LaunchAmbiguous, Ends, Moves, Fits, LedgerTrue
  <2>2. claim' = claim \/ claim' = [claim EXCEPT !.provider = "indeterminate"]
    BY <1>0, <1>5, UnlessFacts DEF LaunchAmbiguous
  <2>3. claim'.contacted = claim.contacted
    BY <1>0, <2>2 DEF Claim
  <2> QED BY <1>0, <2>1, <2>3, SameTold DEF OnceStep, Told
<1>6. CASE StartProvider(s)
  <2>1. claim.contacted = "unknown" /\ runs = 0 /\ runs' = 1 /\ claim' = claim
    BY <1>0, <1>1, <1>6 DEF StartProvider, Moves, Fits, LedgerTrue
  <2> QED BY <2>1 DEF OnceStep, Told
<1>7. CASE Register(s)
  <2>1. /\ claim.contacted = "unknown" /\ runs = 1 /\ runs' = runs
        /\ claim' = [claim EXCEPT !.provider = "spawned", !.contacted = "yes"]
    BY <1>0, <1>1, <1>7 DEF Register, Moves, Fits, LedgerTrue
  <2>2. claim'.contacted = "yes"
    BY <1>0, <2>1 DEF Claim
  <2> QED BY <1>0, <2>1, <2>2 DEF OnceStep, Told
<1>8. CASE RegistrationFails(s) \/ ProviderEnds(s)
  <2>1. runs' = runs
    BY <1>8 DEF RegistrationFails, ProviderEnds
  <2>2. claim' \in {claim, [claim EXCEPT !.provider = "indeterminate"],
                    [claim EXCEPT !.provider = IF claim.provider = "spawned" THEN "reaped"
                                               ELSE claim.provider]}
    BY <1>0, <1>8, UnlessFacts DEF RegistrationFails, ProviderEnds
  <2>3. claim'.contacted = claim.contacted
    BY <1>0, <2>2 DEF Claim
  <2> QED BY <1>0, <2>1, <2>3, SameTold DEF OnceStep
<1>9. CASE Publish(s) \/ ChildDies(s)
  BY <1>9 DEF Publish, ChildDies, OnceStep, Told
<1>10. CASE Seal(s)
  <2>1. runs' = runs /\ (claim' = claim \/ Sealed)
    BY <1>0, <1>10 DEF Seal, Sealed
  <2>2. CASE claim' = claim
    BY <2>1, <2>2 DEF OnceStep, Told
  <2> QED BY <1>0, <2>1, <2>2, SealTold
<1>11. CASE RecordFailure(s)
  <2>1. claim' \in {claim, [claim EXCEPT !.parent = "indeterminate"]} /\ runs' = runs
    BY <1>11 DEF RecordFailure
  <2>2. claim'.contacted = claim.contacted
    BY <1>0, <2>1 DEF Claim
  <2> QED BY <1>0, <2>1, <2>2, SameTold DEF OnceStep
<1> QED BY <1>2, <1>3, <1>4, <1>5, <1>6, <1>7, <1>8, <1>9, <1>10, <1>11 DEF ChildStep

LEMMA OnceInit == Init => Once!Init
  BY DEF Init, Once!Init

LEMMA OnceNext == ResumeInv /\ [Next]_vars => [Once!Next]_<<runs, Told>>
<1> SUFFICES ASSUME ResumeInv, [Next]_vars PROVE OnceStep
  BY DEF OnceStep, Told, Once!Next, Once!Use, Once!Report, Once!Reopen
<1>1. CASE UNCHANGED vars
  BY <1>1 DEF vars, OnceStep, Told
<1>2. CASE Next
  <2>1. /\ ClaimOK /\ CallsOK /\ ChildOK /\ SaysOK /\ OthersOK
        /\ LockHolders /\ Launcher /\ Core
    BY InvParts
  <2>2. ASSUME NEW c \in Caller, CallerStep(c) \/ CallerDies(c) PROVE OnceStep
    BY <1>2, <2>1, <2>2, CallerTold
  <2>3. ASSUME NEW s \in Child, ChildStep(s) \/ ChildDies(s) PROVE OnceStep
    <3>1. claim' # None
      BY <1>2, <2>1, <2>3, ChildStarted, TheOnlyChild, ClaimStep DEF Core
    <3> QED BY <2>1, <2>3, <3>1, ChildTold
  <2> QED BY <1>2, <2>2, <2>3 DEF Next
<1> QED BY <1>1, <1>2

\* The session handle of the source is used for one provider run, and what the
\* ledger says of that run is true or openly unknown: the continuation
\* implements SingleUse (JobResume!HandleUsedOnce).
THEOREM ContinuationIsSingleUse == Spec => HandleUsedOnce
<1>1. ResumeInv /\ [Next]_vars => [Once!Next]_<<runs, Told>>
  BY OnceNext
<1> QED BY <1>1, OnceInit, ResumeInvariance, PTL DEF Spec, HandleUsedOnce, Once!Spec, Told
=============================================================================

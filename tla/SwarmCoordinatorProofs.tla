------------------------ MODULE SwarmCoordinatorProofs ------------------------
(***************************************************************************)
(* Proofs about SwarmCoordinator, and SwarmFrames on top of it, for any     *)
(* tasks, workers, messages, bounds and clock.                             *)
(*                                                                         *)
(* The argument: the steps that matter move the variables that relate     *)
(* tasks and claims in one of four ways (a grant, the end of a claim, a    *)
(* block, a pardon); each way preserves the part of the invariant about    *)
(* those variables, and every other step leaves them alone.  Frames take   *)
(* only steps of the coordinator; a recorded frame was in effect when it    *)
(* was recorded, and no step takes back what it did.                       *)
(***************************************************************************)
EXTENDS SwarmFrames, FiniteSetTheorems, TLAPS

\* The part of Inv that relates tasks and claims, and the variables it reads.
Structure ==
    /\ IssuedInOrder
    /\ OneActiveAttempt
    /\ OutcomeExplained
    /\ RetryIsPending
    /\ DependenciesHold
    /\ NoSilentRespend

structureVars == <<attempts, terminal, retryAuthorized, claimStatus, authorized>>

-----------------------------------------------------------------------------
(* Facts about the operators. *)

\* A claim is its task and its attempt number.
LEMMA ClaimPairs ==
    /\ \A c \in ClaimIds : /\ TaskOf(c) \in Tasks
                           /\ AttemptOf(c) \in Attempts
                           /\ c = <<TaskOf(c), AttemptOf(c)>>
    /\ \A t \in Tasks, n \in Attempts : /\ <<t, n>> \in ClaimIds
                                        /\ TaskOf(<<t, n>>) = t
                                        /\ AttemptOf(<<t, n>>) = n
  BY DEF ClaimIds, TaskOf, AttemptOf

\* The latest claim of a task that was attempted is one of its claims.
LEMMA LatestClaim ==
    ASSUME TypeOK, NEW t \in Tasks, attempts[t] > 0
    PROVE  /\ Latest(t) \in ClaimIds
           /\ TaskOf(Latest(t)) = t
           /\ AttemptOf(Latest(t)) = attempts[t]
  <1>1. attempts[t] \in 1..MaxAttempts
    BY BoundsAssumption DEF TypeOK
  <1> QED
    BY <1>1, ClaimPairs DEF Latest, Attempts

\* No step that leaves the structure variables alone disturbs the structure.
LEMMA StructureFrame ==
    ASSUME Structure, UNCHANGED structureVars
    PROVE  Structure'
  BY DEF Structure, structureVars, IssuedInOrder, OneActiveAttempt,
         OutcomeExplained, RetryIsPending, DependenciesHold, NoSilentRespend, Issued, Latest,
         DependenciesComplete

-----------------------------------------------------------------------------
(* The four ways the structure moves. *)

\* A grant: the new claim is the latest of its task, every earlier one is ended,
\* and a doubtful one was pardoned.
LEMMA GrantStructure ==
    ASSUME TypeOK, Structure, NEW t \in Tasks, NEW n \in Attempts,
           n = attempts[t] + 1,
           DependenciesComplete(t), NoActiveAttempt(t), RetryAllowed(t),
           attempts' = [attempts EXCEPT ![t] = n],
           retryAuthorized' = [retryAuthorized EXCEPT ![t] = FALSE],
           claimStatus' = [claimStatus EXCEPT ![<<t, n>>] = "active"],
           UNCHANGED <<terminal, authorized>>
    PROVE  Structure'
  <1> DEFINE c0 == <<t, n>>
  <1>0. c0 \in ClaimIds /\ TaskOf(c0) = t /\ AttemptOf(c0) = n
    BY ClaimPairs
  <1>a. attempts \in [Tasks -> 0..MaxAttempts] /\ claimStatus \in [ClaimIds -> ClaimStatuses]
    BY DEF TypeOK
  <1>b. attempts[t] \in Int /\ attempts'[t] = n /\ \A u \in Tasks : u # t => attempts'[u] = attempts[u]
    BY <1>a, BoundsAssumption
  <1>c. claimStatus'[c0] = "active" /\ \A c \in ClaimIds : c # c0 => claimStatus'[c] = claimStatus[c]
    BY <1>a, <1>0
  <1>d. \A c \in ClaimIds : /\ TaskOf(c) \in Tasks /\ AttemptOf(c) \in Int
                            /\ c = <<TaskOf(c), AttemptOf(c)>>
    BY ClaimPairs DEF Attempts
  <1>1. IssuedInOrder'
    <2> SUFFICES ASSUME NEW c \in ClaimIds
                 PROVE  (claimStatus'[c] = "unissued" <=> ~(AttemptOf(c) <= attempts'[TaskOf(c)]))
      BY DEF IssuedInOrder, Issued
    <2>1. CASE c = c0
      BY <2>1, <1>0, <1>b, <1>c DEF Attempts
    <2>2. CASE c # c0
      <3>1. claimStatus[c] = "unissued" <=> ~(AttemptOf(c) <= attempts[TaskOf(c)])
        BY DEF Structure, IssuedInOrder, Issued
      <3>2. TaskOf(c) = t => AttemptOf(c) # n
        BY <1>d, <2>2
      <3> QED
        BY <2>2, <3>1, <3>2, <1>b, <1>c, <1>d
    <2> QED
      BY <2>1, <2>2
  <1>2. OneActiveAttempt'
    <2> SUFFICES ASSUME NEW c \in ClaimIds, claimStatus'[c] = "active", c # c0
                 PROVE  c = <<TaskOf(c), attempts'[TaskOf(c)]>>
      BY <1>0, <1>b DEF OneActiveAttempt, Latest
    <2>1. claimStatus[c] = "active" /\ c = <<TaskOf(c), attempts[TaskOf(c)]>>
      BY <1>c DEF Structure, OneActiveAttempt, Latest
    <2>2. TaskOf(c) # t
      <3> SUFFICES ASSUME TaskOf(c) = t PROVE FALSE
        OBVIOUS
      <3>1. AttemptOf(c) \in 1..attempts[t]
        BY <2>1, <1>d, <1>b, ClaimPairs DEF Attempts, AttemptOf
      <3> QED
        BY <3>1, <2>1, <1>d DEF NoActiveAttempt
    <2> QED
      BY <2>1, <2>2, <1>b, <1>d
  <1>3. OutcomeExplained'
    <2> SUFFICES ASSUME NEW u \in Tasks
                 PROVE  /\ attempts'[u] = 0 => terminal[u] = "none"
                        /\ attempts'[u] > 0 =>
                             LET s == claimStatus'[<<u, attempts'[u]>>] IN
                             \/ terminal[u] = s
                             \/ terminal[u] = "failed" /\ s = "active"
                             \/ terminal[u] = "none" /\ s \in {"active", "released"}
                             \/ /\ terminal[u] = "none"
                                /\ s \in {"indeterminate", "blocked"}
                                /\ retryAuthorized'[u]
      BY DEF OutcomeExplained, Latest
    <2>1. CASE u = t
      <3>1. terminal[t] \in {"none", "failed"}
        <4>1. attempts[t] = 0 \/ attempts[t] > 0
          BY <1>a, BoundsAssumption
        <4>2. CASE attempts[t] = 0
          BY <4>2 DEF Structure, OutcomeExplained
        <4>3. CASE attempts[t] > 0
          <5>1. claimStatus[Latest(t)] # "active"
            BY <4>3, <1>b DEF NoActiveAttempt, Latest
          <5>2. ~(terminal[t] = "indeterminate")
            BY DEF RetryAllowed, Structure, RetryIsPending
          <5>3. terminal[t] \in TaskTerminals
            BY DEF TypeOK
          <5> QED
            BY <5>1, <5>2, <5>3 DEF RetryAllowed, TaskTerminals
        <4> QED
          BY <4>1, <4>2, <4>3
      <3> QED
        BY <3>1, <2>1, <1>b, <1>c DEF Attempts
    <2>2. CASE u # t
      <3>1. attempts[u] > 0 => <<u, attempts[u]>> \in ClaimIds /\ <<u, attempts[u]>> # c0
        BY <2>2, LatestClaim DEF Latest
      <3> QED
        BY <3>1, <2>2, <1>b, <1>c DEF Structure, OutcomeExplained, Latest, TypeOK
    <2> QED
      BY <2>1, <2>2
  <1>4. RetryIsPending'
    <2> SUFFICES ASSUME NEW u \in Tasks, retryAuthorized'[u]
                 PROVE  /\ attempts'[u] > 0 /\ terminal[u] = "none"
                        /\ claimStatus'[<<u, attempts'[u]>>] \in {"indeterminate", "blocked"}
                        /\ <<u, attempts'[u]>> \in authorized
      BY DEF RetryIsPending, Latest
    <2>1. u # t /\ retryAuthorized[u]
      BY DEF TypeOK
    <2>2. <<u, attempts[u]>> \in ClaimIds /\ <<u, attempts[u]>> # c0
      BY <2>1, LatestClaim DEF Latest, Structure, RetryIsPending
    <2> QED
      BY <2>1, <2>2, <1>b, <1>c DEF Structure, RetryIsPending, Latest
  <1>5. DependenciesHold'
    <2> SUFFICES ASSUME NEW u \in Tasks, attempts'[u] > 0
                 PROVE  \A d \in DependsOn[u] : terminal[d] = "completed"
      BY DEF DependenciesHold, DependenciesComplete
    <2> QED
      BY <1>b DEF Structure, DependenciesHold, DependenciesComplete
  <1>6. NoSilentRespend'
    <2> SUFFICES ASSUME NEW c \in ClaimIds, AttemptOf(c) < attempts'[TaskOf(c)]
                 PROVE  claimStatus'[c] \in {"released", "failed"} \/ c \in authorized
      BY DEF NoSilentRespend
    <2>1. c # c0
      BY <1>0, <1>b DEF Attempts
    <2>2. CASE AttemptOf(c) < attempts[TaskOf(c)]
      BY <2>1, <2>2, <1>c DEF Structure, NoSilentRespend
    <2>3. CASE ~(AttemptOf(c) < attempts[TaskOf(c)])
      <3>1. TaskOf(c) = t /\ AttemptOf(c) = attempts[t]
        BY <2>3, <1>b, <1>d
      <3>2. c = Latest(t) /\ attempts[t] > 0
        BY <3>1, <1>d, ClaimPairs DEF Latest, Attempts
      <3>3. claimStatus[c] # "active"
        BY <3>1, <3>2, <1>b DEF NoActiveAttempt, Latest
      <3>4. claimStatus[c] # "unissued"
        BY <3>1, <1>b DEF Structure, IssuedInOrder, Issued
      <3>5. terminal[t] \in {"none", "failed"}
        BY <3>2, <3>3, <1>a DEF RetryAllowed, Structure, RetryIsPending, TypeOK, TaskTerminals
      <3>6. \/ terminal[t] = claimStatus[c]
            \/ claimStatus[c] = "released"
            \/ c \in authorized
        BY <3>2, <3>3 DEF Structure, OutcomeExplained, RetryIsPending
      <3>7. claimStatus[c] \in ClaimStatuses
        BY <1>a
      <3> QED
        BY <2>1, <3>4, <3>5, <3>6, <3>7, <1>c DEF ClaimStatuses
    <2> QED
      BY <2>2, <2>3
  <1> QED
    BY <1>1, <1>2, <1>3, <1>4, <1>5, <1>6 DEF Structure

\* A change of the latest claim of one task, and of that task's outcome: the
\* end of a claim, a block or a pardon.  The rest of the structure stays.
LEMMA LatestStructure ==
    ASSUME TypeOK, Structure, NEW t \in Tasks, attempts[t] > 0,
           UNCHANGED attempts,
           \A u \in Tasks : u # t => terminal'[u] = terminal[u]
                                     /\ retryAuthorized'[u] = retryAuthorized[u],
           \A c \in ClaimIds : c # Latest(t) => claimStatus'[c] = claimStatus[c],
           authorized \subseteq authorized',
           claimStatus'[Latest(t)] \notin {"unissued", "active"},
           terminal[t] # "completed",
           \/ terminal'[t] = claimStatus'[Latest(t)]
           \/ terminal'[t] = "none" /\ claimStatus'[Latest(t)] = "released"
           \/ /\ terminal'[t] = "none"
              /\ claimStatus'[Latest(t)] \in {"indeterminate", "blocked"}
              /\ retryAuthorized'[t],
           retryAuthorized'[t] =>
              /\ terminal'[t] = "none"
              /\ claimStatus'[Latest(t)] \in {"indeterminate", "blocked"}
              /\ Latest(t) \in authorized'
    PROVE  Structure'
  <1>1. /\ Latest(t) \in ClaimIds
        /\ TaskOf(Latest(t)) = t
        /\ AttemptOf(Latest(t)) = attempts[t]
    BY LatestClaim
  <1>2. \A u \in Tasks : Latest(u)' = Latest(u) /\ (u # t => Latest(u) # Latest(t))
    BY DEF Latest
  <1>3. \A u \in Tasks : attempts[u] > 0 => Latest(u) \in ClaimIds
    BY LatestClaim
  <1>4. IssuedInOrder'
    <2> SUFFICES ASSUME NEW c \in ClaimIds
                 PROVE  claimStatus'[c] = "unissued" <=> ~(AttemptOf(c) <= attempts[TaskOf(c)])
      BY DEF IssuedInOrder, Issued
    <2>1. CASE c = Latest(t)
      BY <2>1, <1>1 DEF TypeOK
    <2>2. CASE c # Latest(t)
      BY <2>2 DEF Structure, IssuedInOrder, Issued
    <2> QED
      BY <2>1, <2>2
  <1>5. OneActiveAttempt'
    BY <1>2, ClaimPairs DEF Structure, OneActiveAttempt
  <1>6. OutcomeExplained'
    <2> SUFFICES ASSUME NEW u \in Tasks
                 PROVE  /\ attempts[u] = 0 => terminal'[u] = "none"
                        /\ attempts[u] > 0 =>
                             LET s == claimStatus'[Latest(u)] IN
                             \/ terminal'[u] = s
                             \/ terminal'[u] = "failed" /\ s = "active"
                             \/ terminal'[u] = "none" /\ s \in {"active", "released"}
                             \/ /\ terminal'[u] = "none"
                                /\ s \in {"indeterminate", "blocked"}
                                /\ retryAuthorized'[u]
      BY <1>2 DEF OutcomeExplained
    <2>1. CASE u = t
      BY <2>1 DEF TypeOK
    <2>2. CASE u # t
      BY <2>2, <1>2, <1>3 DEF Structure, OutcomeExplained
    <2> QED
      BY <2>1, <2>2
  <1>7. RetryIsPending'
    <2> SUFFICES ASSUME NEW u \in Tasks, retryAuthorized'[u]
                 PROVE  /\ attempts[u] > 0 /\ terminal'[u] = "none"
                        /\ claimStatus'[Latest(u)] \in {"indeterminate", "blocked"}
                        /\ Latest(u) \in authorized'
      BY <1>2 DEF RetryIsPending
    <2>1. CASE u = t
      BY <2>1
    <2>2. CASE u # t
      BY <2>2, <1>2, <1>3 DEF Structure, RetryIsPending
    <2> QED
      BY <2>1, <2>2
  <1>8. DependenciesHold'
    <2> SUFFICES ASSUME NEW u \in Tasks, attempts[u] > 0, NEW d \in DependsOn[u]
                 PROVE  terminal'[d] = "completed"
      BY DEF DependenciesHold, DependenciesComplete
    <2>1. terminal[d] = "completed" /\ d \in Tasks
      BY TasksAssumption DEF Structure, DependenciesHold, DependenciesComplete
    <2> QED
      BY <2>1
  <1>9. NoSilentRespend'
    <2> SUFFICES ASSUME NEW c \in ClaimIds, AttemptOf(c) < attempts[TaskOf(c)]
                 PROVE  claimStatus'[c] \in {"released", "failed"} \/ c \in authorized'
      BY DEF NoSilentRespend
    <2>1. c # Latest(t)
      BY <1>1 DEF TypeOK
    <2> QED
      BY <2>1 DEF Structure, NoSilentRespend
  <1> QED
    BY <1>4, <1>5, <1>6, <1>7, <1>8, <1>9 DEF Structure

\* The end of an active claim that is the latest of a task without an outcome.
LEMMA EndClaimStructure ==
    ASSUME TypeOK, Structure, NEW c \in ClaimIds,
           NEW s \in ClaimStatuses \ {"unissued", "active"},
           claimStatus[c] = "active", Terminable(c), EndClaim(c, s),
           UNCHANGED <<retryAuthorized, authorized>>
    PROVE  Structure'
  <1> DEFINE t == TaskOf(c)
  <1>1. t \in Tasks /\ c = Latest(t) /\ terminal[t] = "none"
    BY ClaimPairs DEF Terminable
  <1>2. attempts[t] > 0
    <2>1. AttemptOf(c) \in 1..MaxAttempts /\ AttemptOf(c) = attempts[t]
      BY <1>1, ClaimPairs DEF Latest, Attempts, AttemptOf
    <2> QED
      BY <2>1, BoundsAssumption
  <1>3. ~retryAuthorized[t]
    BY <1>1 DEF Structure, RetryIsPending
  <1>4. /\ claimStatus'[c] = s
        /\ \A d \in ClaimIds : d # c => claimStatus'[d] = claimStatus[d]
        /\ UNCHANGED attempts
    BY DEF EndClaim, TypeOK
  <1>5. /\ terminal'[t] = IF s = "released" THEN "none" ELSE s
        /\ \A u \in Tasks : u # t => terminal'[u] = terminal[u]
    BY <1>1 DEF EndClaim, TypeOK
  <1> QED
    BY <1>1, <1>2, <1>3, <1>4, <1>5, LatestStructure

\* Blocking the latest claim of a task that has no final outcome.
LEMMA BlockStructure ==
    ASSUME TypeOK, Structure, NEW t \in Tasks, attempts[t] > 0, BlockTask(t),
           ~retryAuthorized[t]
    PROVE  Structure'
  <1>1. Latest(t) \in ClaimIds /\ TaskOf(Latest(t)) = t
    BY LatestClaim
  <1>2. /\ claimStatus' = [claimStatus EXCEPT ![Latest(t)] = "blocked"]
        /\ terminal' = [terminal EXCEPT ![t] = "blocked"]
        /\ UNCHANGED <<attempts, retryAuthorized, authorized>>
        /\ terminal[t] # "completed"
    BY <1>1 DEF BlockTask, EndClaim
  <1>3. /\ claimStatus'[Latest(t)] = "blocked"
        /\ \A c \in ClaimIds : c # Latest(t) => claimStatus'[c] = claimStatus[c]
        /\ terminal'[t] = "blocked"
        /\ \A u \in Tasks : u # t => terminal'[u] = terminal[u]
    BY <1>1, <1>2 DEF TypeOK
  <1> QED
    BY <1>2, <1>3, LatestStructure

\* Authorising the retry of the latest claim of a task.
LEMMA PardonStructure ==
    ASSUME TypeOK, Structure, NEW t \in Tasks, attempts[t] > 0, AuthorizeRetry(t)
    PROVE  Structure'
  <1>1. /\ claimStatus' = claimStatus /\ attempts' = attempts
        /\ claimStatus[Latest(t)] \in {"indeterminate", "blocked"}
        /\ terminal[t] # "completed"
        /\ authorized' = authorized \cup {Latest(t)}
    BY DEF AuthorizeRetry, claimVars
  <1>2. /\ terminal'[t] = "none" /\ retryAuthorized'[t]
        /\ \A u \in Tasks : u # t => terminal'[u] = terminal[u]
                                     /\ retryAuthorized'[u] = retryAuthorized[u]
    BY DEF AuthorizeRetry, TypeOK
  <1> QED
    BY <1>1, <1>2, LatestStructure

-----------------------------------------------------------------------------
(* The steps, one case per action. *)

\* A claim is granted, with or without a workspace delivery.
Grants(t, n) ==
    /\ \E w \in Workers, g \in Attempts, e \in Expiries : GrantClaim(w, t, n, g, e)
    /\ UNCHANGED delivery \/ delivery' = [delivery EXCEPT ![<<t, n>>] = "open"]

\* A worker ends its claim in state s.
Ends(c, s) ==
    /\ \E w \in Workers, g \in Attempts : WorkerEndsClaim(w, c, g, s)
    /\ s = "completed" => ~cancelRequested[c]
    /\ s = "cancelled" => cancelRequested[c]

ClaimEndings == ClaimStatuses \ {"unissued", "active"}

\* The ways a step can happen.
LEMMA StepCases ==
    ASSUME [Next]_vars
    PROVE  \/ UNCHANGED vars
           \/ \E w \in Workers : RegisterWorker(w)
           \/ \E t \in Tasks, n \in Attempts : Grants(t, n)
           \/ \E w \in Workers, c \in ClaimIds, g \in Attempts, e \in Expiries :
                 Renew(w, c, g, e)
           \/ \E w \in Workers, c \in ClaimIds, g \in Attempts, a \in Artifacts :
                 PublishArtifact(w, c, g, a)
           \/ \E c \in ClaimIds, s \in ClaimEndings : Ends(c, s)
           \/ \E w \in Workers, c \in ClaimIds, g \in Attempts : CancelAck(w, c, g)
           \/ \E c \in ClaimIds, g \in Attempts : CancelRequest(c, g)
           \/ \E t \in Tasks, r \in BOOLEAN : Acknowledge(t, r)
           \/ \E t \in Tasks : BeginRecovery(t)
           \/ \E t \in Tasks, r \in BOOLEAN : FinishRecovery(t, r)
           \/ InterruptRecovery
           \/ \E c \in ClaimIds, d \in DeliveryStates : AdvanceDelivery(c, d)
           \/ Close
           \/ \E m \in Clock : SetClock(m)
  <1>1. ASSUME NEW t \in Tasks, StartAttempt(t)
        PROVE  \E n \in Attempts : Grants(t, n)
    BY <1>1 DEF StartAttempt, Claim, AdmitClaim, Grants
  <1>2. ASSUME NEW c \in ClaimIds, WorkerFrame(c)
        PROVE  \/ \E w \in Workers, g \in Attempts, e \in Expiries : Renew(w, c, g, e)
               \/ \E w \in Workers, g \in Attempts, a \in Artifacts : PublishArtifact(w, c, g, a)
               \/ \E s \in ClaimEndings : Ends(c, s)
               \/ \E w \in Workers, g \in Attempts : CancelAck(w, c, g)
    <2>1. PICK w \in Workers, g \in Attempts :
             \/ \E e \in Expiries : Renew(w, c, g, e)
             \/ \E a \in Artifacts : PublishArtifact(w, c, g, a)
             \/ Complete(w, c, g)
             \/ Fail(w, c, g)
             \/ Block(w, c, g)
             \/ Release(w, c, g)
             \/ CancelAck(w, c, g)
             \/ \E s \in {"cancelled", "indeterminate"} : CancelOutcome(w, c, g, s)
      BY <1>2 DEF WorkerFrame
    <2>2. CASE Complete(w, c, g)
      <3>1. Ends(c, "completed")
        BY <2>2 DEF Complete, Completable, Ends
      <3> QED
        BY <3>1 DEF ClaimEndings, ClaimStatuses
    <2>3. CASE Fail(w, c, g)
      <3>1. Ends(c, "failed")
        BY <2>3 DEF Fail, Ends
      <3> QED
        BY <3>1 DEF ClaimEndings, ClaimStatuses
    <2>4. CASE Block(w, c, g)
      <3>1. Ends(c, "blocked")
        BY <2>4 DEF Block, Ends
      <3> QED
        BY <3>1 DEF ClaimEndings, ClaimStatuses
    <2>5. CASE Release(w, c, g)
      <3>1. Ends(c, "released")
        BY <2>5 DEF Release, Ends
      <3> QED
        BY <3>1 DEF ClaimEndings, ClaimStatuses
    <2>6. CASE \E s \in {"cancelled", "indeterminate"} : CancelOutcome(w, c, g, s)
      <3>1. PICK s \in {"cancelled", "indeterminate"} : CancelOutcome(w, c, g, s)
        BY <2>6
      <3>2. Ends(c, s)
        BY <3>1 DEF CancelOutcome, Ends
      <3> QED
        BY <3>2 DEF ClaimEndings, ClaimStatuses
    <2> QED
      BY <2>1, <2>2, <2>3, <2>4, <2>5, <2>6
  <1> QED
    BY <1>1, <1>2 DEF Next, HumanDecision

\* Every step preserves the structure.
LEMMA StructureStep ==
    ASSUME Inv, [Next]_vars
    PROVE  Structure'
  <1> USE DEF structureVars, taskVars, claimVars, humanVars, runVars
  <1>0. TypeOK /\ Structure /\ RecoveryUndecided
    BY DEF Inv, Structure
  <1>1. ASSUME UNCHANGED vars PROVE Structure'
    BY <1>0, <1>1, StructureFrame DEF vars
  <1>2. ASSUME NEW w \in Workers, RegisterWorker(w) PROVE Structure'
    BY <1>0, <1>2, StructureFrame DEF RegisterWorker
  <1>3. ASSUME NEW t \in Tasks, NEW n \in Attempts, Grants(t, n) PROVE Structure'
    <2>1. PICK w \in Workers, g \in Attempts, e \in Expiries : GrantClaim(w, t, n, g, e)
      BY <1>3 DEF Grants
    <2> QED
      BY <1>0, <2>1, GrantStructure DEF GrantClaim, ClaimCommon
  <1>4. ASSUME NEW w \in Workers, NEW c \in ClaimIds, NEW g \in Attempts,
               NEW e \in Expiries, Renew(w, c, g, e) PROVE Structure'
    BY <1>0, <1>4, StructureFrame DEF Renew
  <1>5. ASSUME NEW w \in Workers, NEW c \in ClaimIds, NEW g \in Attempts,
               NEW a \in Artifacts, PublishArtifact(w, c, g, a) PROVE Structure'
    BY <1>0, <1>5, StructureFrame DEF PublishArtifact
  <1>6. ASSUME NEW c \in ClaimIds, NEW s \in ClaimEndings, Ends(c, s) PROVE Structure'
    BY <1>0, <1>6, EndClaimStructure DEF Ends, ClaimEndings, WorkerEndsClaim, ClaimForUpdate
  <1>7. ASSUME NEW w \in Workers, NEW c \in ClaimIds, NEW g \in Attempts,
               CancelAck(w, c, g) PROVE Structure'
    BY <1>0, <1>7, StructureFrame DEF CancelAck
  <1>8. ASSUME NEW c \in ClaimIds, NEW g \in Attempts, CancelRequest(c, g) PROVE Structure'
    BY <1>0, <1>8, StructureFrame DEF CancelRequest
  <1>9. ASSUME NEW t \in Tasks, NEW r \in BOOLEAN, Acknowledge(t, r) PROVE Structure'
    BY <1>0, <1>9, BlockStructure, PardonStructure DEF Acknowledge, Decide, Recoverable
  <1>10. ASSUME NEW t \in Tasks, BeginRecovery(t) PROVE Structure'
    <2>1. Latest(t) \in ClaimIds
      BY <1>0, <1>10, LatestClaim DEF BeginRecovery, Recoverable
    <2> QED
      BY <1>0, <1>10, <2>1, EndClaimStructure DEF BeginRecovery, ClaimStatuses
  <1>11. ASSUME NEW t \in Tasks, NEW r \in BOOLEAN, FinishRecovery(t, r) PROVE Structure'
    <2>1. Latest(t) \in recovering
      BY <1>11 DEF FinishRecovery
    <2>2. Latest(t) \in ClaimIds /\ TaskOf(Latest(t)) = t /\ AttemptOf(Latest(t)) = attempts[t]
      BY <1>0, <2>1 DEF TypeOK, Latest, TaskOf, AttemptOf
    <2>3. attempts[t] > 0 /\ ~retryAuthorized[t]
      BY <1>0, <2>1, <2>2, ClaimPairs DEF RecoveryUndecided, Structure, RetryIsPending, Attempts
    <2> QED
      BY <1>0, <1>11, <2>3, BlockStructure, PardonStructure DEF FinishRecovery, Decide
  <1>12. ASSUME InterruptRecovery PROVE Structure'
    BY <1>0, <1>12, StructureFrame DEF InterruptRecovery
  <1>13. ASSUME NEW c \in ClaimIds, NEW d \in DeliveryStates, AdvanceDelivery(c, d)
         PROVE  Structure'
    BY <1>0, <1>13, StructureFrame DEF AdvanceDelivery
  <1>14. ASSUME Close PROVE Structure'
    BY <1>0, <1>14, StructureFrame DEF Close
  <1>15. ASSUME NEW m \in Clock, SetClock(m) PROVE Structure'
    BY <1>0, <1>15, StructureFrame DEF SetClock
  <1> QED
    BY StepCases, <1>1, <1>2, <1>3, <1>4, <1>5, <1>6, <1>7, <1>8, <1>9, <1>10,
       <1>11, <1>12, <1>13, <1>14, <1>15

\* A human decision keeps the types.
LEMMA DecideType ==
    ASSUME TypeOK, NEW t \in Tasks, NEW r \in BOOLEAN, Latest(t) \in ClaimIds, Decide(t, r)
    PROVE  /\ attempts' \in [Tasks -> 0..MaxAttempts]
           /\ terminal' \in [Tasks -> TaskTerminals]
           /\ retryAuthorized' \in [Tasks -> BOOLEAN]
           /\ uncertainSpend' \in [Tasks -> BOOLEAN]
           /\ claimStatus' \in [ClaimIds -> ClaimStatuses]
           /\ authorized' \subseteq ClaimIds
           /\ UNCHANGED <<leaseVars, cancelVars>>
  <1> USE DEF TypeOK, claimVars, leaseVars, cancelVars
  <1>1. CASE r
    BY <1>1 DEF Decide, AuthorizeRetry, TaskTerminals
  <1>2. CASE ~r
    BY <1>2 DEF Decide, BlockTask, EndClaim, TaskTerminals, ClaimStatuses
  <1> QED
    BY <1>1, <1>2

\* Every step preserves type correctness.
LEMMA TypeStep ==
    ASSUME Inv, [Next]_vars
    PROVE  TypeOK'
  <1> USE DEF taskVars, claimVars, leaseVars, cancelVars, humanVars, runVars
  <1>0. TypeOK
    BY DEF Inv
  <1>1. ASSUME UNCHANGED vars
         PROVE  TypeOK'
    BY <1>0, <1>1 DEF vars, TypeOK
  <1>2. ASSUME NEW w \in Workers, RegisterWorker(w)
         PROVE  TypeOK'
    BY <1>0, <1>2 DEF RegisterWorker, TypeOK
  <1>3. ASSUME NEW t \in Tasks, NEW n \in Attempts, Grants(t, n)
         PROVE  TypeOK'
    <2>1. PICK w \in Workers, g \in Attempts, e \in Expiries : GrantClaim(w, t, n, g, e)
      BY <1>3 DEF Grants
    <2>2. <<t, n>> \in ClaimIds /\ e \in Nat
      BY <1>0, ClaimPairs, ClockAssumption, BoundsAssumption DEF Expiries, TypeOK
    <2>3. /\ attempts' \in [Tasks -> 0..MaxAttempts]
          /\ retryAuthorized' \in [Tasks -> BOOLEAN]
          /\ claimStatus' \in [ClaimIds -> ClaimStatuses]
          /\ claimWorker' \in [ClaimIds -> Workers \cup {NoWorker}]
          /\ leaseGeneration' \in [ClaimIds -> 0..MaxAttempts]
          /\ leaseExpires' \in [ClaimIds -> Nat]
      BY <1>0, <2>1, <2>2, BoundsAssumption DEF GrantClaim, TypeOK, Attempts, ClaimStatuses
    <2>4. delivery' \in [ClaimIds -> DeliveryStates]
      BY <1>0, <1>3 DEF Grants, TypeOK, DeliveryStates
    <2> QED
      BY <1>0, <2>1, <2>3, <2>4 DEF GrantClaim, TypeOK
  <1>4. ASSUME NEW w \in Workers, NEW c \in ClaimIds, NEW g \in Attempts,
               NEW e \in Expiries, Renew(w, c, g, e)
         PROVE  TypeOK'
    <2>1. e \in Nat
      BY <1>0, ClockAssumption, BoundsAssumption DEF Expiries, TypeOK
    <2>2. /\ renewals' \in [ClaimIds -> 0..MaxRenewals]
          /\ leaseExpires' \in [ClaimIds -> Nat]
      BY <1>0, <1>4, <2>1, BoundsAssumption DEF Renew, RenewalLeft, TypeOK
    <2> QED
      BY <1>0, <1>4, <2>2 DEF Renew, TypeOK
  <1>5. ASSUME NEW w \in Workers, NEW c \in ClaimIds, NEW g \in Attempts,
               NEW a \in Artifacts, PublishArtifact(w, c, g, a)
         PROVE  TypeOK'
    BY <1>0, <1>5 DEF PublishArtifact, TypeOK
  <1>6. ASSUME NEW c \in ClaimIds, NEW s \in ClaimEndings, Ends(c, s)
         PROVE  TypeOK'
    BY <1>0, <1>6, ZenonT(60) DEF Ends, WorkerEndsClaim, EndClaim, ClaimEndings, TypeOK,
       ClaimStatuses, TaskTerminals
  <1>7. ASSUME NEW w \in Workers, NEW c \in ClaimIds, NEW g \in Attempts, CancelAck(w, c, g)
         PROVE  TypeOK'
    BY <1>0, <1>7 DEF CancelAck, TypeOK
  <1>8. ASSUME NEW c \in ClaimIds, NEW g \in Attempts, CancelRequest(c, g)
         PROVE  TypeOK'
    BY <1>0, <1>8 DEF CancelRequest, TypeOK
  <1>9. ASSUME NEW t \in Tasks, NEW r \in BOOLEAN, Acknowledge(t, r)
         PROVE  TypeOK'
    <2>1. Latest(t) \in ClaimIds
      BY <1>0, <1>9, LatestClaim DEF Acknowledge, Recoverable
    <2> QED
      BY <1>0, <1>9, <2>1, DecideType DEF Acknowledge, TypeOK
  <1>10. ASSUME NEW t \in Tasks, BeginRecovery(t)
         PROVE  TypeOK'
    <2>1. Latest(t) \in ClaimIds
      BY <1>0, <1>10, LatestClaim DEF BeginRecovery, Recoverable
    <2> QED
      BY <1>0, <1>10, <2>1 DEF BeginRecovery, EndClaim, TypeOK, ClaimStatuses, TaskTerminals
  <1>11. ASSUME NEW t \in Tasks, NEW r \in BOOLEAN, FinishRecovery(t, r)
         PROVE  TypeOK'
    <2>1. Latest(t) \in ClaimIds
      BY <1>0, <1>11 DEF FinishRecovery, TypeOK
    <2> QED
      BY <1>0, <1>11, <2>1, DecideType DEF FinishRecovery, TypeOK
  <1>12. ASSUME InterruptRecovery
         PROVE  TypeOK'
    BY <1>0, <1>12 DEF InterruptRecovery, TypeOK
  <1>13. ASSUME NEW c \in ClaimIds, NEW d \in DeliveryStates, AdvanceDelivery(c, d)
         PROVE  TypeOK'
    BY <1>0, <1>13 DEF AdvanceDelivery, TypeOK
  <1>14. ASSUME Close
         PROVE  TypeOK'
    BY <1>0, <1>14 DEF Close, TypeOK
  <1>15. ASSUME NEW m \in Clock, SetClock(m)
         PROVE  TypeOK'
    BY <1>0, <1>15 DEF SetClock, TypeOK
  <1> QED
    BY StepCases, <1>1, <1>2, <1>3, <1>4, <1>5, <1>6, <1>7, <1>8, <1>9,
       <1>10, <1>11, <1>12, <1>13, <1>14, <1>15

\* Every step keeps what cancellations promise.
LEMMA CancellationStep ==
    ASSUME Inv, [Next]_vars
    PROVE  CancellationHonoured'
  <1> USE DEF taskVars, claimVars, leaseVars, cancelVars, humanVars, runVars, CancellationHonoured
  <1>0. TypeOK /\ CancellationHonoured /\ IssuedInOrder /\ RecoveryUndecided
    BY DEF Inv
  <1>1. ASSUME UNCHANGED vars
         PROVE  CancellationHonoured'
    BY <1>0, <1>1 DEF vars, TypeOK
  <1>2. ASSUME NEW w \in Workers, RegisterWorker(w)
         PROVE  CancellationHonoured'
    BY <1>0, <1>2 DEF RegisterWorker, TypeOK
  <1>3. ASSUME NEW t \in Tasks, NEW n \in Attempts, Grants(t, n)
         PROVE  CancellationHonoured'
    <2>1. PICK w \in Workers, g \in Attempts, e \in Expiries : GrantClaim(w, t, n, g, e)
      BY <1>3 DEF Grants
    <2> QED
      BY <1>0, <2>1, ClaimPairs DEF GrantClaim, TypeOK
  <1>4. ASSUME NEW w \in Workers, NEW c \in ClaimIds, NEW g \in Attempts,
               NEW e \in Expiries, Renew(w, c, g, e)
         PROVE  CancellationHonoured'
    BY <1>0, <1>4 DEF Renew, Expiries, TypeOK
  <1>5. ASSUME NEW w \in Workers, NEW c \in ClaimIds, NEW g \in Attempts,
               NEW a \in Artifacts, PublishArtifact(w, c, g, a)
         PROVE  CancellationHonoured'
    BY <1>0, <1>5 DEF PublishArtifact, TypeOK
  <1>6. ASSUME NEW c \in ClaimIds, NEW s \in ClaimEndings, Ends(c, s)
         PROVE  CancellationHonoured'
    BY <1>0, <1>6 DEF Ends, WorkerEndsClaim, EndClaim, TypeOK
  <1>7. ASSUME NEW w \in Workers, NEW c \in ClaimIds, NEW g \in Attempts, CancelAck(w, c, g)
         PROVE  CancellationHonoured'
    BY <1>0, <1>7 DEF CancelAck, TypeOK
  <1>8. ASSUME NEW c \in ClaimIds, NEW g \in Attempts, CancelRequest(c, g)
         PROVE  CancellationHonoured'
    BY <1>0, <1>8 DEF CancelRequest, Live, TypeOK
  <1>9. ASSUME NEW t \in Tasks, NEW r \in BOOLEAN, Acknowledge(t, r)
         PROVE  CancellationHonoured'
    <2>1. Latest(t) \in ClaimIds
      BY <1>0, <1>9, LatestClaim DEF Acknowledge, Recoverable
    <2> QED
      BY <1>0, <1>9, <2>1 DEF Acknowledge, Decide, AuthorizeRetry, BlockTask, EndClaim, TypeOK
  <1>10. ASSUME NEW t \in Tasks, BeginRecovery(t)
         PROVE  CancellationHonoured'
    <2>1. Latest(t) \in ClaimIds
      BY <1>0, <1>10, LatestClaim DEF BeginRecovery, Recoverable
    <2> QED
      BY <1>0, <1>10, <2>1 DEF BeginRecovery, EndClaim, TypeOK
  <1>11. ASSUME NEW t \in Tasks, NEW r \in BOOLEAN, FinishRecovery(t, r)
         PROVE  CancellationHonoured'
    <2>1. Latest(t) \in ClaimIds
      BY <1>0, <1>11 DEF FinishRecovery, TypeOK
    <2> QED
      BY <1>0, <1>11, <2>1 DEF FinishRecovery, Decide, AuthorizeRetry, BlockTask, EndClaim, TypeOK
  <1>12. ASSUME InterruptRecovery
         PROVE  CancellationHonoured'
    BY <1>0, <1>12 DEF InterruptRecovery, TypeOK
  <1>13. ASSUME NEW c \in ClaimIds, NEW d \in DeliveryStates, AdvanceDelivery(c, d)
         PROVE  CancellationHonoured'
    BY <1>0, <1>13 DEF AdvanceDelivery, TypeOK
  <1>14. ASSUME Close
         PROVE  CancellationHonoured'
    BY <1>0, <1>14 DEF Close, TypeOK
  <1>15. ASSUME NEW m \in Clock, SetClock(m)
         PROVE  CancellationHonoured'
    BY <1>0, <1>15 DEF SetClock, TypeOK
  <1> QED
    BY StepCases, <1>1, <1>2, <1>3, <1>4, <1>5, <1>6, <1>7, <1>8, <1>9,
       <1>10, <1>11, <1>12, <1>13, <1>14, <1>15

\* Nothing but the clock moves once the run is closed.
LEMMA ClosedIsQuiet ==
    ASSUME Inv, closed, [Next]_vars
    PROVE  UNCHANGED <<taskVars, claimVars, delivery, runVars, humanVars>>
  <1>1. recovering = {}
    BY DEF Inv, RecoveryUndecided, TypeOK
  <1> QED
    BY StepCases, <1>1 DEF vars, Mutable, RegisterWorker, Grants, GrantClaim, Renew,
       PublishArtifact, Ends, WorkerEndsClaim, CancelAck, CancelRequest, Acknowledge,
       BeginRecovery, Recoverable, FinishRecovery, InterruptRecovery, AdvanceDelivery,
       Close, SetClock

\* Every step keeps a closed run settled.
LEMMA ClosedStep ==
    ASSUME Inv, [Next]_vars
    PROVE  ClosedIsSettled'
  <1>1. CASE closed
    <2>1. UNCHANGED <<taskVars, claimVars, delivery, runVars, humanVars>>
      BY <1>1, ClosedIsQuiet
    <2> QED
      BY <1>1, <2>1 DEF Inv, ClosedIsSettled, Outstanding, taskVars, claimVars, runVars, humanVars
  <1>2. CASE ~closed /\ closed'
    <2>1. Close
      BY <1>2, StepCases, ZenonT(60) DEF vars, RegisterWorker, Grants, GrantClaim, Renew,
       PublishArtifact, Ends, WorkerEndsClaim, CancelAck, CancelRequest, Acknowledge,
       BeginRecovery, FinishRecovery, InterruptRecovery, AdvanceDelivery, SetClock, runVars
    <2> QED
      BY <2>1 DEF Close, Mutable, DeliveriesSettled, ClosedIsSettled, Outstanding, taskVars, claimVars, humanVars
  <1>3. CASE ~closed'
    BY <1>3 DEF ClosedIsSettled
  <1> QED
    BY <1>1, <1>2, <1>3

\* Every step keeps the claim of a recovery in progress undecided.
LEMMA RecoveryStep ==
    ASSUME Inv, [Next]_vars
    PROVE  RecoveryUndecided'
  <1>1. CASE recovering' = {}
    BY <1>1 DEF RecoveryUndecided
  <1>2. ASSUME NEW t \in Tasks, BeginRecovery(t) PROVE RecoveryUndecided'
    <2>1. TypeOK /\ attempts[t] > 0
      BY <1>2 DEF Inv, BeginRecovery, Recoverable
    <2>2. Latest(t) \in ClaimIds /\ TaskOf(Latest(t)) = t
      BY <2>1, LatestClaim
    <2> QED
      BY <1>2, <2>1, <2>2 DEF BeginRecovery, Recoverable, EndClaim, RecoveryUndecided,
         TypeOK, Latest, runVars
  <1>3. CASE recovering # {} /\ UNCHANGED <<taskVars, claimVars, recovering, closed>>
    BY <1>3 DEF Inv, RecoveryUndecided, Latest, taskVars, claimVars
  <1> QED
    BY StepCases, <1>1, <1>2, <1>3, ZenonT(60) DEF vars, Mutable, RegisterWorker, Grants,
       GrantClaim, Renew, PublishArtifact, Ends, WorkerEndsClaim, CancelAck, CancelRequest, Acknowledge,
       FinishRecovery, InterruptRecovery, AdvanceDelivery, Close, SetClock,
       runVars, humanVars

-----------------------------------------------------------------------------
(* The theorems. *)

\* Inv holds in every reachable state: the types are right, claims are issued in
\* order, outcomes are explained by the latest claim, and the safety properties
\* it contains hold.
THEOREM Invariance == Spec => []Inv
  <1>1. Init => Inv
    <2> SUFFICES ASSUME Init PROVE Inv
      OBVIOUS
    <2>1. TypeOK
      <3>1. /\ attempts \in [Tasks -> 0..MaxAttempts]
            /\ leaseGeneration \in [ClaimIds -> 0..MaxAttempts]
            /\ leaseExpires \in [ClaimIds -> Nat]
            /\ renewals \in [ClaimIds -> 0..MaxRenewals]
        BY BoundsAssumption DEF Init
      <3>2. /\ terminal \in [Tasks -> TaskTerminals]
            /\ claimStatus \in [ClaimIds -> ClaimStatuses]
            /\ delivery \in [ClaimIds -> DeliveryStates]
        BY DEF Init, TaskTerminals, ClaimStatuses, DeliveryStates
      <3>3. /\ retryAuthorized \in [Tasks -> BOOLEAN]
            /\ uncertainSpend \in [Tasks -> BOOLEAN]
            /\ cancelRequested \in [ClaimIds -> BOOLEAN]
            /\ cancelAcknowledged \in [ClaimIds -> BOOLEAN]
            /\ claimWorker \in [ClaimIds -> Workers \cup {NoWorker}]
        BY DEF Init
      <3>4. published \subseteq Artifacts \X ClaimIds
        BY DEF Init
      <3> QED
        BY <3>1, <3>2, <3>3, <3>4 DEF Init, TypeOK
    <2>2. \A c \in ClaimIds : ~Issued(c)
      BY ClaimPairs, BoundsAssumption DEF Init, Issued, Attempts
    <2>3. Structure
      BY <2>1, <2>2, ClaimPairs, BoundsAssumption DEF Init, Structure, IssuedInOrder,
         OneActiveAttempt, OutcomeExplained, RetryIsPending, DependenciesHold,
         NoSilentRespend, Attempts
    <2>4. CancellationHonoured /\ RecoveryUndecided /\ ClosedIsSettled
      BY DEF Init, CancellationHonoured, RecoveryUndecided, ClosedIsSettled
    <2> QED
      BY <2>1, <2>3, <2>4 DEF Inv, Structure
  <1>2. Inv /\ [Next]_vars => Inv'
    BY StructureStep, TypeStep, CancellationStep, ClosedStep, RecoveryStep DEF Inv, Structure
  <1> QED
    BY <1>1, <1>2, PTL DEF Spec

\* The state is well typed in every run.
THEOREM TypeCorrect == Spec => []TypeOK
  BY Invariance, PTL DEF Inv

\* No two attempts of a task are ever active together.
THEOREM MutualExclusion == Spec => []OneActiveAttempt
  BY Invariance, PTL DEF Inv

\* Uncertain spend is never retried without a human.
THEOREM SpendIsAuthorized == Spec => []NoSilentRespend
  BY Invariance, PTL DEF Inv

\* Work starts, and stays, on completed dependencies only.
THEOREM DependenciesRespected == Spec => []DependenciesHold
  BY Invariance, PTL DEF Inv

\* A cancellation pending on a claim excludes its completion.
THEOREM CancellationRespected == Spec => []CancellationHonoured
  BY Invariance, PTL DEF Inv

\* A closed run is settled.
THEOREM ClosureIsSafe == Spec => []ClosedIsSettled
  BY Invariance, PTL DEF Inv

-----------------------------------------------------------------------------
(* What a step may never do. *)

\* A claim changes state when it is granted, when its worker ends it while the
\* lease lasts, or when a recovery marks it indeterminate or blocked.
LEMMA StatusMoves ==
    ASSUME Inv, [Next]_vars, NEW c \in ClaimIds
    PROVE  \/ claimStatus'[c] = claimStatus[c]
           \/ claimStatus[c] = "unissued"
           \/ Live(c)
           \/ /\ claimStatus[c] \in {"active", "indeterminate"}
              /\ claimStatus'[c] \in {"indeterminate", "blocked"}
  <1> DEFINE Goal == \/ claimStatus'[c] = claimStatus[c]
                     \/ claimStatus[c] = "unissued"
                     \/ Live(c)
                     \/ /\ claimStatus[c] \in {"active", "indeterminate"}
                        /\ claimStatus'[c] \in {"indeterminate", "blocked"}
  <1>0. TypeOK /\ IssuedInOrder
    BY DEF Inv
  <1>1. CASE UNCHANGED claimStatus
    BY <1>1
  <1>2. ASSUME NEW t \in Tasks, NEW n \in Attempts, Grants(t, n) PROVE Goal
    <2>1. PICK w \in Workers, g \in Attempts, e \in Expiries : GrantClaim(w, t, n, g, e)
      BY <1>2 DEF Grants
    <2>2. CASE c = <<t, n>>
      BY <1>0, <2>1, <2>2, ClaimPairs DEF GrantClaim, ClaimCommon, IssuedInOrder, Issued, TypeOK
    <2>3. CASE c # <<t, n>>
      BY <1>0, <2>1, <2>3 DEF GrantClaim, TypeOK
    <2> QED
      BY <2>2, <2>3
  <1>3. ASSUME NEW d \in ClaimIds, NEW s \in ClaimEndings, Ends(d, s) PROVE Goal
    BY <1>0, <1>3 DEF Ends, WorkerEndsClaim, ClaimForUpdate, EndClaim, Live, TypeOK
  <1>4. ASSUME NEW t \in Tasks, NEW r \in BOOLEAN, Decide(t, r),
               Latest(t) \in ClaimIds
        PROVE  Goal
    BY <1>0, <1>4 DEF Decide, AuthorizeRetry, BlockTask, EndClaim, TypeOK, claimVars
  <1>5. ASSUME NEW t \in Tasks, BeginRecovery(t) PROVE Goal
    BY <1>0, <1>5, LatestClaim DEF BeginRecovery, Recoverable, EndClaim, TypeOK
  <1>6. ASSUME NEW t \in Tasks, NEW r \in BOOLEAN, Acknowledge(t, r) \/ FinishRecovery(t, r)
        PROVE  Goal
    <2>1. Latest(t) \in ClaimIds
      BY <1>0, <1>6, LatestClaim DEF Acknowledge, Recoverable, FinishRecovery, TypeOK
    <2> QED
      BY <1>4, <1>6, <2>1 DEF Acknowledge, FinishRecovery
  <1> QED
    BY StepCases, <1>1, <1>2, <1>3, <1>5, <1>6 DEF vars, RegisterWorker, Renew,
       PublishArtifact, CancelAck, CancelRequest, InterruptRecovery, AdvanceDelivery,
       Close, SetClock, claimVars

\* A task outcome that is final stays.
LEMMA TerminalMoves ==
    ASSUME Inv, [Next]_vars, NEW t \in Tasks, terminal[t] \in {"completed", "failed", "cancelled"}
    PROVE  terminal'[t] = terminal[t]
  <1>0. TypeOK
    BY DEF Inv
  <1>1. ASSUME NEW c \in ClaimIds, NEW s \in ClaimStatuses, EndClaim(c, s),
               terminal[TaskOf(c)] \in {"none", "indeterminate"}
        PROVE  terminal'[t] = terminal[t]
    BY <1>0, <1>1, ClaimPairs DEF EndClaim, TypeOK
  <1>2. ASSUME NEW c \in ClaimIds, NEW s \in ClaimEndings, Ends(c, s)
        PROVE  terminal'[t] = terminal[t]
    BY <1>1, <1>2 DEF Ends, WorkerEndsClaim, Terminable, ClaimEndings
  <1>3. ASSUME NEW u \in Tasks, BeginRecovery(u)
        PROVE  terminal'[t] = terminal[t]
    BY <1>0, <1>1, <1>3, LatestClaim DEF BeginRecovery, Recoverable, Terminable, ClaimStatuses
  <1>4. ASSUME NEW u \in Tasks, NEW r \in BOOLEAN, Decide(u, r), Latest(u) \in ClaimIds
        PROVE  terminal'[t] = terminal[t]
    <2>1. CASE r
      BY <1>0, <1>4, <2>1 DEF Decide, AuthorizeRetry, TypeOK
    <2>2. CASE ~r
      BY <1>1, <1>4, <2>2 DEF Decide, BlockTask, Latest, TaskOf, ClaimStatuses
    <2> QED
      BY <2>1, <2>2
  <1>5. ASSUME NEW u \in Tasks, NEW r \in BOOLEAN, Acknowledge(u, r) \/ FinishRecovery(u, r)
        PROVE  terminal'[t] = terminal[t]
    <2>1. Latest(u) \in ClaimIds
      BY <1>0, <1>5, LatestClaim DEF Acknowledge, Recoverable, FinishRecovery, TypeOK
    <2> QED
      BY <1>4, <1>5, <2>1 DEF Acknowledge, FinishRecovery
  <1> QED
    BY StepCases, <1>2, <1>3, <1>5, ZenonT(60) DEF vars, RegisterWorker, Grants, GrantClaim, Renew,
       PublishArtifact, CancelAck, CancelRequest, InterruptRecovery, AdvanceDelivery,
       Close, SetClock, taskVars

\* The lease, cancellation and artifacts of an issued claim that is not live
\* are left alone.
LEMMA StaleFieldsKept ==
    ASSUME Inv, [Next]_vars, NEW c \in ClaimIds, ~Live(c), Issued(c)
    PROVE  /\ leaseExpires'[c] = leaseExpires[c]
           /\ cancelRequested'[c] = cancelRequested[c]
           /\ cancelAcknowledged'[c] = cancelAcknowledged[c]
           /\ \A p \in published' \ published : p[2] # c
  <1> USE DEF taskVars, claimVars, leaseVars, cancelVars, humanVars, runVars
  <1> DEFINE Goal == /\ leaseExpires'[c] = leaseExpires[c]
                     /\ cancelRequested'[c] = cancelRequested[c]
                     /\ cancelAcknowledged'[c] = cancelAcknowledged[c]
                     /\ \A p \in published' \ published : p[2] # c
  <1>0. TypeOK
    BY DEF Inv
  <1>1. CASE UNCHANGED <<leaseExpires, cancelVars, published>>
    BY <1>1
  <1>2. ASSUME NEW t \in Tasks, NEW n \in Attempts, Grants(t, n) PROVE Goal
    <2>1. PICK w \in Workers, g \in Attempts, e \in Expiries : GrantClaim(w, t, n, g, e)
      BY <1>2 DEF Grants
    <2>2. c # <<t, n>>
      BY <1>0, <2>1, ClaimPairs DEF GrantClaim, ClaimCommon, Issued, TypeOK, Attempts
    <2> QED
      BY <1>0, <2>1, <2>2 DEF GrantClaim, TypeOK
  <1>3. ASSUME NEW w \in Workers, NEW d \in ClaimIds, NEW g \in Attempts, NEW e \in Expiries,
               Renew(w, d, g, e)
        PROVE  Goal
    BY <1>0, <1>3 DEF Renew, ClaimForUpdate, Live, TypeOK
  <1>4. ASSUME NEW w \in Workers, NEW d \in ClaimIds, NEW g \in Attempts, NEW a \in Artifacts,
               PublishArtifact(w, d, g, a)
        PROVE  Goal
    BY <1>0, <1>4 DEF PublishArtifact, ClaimForUpdate, Live, TypeOK
  <1>5. ASSUME NEW d \in ClaimIds, NEW g \in Attempts, CancelRequest(d, g) PROVE Goal
    BY <1>0, <1>5 DEF CancelRequest, Live, TypeOK
  <1>6. ASSUME NEW w \in Workers, NEW d \in ClaimIds, NEW g \in Attempts, CancelAck(w, d, g)
        PROVE  Goal
    BY <1>0, <1>6 DEF CancelAck, ClaimForUpdate, Live, TypeOK
  <1> QED
    BY StepCases, <1>1, <1>2, <1>3, <1>4, <1>5, <1>6 DEF vars, RegisterWorker, Ends,
       WorkerEndsClaim, EndClaim, Acknowledge, BeginRecovery, FinishRecovery, Decide,
       AuthorizeRetry, BlockTask, InterruptRecovery, AdvanceDelivery, Close, SetClock

\* A worker whose lease ran out, or whose claim ended, changes nothing.
THEOREM StaleWorkersAreHarmless == Spec => StaleClaimFrozen
  <1>1. ASSUME Inv, [Next]_vars, NEW c \in ClaimIds, ~Live(c), Issued(c)
        PROVE  claimStatus'[c] = claimStatus[c] \/ claimStatus'[c] \in {"indeterminate", "blocked"}
    BY <1>1, StatusMoves DEF Inv, IssuedInOrder
  <1>2. Inv /\ [Next]_vars =>
          [\A c \in ClaimIds :
              ~Live(c) /\ Issued(c) =>
                  /\ leaseExpires'[c] = leaseExpires[c]
                  /\ cancelRequested'[c] = cancelRequested[c]
                  /\ cancelAcknowledged'[c] = cancelAcknowledged[c]
                  /\ claimStatus'[c] = claimStatus[c]
                     \/ claimStatus'[c] \in {"indeterminate", "blocked"}
                  /\ \A p \in published' \ published : p[2] # c]_vars
    BY <1>1, StaleFieldsKept
  <1> QED
    BY <1>2, Invariance, PTL DEF Spec, StaleClaimFrozen

\* Outcomes are final, and so is the end of the run.
THEOREM OutcomesAreFinal == Spec => OutcomeFinal
  <1>1. ASSUME Inv, [Next]_vars, NEW c \in ClaimIds,
               claimStatus[c] \in {"released", "completed", "failed", "cancelled"}
        PROVE  claimStatus'[c] = claimStatus[c]
    BY <1>1, StatusMoves DEF Live
  <1>2. Inv /\ [Next]_vars =>
          [/\ \A t \in Tasks :
                 terminal[t] \in {"completed", "failed", "cancelled"} =>
                     terminal'[t] = terminal[t]
           /\ \A c \in ClaimIds :
                 claimStatus[c] \in {"released", "completed", "failed", "cancelled"} =>
                     claimStatus'[c] = claimStatus[c]
           /\ closed => UNCHANGED <<taskVars, claimVars, delivery, runVars, humanVars>>
          ]_vars
    BY <1>1, TerminalMoves, ClosedIsQuiet
  <1> QED
    BY <1>2, Invariance, PTL DEF Spec, OutcomeFinal

-----------------------------------------------------------------------------
(* What the records tell stays true. *)

\* A step that makes no claim doubtful, and clears no doubt, leaves no mark.
LEMMA MarksFrame ==
    ASSUME UncertaintyRecorded, uncertainSpend' = uncertainSpend,
           \A c \in ClaimIds : claimStatus'[c] \in {"indeterminate", "blocked"}
                               <=> claimStatus[c] \in {"indeterminate", "blocked"}
    PROVE  UncertaintyRecorded'
  <1> SUFFICES ASSUME NEW t \in Tasks
               PROVE  uncertainSpend'[t] <=>
                          \E n \in Attempts : claimStatus'[<<t, n>>] \in {"indeterminate", "blocked"}
    BY DEF UncertaintyRecorded
  <1>1. \A n \in Attempts : <<t, n>> \in ClaimIds
    BY ClaimPairs
  <1> QED
    BY <1>1 DEF UncertaintyRecorded

\* The end of a claim that was active, or that was in doubt and stays in doubt,
\* marks its task exactly when the ending is doubtful.
LEMMA EndMarks ==
    ASSUME TypeOK, UncertaintyRecorded, NEW c \in ClaimIds, NEW s \in ClaimEndings,
           EndClaim(c, s),
           claimStatus[c] = "active" \/ (claimStatus[c] = "indeterminate" /\ s = "blocked")
    PROVE  UncertaintyRecorded'
  <1>1. /\ claimStatus'[c] = s
        /\ \A d \in ClaimIds : d # c => claimStatus'[d] = claimStatus[d]
    BY DEF EndClaim, TypeOK
  <1>2. CASE s \notin {"indeterminate", "blocked"}
    BY <1>1, <1>2, MarksFrame DEF EndClaim, MaySpend
  <1>3. CASE s \in {"indeterminate", "blocked"}
    <2>1. /\ uncertainSpend'[TaskOf(c)] = TRUE
          /\ \A t \in Tasks : t # TaskOf(c) => uncertainSpend'[t] = uncertainSpend[t]
      BY <1>3, ClaimPairs DEF EndClaim, MaySpend, TypeOK
    <2> SUFFICES ASSUME NEW t \in Tasks
                 PROVE  uncertainSpend'[t] <=>
                            \E n \in Attempts : claimStatus'[<<t, n>>] \in {"indeterminate", "blocked"}
      BY DEF UncertaintyRecorded
    <2>2. CASE t = TaskOf(c)
      <3>1. AttemptOf(c) \in Attempts /\ claimStatus'[<<t, AttemptOf(c)>>] = s
        BY <1>1, <2>2, ClaimPairs
      <3> QED
        BY <1>3, <2>1, <2>2, <3>1
    <2>3. CASE t # TaskOf(c)
      <3>1. \A n \in Attempts : claimStatus'[<<t, n>>] = claimStatus[<<t, n>>]
        BY <1>1, <2>3, ClaimPairs
      <3> QED
        BY <2>1, <2>3, <3>1 DEF UncertaintyRecorded
    <2> QED
      BY <2>2, <2>3
  <1> QED
    BY <1>2, <1>3

\* Every step leaves each task marked exactly when one of its attempts may have spent.
LEMMA UncertaintyStep ==
    ASSUME Inv, UncertaintyRecorded, [Next]_vars
    PROVE  UncertaintyRecorded'
  <1>0. TypeOK
    BY DEF Inv
  <1>1. CASE UNCHANGED <<claimStatus, uncertainSpend>>
    BY <1>1, MarksFrame
  <1>2. ASSUME NEW t \in Tasks, NEW n \in Attempts, Grants(t, n) PROVE UncertaintyRecorded'
    <2>1. PICK w \in Workers, g \in Attempts, e \in Expiries : GrantClaim(w, t, n, g, e)
      BY <1>2 DEF Grants
    <2>2. claimStatus[<<t, n>>] = "unissued" /\ <<t, n>> \in ClaimIds
      BY <1>0, <2>1, ClaimPairs, BoundsAssumption
         DEF GrantClaim, ClaimCommon, Inv, IssuedInOrder, Issued, TypeOK, Attempts
    <2>3. /\ claimStatus'[<<t, n>>] = "active"
          /\ \A c \in ClaimIds : c # <<t, n>> => claimStatus'[c] = claimStatus[c]
          /\ uncertainSpend' = uncertainSpend
      BY <1>0, <2>1, <2>2 DEF GrantClaim, TypeOK
    <2> QED
      BY <2>2, <2>3, MarksFrame
  <1>3. ASSUME NEW c \in ClaimIds, NEW s \in ClaimEndings, Ends(c, s) PROVE UncertaintyRecorded'
    BY <1>0, <1>3, EndMarks DEF Ends, WorkerEndsClaim, ClaimForUpdate
  <1>4. ASSUME NEW t \in Tasks, BeginRecovery(t) PROVE UncertaintyRecorded'
    <2>1. Latest(t) \in ClaimIds
      BY <1>0, <1>4, LatestClaim DEF BeginRecovery, Recoverable
    <2> QED
      BY <1>0, <1>4, <2>1, EndMarks DEF BeginRecovery, ClaimEndings, ClaimStatuses
  <1>5. ASSUME NEW t \in Tasks, NEW r \in BOOLEAN, Decide(t, r), Latest(t) \in ClaimIds,
               claimStatus[Latest(t)] # "active"
        PROVE  UncertaintyRecorded'
    <2>1. CASE r
      BY <1>5, <2>1, MarksFrame DEF Decide, AuthorizeRetry, claimVars
    <2>2. CASE ~r
      BY <1>0, <1>5, <2>2, EndMarks DEF Decide, BlockTask, ClaimEndings, ClaimStatuses
    <2> QED
      BY <2>1, <2>2
  <1>6. ASSUME NEW t \in Tasks, NEW r \in BOOLEAN, Acknowledge(t, r) PROVE UncertaintyRecorded'
    BY <1>0, <1>5, <1>6, LatestClaim DEF Acknowledge, Recoverable
  <1>7. ASSUME NEW t \in Tasks, NEW r \in BOOLEAN, FinishRecovery(t, r)
        PROVE  UncertaintyRecorded'
    <2>1. Latest(t) \in recovering /\ Latest(t) \in ClaimIds
      BY <1>0, <1>7 DEF FinishRecovery, TypeOK
    <2>2. claimStatus[Latest(t)] = "indeterminate"
      BY <2>1 DEF Inv, RecoveryUndecided
    <2> QED
      BY <1>5, <1>7, <2>1, <2>2 DEF FinishRecovery
  <1> QED
    BY StepCases, <1>1, <1>2, <1>3, <1>4, <1>6, <1>7 DEF vars, RegisterWorker, Renew,
       PublishArtifact, CancelAck, CancelRequest, InterruptRecovery, AdvanceDelivery,
       Close, SetClock, taskVars, claimVars

\* Every step keeps one publication per artifact id.
LEMMA PublicationStep ==
    ASSUME TypeOK, ArtifactPublishedOnce, [Next]_vars
    PROVE  ArtifactPublishedOnce'
  <1>1. CASE UNCHANGED published
    BY <1>1 DEF ArtifactPublishedOnce
  <1>2. ASSUME NEW w \in Workers, NEW c \in ClaimIds, NEW g \in Attempts, NEW a \in Artifacts,
               PublishArtifact(w, c, g, a)
        PROVE  ArtifactPublishedOnce'
    BY <1>2 DEF PublishArtifact, Unpublished, ArtifactPublishedOnce
  <1> QED
    BY StepCases, <1>1, <1>2, ZenonT(60) DEF vars, RegisterWorker, Grants, GrantClaim, Renew,
       Ends, WorkerEndsClaim, CancelAck, CancelRequest, Acknowledge, BeginRecovery,
       FinishRecovery, InterruptRecovery, AdvanceDelivery, Close, SetClock, runVars

\* Through every retry, recovery and clock step a task is marked as uncertain
\* spend exactly when one of its attempts may have spent, and an artifact id
\* keeps naming one publication.
THEOREM RecordsTell == Spec => []RecordsAgree
  <1>1. Init => RecordsAgree
    <2> SUFFICES ASSUME Init PROVE RecordsAgree
      OBVIOUS
    <2>1. UncertaintyRecorded
      BY ClaimPairs DEF Init, UncertaintyRecorded
    <2>2. ArtifactPublishedOnce
      BY DEF Init, ArtifactPublishedOnce
    <2> QED
      BY <2>1, <2>2 DEF RecordsAgree
  <1>2. Inv /\ RecordsAgree /\ [Next]_vars => RecordsAgree'
    BY UncertaintyStep, PublicationStep DEF RecordsAgree, Inv
  <1> QED
    BY <1>1, <1>2, Invariance, PTL DEF Spec

-----------------------------------------------------------------------------
(* No third dead end. *)

\* The attempts of a task are its lease generations, and who holds a claim is registered.
Numbered ==
    /\ \A c \in ClaimIds : Issued(c) => leaseGeneration[c] = AttemptOf(c)
    /\ \A c \in ClaimIds : claimStatus[c] = "active" => claimWorker[c] \in workers

\* The lease generation that a claim asks for is the number of its attempt.
LEMMA NextIsNumber ==
    ASSUME TypeOK, Numbered, NEW t \in Tasks, NEW g \in Attempts
    PROVE  NextGeneration(t, g) <=> g = attempts[t] + 1
  <1>1. attempts[t] \in 0..MaxAttempts /\ MaxAttempts \in Nat /\ g \in Nat \ {0}
    BY BoundsAssumption DEF TypeOK, Attempts
  <1>2. ASSUME NEW n \in 1..attempts[t] PROVE leaseGeneration[<<t, n>>] = n
    <2>1. n \in Attempts
      BY <1>1, <1>2 DEF Attempts
    <2> QED
      BY <1>1, <1>2, <2>1, ClaimPairs DEF Numbered, Issued
  <1>3. {leaseGeneration[<<t, n>>] : n \in 1..attempts[t]} = 1..attempts[t]
    BY <1>2
  <1>4. NextGeneration(t, g) <=> /\ \A old \in 1..attempts[t] : old < g
                                 /\ g - 1 \in 1..attempts[t] \cup {0}
    BY <1>3 DEF NextGeneration
  <1>5. CASE g = attempts[t] + 1
    BY <1>1, <1>4, <1>5
  <1>6. CASE g # attempts[t] + 1
    <2>1. g <= attempts[t] \/ g > attempts[t] + 1
      BY <1>1, <1>6
    <2>2. g <= attempts[t] => g \in 1..attempts[t]
      BY <1>1
    <2> QED
      BY <1>1, <1>4, <1>6, <2>1, <2>2
  <1> QED
    BY <1>5, <1>6

\* A step that issues no claim, leaves none active that was not, and forgets no
\* worker keeps the numbers.
LEMMA NumberedFrame ==
    ASSUME Numbered, UNCHANGED <<attempts, leaseGeneration, claimWorker>>,
           workers \subseteq workers',
           \A c \in ClaimIds : claimStatus'[c] = "active" => claimStatus[c] = "active"
    PROVE  Numbered'
  BY DEF Numbered, Issued

\* Every step keeps the numbers.
LEMMA NumberedStep ==
    ASSUME Inv, Numbered, [Next]_vars
    PROVE  Numbered'
  <1> USE DEF taskVars, claimVars, leaseVars, cancelVars, humanVars, runVars
  <1>0. TypeOK
    BY DEF Inv
  <1>1. ASSUME NEW t \in Tasks, NEW n \in Attempts, Grants(t, n) PROVE Numbered'
    <2>1. PICK w \in Workers, g \in Attempts, e \in Expiries : GrantClaim(w, t, n, g, e)
      BY <1>1 DEF Grants
    <2>2. n = attempts[t] + 1 /\ g = n /\ w \in workers
      BY <1>0, <2>1, NextIsNumber DEF GrantClaim, ClaimCommon
    <2>3. <<t, n>> \in ClaimIds /\ TaskOf(<<t, n>>) = t /\ AttemptOf(<<t, n>>) = n
      BY ClaimPairs
    <2>4. /\ claimWorker'[<<t, n>>] = w /\ leaseGeneration'[<<t, n>>] = n
          /\ \A c \in ClaimIds : c # <<t, n>> =>
                /\ claimStatus'[c] = claimStatus[c] /\ claimWorker'[c] = claimWorker[c]
                /\ leaseGeneration'[c] = leaseGeneration[c]
          /\ attempts'[t] = n /\ \A u \in Tasks : u # t => attempts'[u] = attempts[u]
          /\ workers' = workers
      BY <1>0, <2>1, <2>2, <2>3 DEF GrantClaim, TypeOK
    <2>5. ASSUME NEW c \in ClaimIds, Issued(c)', c # <<t, n>> PROVE Issued(c)
      <3>1. /\ TaskOf(c) \in Tasks /\ AttemptOf(c) \in Nat /\ c = <<TaskOf(c), AttemptOf(c)>>
        BY ClaimPairs DEF Attempts
      <3>2. attempts[t] \in Nat
        BY <1>0, BoundsAssumption DEF TypeOK
      <3> QED
        BY <2>2, <2>4, <2>5, <3>1, <3>2 DEF Issued
    <2>6. ASSUME NEW c \in ClaimIds, Issued(c)' PROVE leaseGeneration'[c] = AttemptOf(c)
      BY <2>3, <2>4, <2>5, <2>6 DEF Numbered
    <2>7. ASSUME NEW c \in ClaimIds, claimStatus'[c] = "active" PROVE claimWorker'[c] \in workers'
      BY <2>2, <2>4, <2>7 DEF Numbered
    <2> QED
      BY <2>6, <2>7 DEF Numbered
  <1>2. ASSUME NEW c \in ClaimIds, NEW s \in ClaimEndings, EndClaim(c, s), workers' = workers
        PROVE  Numbered'
    <2>1. s # "active"
      BY DEF ClaimEndings
    <2> QED
      BY <1>0, <1>2, <2>1, NumberedFrame DEF EndClaim, TypeOK
  <1>3. ASSUME NEW t \in Tasks, NEW r \in BOOLEAN, Decide(t, r), Latest(t) \in ClaimIds,
               workers' = workers
        PROVE  Numbered'
    <2>1. "blocked" \in ClaimEndings
      BY DEF ClaimEndings, ClaimStatuses
    <2> QED
      BY <1>2, <1>3, <2>1, NumberedFrame DEF Decide, AuthorizeRetry, BlockTask
  <1>4. ASSUME NEW t \in Tasks, BeginRecovery(t) PROVE Numbered'
    <2>1. "indeterminate" \in ClaimEndings
      BY DEF ClaimEndings, ClaimStatuses
    <2> QED
      BY <1>0, <1>2, <1>4, <2>1, LatestClaim DEF BeginRecovery, Recoverable
  <1>5. ASSUME NEW t \in Tasks, NEW r \in BOOLEAN, Acknowledge(t, r) PROVE Numbered'
    BY <1>0, <1>3, <1>5, LatestClaim DEF Acknowledge, Recoverable
  <1>6. ASSUME NEW t \in Tasks, NEW r \in BOOLEAN, FinishRecovery(t, r) PROVE Numbered'
    BY <1>0, <1>3, <1>6 DEF FinishRecovery, TypeOK
  <1>7. ASSUME NEW c \in ClaimIds, NEW s \in ClaimEndings, Ends(c, s) PROVE Numbered'
    BY <1>2, <1>7 DEF Ends, WorkerEndsClaim
  <1>8. CASE UNCHANGED <<attempts, leaseGeneration, claimWorker, claimStatus>>
             /\ workers \subseteq workers'
    BY <1>8, NumberedFrame
  <1> QED
    BY StepCases, <1>1, <1>4, <1>5, <1>6, <1>7, <1>8 DEF vars, RegisterWorker, Renew,
       PublishArtifact, CancelAck, CancelRequest, InterruptRecovery, AdvanceDelivery,
       Close, SetClock

\* An unclaimed task that is not settled may be claimed, once its dependencies are
\* complete, as long as there are attempts left.
LEMMA UnclaimedMoves ==
    ASSUME Inv, Numbered, NEW t \in Tasks, NoActiveAttempt(t), DependenciesComplete(t),
           terminal[t] = "none", attempts[t] < MaxAttempts
    PROVE  Claimable(t)
  <1> DEFINE n == attempts[t] + 1
  <1>1. attempts[t] \in Nat /\ n \in Attempts
    BY BoundsAssumption DEF Inv, TypeOK, Attempts
  <1>2. NextGeneration(t, n)
    BY <1>1, NextIsNumber DEF Inv
  <1>3. now \in Nat /\ MaxLease \in Nat \ {0}
    BY BoundsAssumption, ClockAssumption DEF Inv, TypeOK
  <1>4. now + 1 \in Expiries /\ now + 1 > now /\ now + 1 <= now + MaxLease
    BY <1>3 DEF Expiries
  <1>5. RetryAllowed(t)
    BY DEF RetryAllowed
  <1> QED
    BY <1>1, <1>2, <1>4, <1>5 DEF Claimable, ClaimCommon

\* A claimed task is ended by its worker while the lease runs, and decided by a
\* human afterwards, unless an earlier attempt failed.
LEMMA ClaimedMoves ==
    ASSUME Inv, Numbered, ~closed, NEW t \in Tasks, attempts[t] > 0,
           claimStatus[Latest(t)] = "active", terminal[t] # "failed"
    PROVE  Endable(t) \/ Decidable(t)
  <1> DEFINE c == Latest(t)
  <1>1. c \in ClaimIds /\ TaskOf(c) = t /\ AttemptOf(c) = attempts[t]
    BY LatestClaim DEF Inv
  <1>2. terminal[t] = "none"
    BY DEF Inv, OutcomeExplained, TypeOK, TaskTerminals
  <1>3. Terminable(c)
    BY <1>1, <1>2 DEF Terminable
  <1>4. CASE Live(c)
    <2>1. Issued(c) /\ AttemptOf(c) \in Attempts
      BY <1>1, ClaimPairs, BoundsAssumption DEF Issued, Attempts
    <2>2. claimWorker[c] \in workers /\ leaseGeneration[c] \in Attempts
      BY <1>1, <2>1 DEF Numbered
    <2>3. ClaimForUpdate(claimWorker[c], c, leaseGeneration[c])
      BY <1>4 DEF ClaimForUpdate, Live
    <2> QED
      BY <1>3, <2>2, <2>3 DEF Endable
  <1>5. CASE ~Live(c)
    BY <1>2, <1>3, <1>5 DEF Decidable, Recoverable
  <1> QED
    BY <1>4, <1>5

\* What is left of a claim that is over: an outcome that settles the task, an
\* uncertainty that a human may resolve, or nothing, and the task is free.
LEMMA OverMoves ==
    ASSUME Inv, ~closed, NEW t \in Tasks, attempts[t] > 0, NoActiveAttempt(t)
    PROVE  Settled(t) \/ Decidable(t) \/ terminal[t] = "none"
  <1>1. Latest(t) \in ClaimIds /\ claimStatus[Latest(t)] # "active"
    BY LatestClaim, BoundsAssumption DEF Inv, NoActiveAttempt, Latest, TypeOK
  <1>2. terminal[t] \in TaskTerminals
    BY DEF Inv, TypeOK
  <1>3. CASE terminal[t] = "indeterminate"
    <2>1. claimStatus[Latest(t)] = "indeterminate"
      BY <1>3 DEF Inv, OutcomeExplained
    <2>2. ~retryAuthorized[t]
      BY <1>3 DEF Inv, RetryIsPending
    <2> QED
      BY <1>3, <2>1, <2>2 DEF Decidable, Recoverable, Live
  <1> QED
    BY <1>2, <1>3 DEF Settled, TaskTerminals

\* In a run that is open and has a worker nothing is ever stuck but in the two dead
\* ends, whatever dependencies, leases, clock readings and interrupted recoveries
\* (_claim_common, _apply_record, acknowledge_indeterminate).
THEOREM OnlyTwoDeadEnds == Spec => []NoThirdDeadEnd
  <1>1. Init => Numbered
    <2> SUFFICES ASSUME Init PROVE Numbered
      OBVIOUS
    <2>1. \A c \in ClaimIds : ~Issued(c) /\ claimStatus[c] # "active"
      BY ClaimPairs DEF Init, Issued, Attempts
    <2> QED
      BY <2>1 DEF Numbered
  <1>2. Inv /\ Numbered /\ [Next]_vars => Numbered'
    BY NumberedStep
  <1>3. Inv /\ Numbered => NoThirdDeadEnd
    <2> SUFFICES ASSUME Inv, Numbered, ~closed, NEW t \in Tasks,
                        ~Settled(t), ~FailedAndRetried(t), ~OutOfAttempts(t),
                        attempts[t] = 0 => DependenciesComplete(t)
                 PROVE  Movable(t)
      BY DEF NoThirdDeadEnd, Mutable
    <2>1. attempts[t] \in 0..MaxAttempts /\ MaxAttempts \in Nat \ {0}
      BY BoundsAssumption DEF Inv, TypeOK
    <2>2. CASE attempts[t] = 0
      <3>1. NoActiveAttempt(t) /\ terminal[t] = "none"
        BY <2>2 DEF NoActiveAttempt, Inv, OutcomeExplained
      <3> QED
        BY <2>1, <2>2, <3>1, UnclaimedMoves DEF Movable
    <2>3. CASE attempts[t] > 0 /\ NoActiveAttempt(t)
      <3>1. DependenciesComplete(t)
        BY <2>3 DEF Inv, DependenciesHold, DependenciesComplete
      <3>2. terminal[t] = "none" => attempts[t] < MaxAttempts
        BY <2>1, <2>3 DEF OutOfAttempts
      <3> QED
        BY <2>3, <3>1, <3>2, OverMoves, UnclaimedMoves DEF Movable
    <2>4. CASE attempts[t] > 0 /\ ~NoActiveAttempt(t)
      <3>1. PICK n \in 1..attempts[t] : claimStatus[<<t, n>>] = "active"
        BY <2>4 DEF NoActiveAttempt
      <3>2. n \in Attempts
        BY <2>1, <3>1 DEF Attempts
      <3>3. claimStatus[Latest(t)] = "active"
        BY <3>1, <3>2, ClaimPairs DEF Inv, OneActiveAttempt
      <3>4. terminal[t] # "failed"
        BY <2>4 DEF FailedAndRetried
      <3> QED
        BY <2>4, <3>3, <3>4, ClaimedMoves DEF Movable
    <2> QED
      BY <2>1, <2>2, <2>3, <2>4
  <1> QED
    BY <1>1, <1>2, <1>3, Invariance, PTL DEF Spec

-----------------------------------------------------------------------------
(* The coordinator implements the task ledger. *)

PhaseMap == [t \in Tasks |-> Phase(t)]

\* A completed task is in phase completed: no later attempt is active.
LEMMA CompletedPhase ==
    ASSUME Inv, NEW d \in Tasks, terminal[d] = "completed"
    PROVE  Phase(d) = "completed"
  BY DEF Inv, OutcomeExplained, Phase, TypeOK

\* A change of one task's claims and outcome moves that task's phase only.
LEMMA PhaseMove ==
    ASSUME TypeOK, NEW t \in Tasks, NEW p,
           Phase(t)' = p,
           \A u \in Tasks : u # t => Phase(u)' = Phase(u)
    PROVE  PhaseMap' = [PhaseMap EXCEPT ![t] = p]
  BY DEF PhaseMap

\* The phase of a task depends on its attempts, its outcome and its latest claim.
LEMMA PhaseFrame ==
    ASSUME TypeOK, NEW u \in Tasks,
           attempts'[u] = attempts[u], terminal'[u] = terminal[u],
           attempts[u] > 0 => claimStatus'[Latest(u)] = claimStatus[Latest(u)]
    PROVE  Phase(u)' = Phase(u)
  BY DEF Phase, Latest

\* A change of a task's latest claim to one that is not active.
LEMMA PhaseOfEnd ==
    ASSUME TypeOK, NEW t \in Tasks, Latest(t) \in ClaimIds, NEW s \in ClaimEndings,
           EndClaim(Latest(t), s), s = "released" => terminal[t] = "none"
    PROVE  PhaseMap' = [PhaseMap EXCEPT ![t] = IF s = "released" THEN "open" ELSE s]
  <1>1. TaskOf(Latest(t)) = t
    BY DEF Latest, TaskOf
  <1>2. /\ attempts' = attempts
        /\ claimStatus'[Latest(t)] = s
        /\ \A c \in ClaimIds : c # Latest(t) => claimStatus'[c] = claimStatus[c]
        /\ terminal'[t] = IF s = "released" THEN "none" ELSE s
        /\ \A u \in Tasks : u # t => terminal'[u] = terminal[u]
    BY <1>1 DEF EndClaim, TypeOK
  <1>3. Phase(t)' = IF s = "released" THEN "open" ELSE s
    BY <1>2 DEF Phase, Latest, ClaimEndings, ClaimStatuses
  <1>4. ASSUME NEW u \in Tasks, u # t PROVE Phase(u)' = Phase(u)
    <2>1. attempts[u] > 0 => Latest(u) \in ClaimIds /\ Latest(u) # Latest(t)
      BY <1>4, LatestClaim DEF Latest
    <2> QED
      BY <1>2, <1>4, <2>1, PhaseFrame
  <1> QED
    BY <1>3, <1>4, PhaseMove

\* A human decision is a pardon or a block of an uncertain task.
LEMMA DecisionPhase ==
    ASSUME Inv, NEW t \in Tasks, NEW r \in BOOLEAN, Latest(t) \in ClaimIds,
           attempts[t] > 0, Decide(t, r), ~closed, UNCHANGED closed,
           claimStatus[Latest(t)] # "active", ~retryAuthorized[t]
    PROVE  Ledger!Block(t) \/ Ledger!Pardon(t)
  <1>0. TypeOK
    BY DEF Inv
  <1>1. Phase(t) = terminal[t] /\ terminal[t] = claimStatus[Latest(t)]
    BY DEF Inv, OutcomeExplained, Decide, AuthorizeRetry, BlockTask, Phase
  <1>2. CASE r
    <2>1. /\ terminal'[t] = "none" /\ attempts' = attempts /\ claimStatus' = claimStatus
          /\ terminal[t] \in {"indeterminate", "blocked"}
          /\ \A u \in Tasks : u # t => terminal'[u] = terminal[u]
      BY <1>0, <1>2 DEF Decide, AuthorizeRetry, claimVars, TypeOK
    <2>2. Phase(t)' = "open" /\ \A u \in Tasks : u # t => Phase(u)' = Phase(u)
      BY <2>1 DEF Phase, Latest
    <2>3. PhaseMap' = [PhaseMap EXCEPT ![t] = "open"]
      BY <1>0, <2>2, PhaseMove
    <2> QED
      BY <1>1, <2>1, <2>3 DEF Ledger!Pardon, Ledger!Move, Ledger!Uncertain, PhaseMap
  <1>3. CASE ~r
    <2>1. /\ EndClaim(Latest(t), "blocked") /\ "blocked" \in ClaimEndings
          /\ terminal[t] = "indeterminate"
      BY <1>1, <1>3 DEF Decide, BlockTask, ClaimEndings, ClaimStatuses
    <2>2. PhaseMap' = [PhaseMap EXCEPT ![t] = "blocked"] /\ attempts' = attempts
      BY <1>0, <2>1, PhaseOfEnd DEF EndClaim
    <2> QED
      BY <1>1, <2>1, <2>2 DEF Ledger!Block, Ledger!Move, PhaseMap
  <1> QED
    BY <1>2, <1>3

\* Granting a claim starts work on an open or failed task.
LEMMA GrantPhase ==
    ASSUME Inv, NEW t \in Tasks, NEW n \in Attempts, Grants(t, n)
    PROVE  Ledger!Start(t)
  <1>0. TypeOK /\ OutcomeExplained /\ RetryIsPending
    BY DEF Inv
  <1>1. PICK w \in Workers, g \in Attempts, e \in Expiries : GrantClaim(w, t, n, g, e)
    BY DEF Grants
  <1>2. /\ ClaimCommon(t, n, g, e) /\ ~closed /\ closed' = closed
        /\ attempts' = [attempts EXCEPT ![t] = n]
        /\ claimStatus' = [claimStatus EXCEPT ![<<t, n>>] = "active"]
        /\ terminal' = terminal
    BY <1>1 DEF GrantClaim, Mutable, runVars
  <1>3. n = attempts[t] + 1 /\ <<t, n>> \in ClaimIds /\ attempts[t] \in Nat /\ n <= MaxAttempts
    BY <1>0, <1>2, ClaimPairs, BoundsAssumption DEF ClaimCommon, TypeOK, Attempts
  <1>4. Phase(t) \in {"open", "failed"}
    <2>1. attempts[t] > 0 => claimStatus[Latest(t)] # "active"
      BY <1>2, <1>3 DEF ClaimCommon, NoActiveAttempt, Latest
    <2>2. terminal[t] \in {"none", "failed"}
      BY <1>0, <1>2 DEF ClaimCommon, RetryAllowed, RetryIsPending, TypeOK, TaskTerminals
    <2> QED
      BY <2>1, <2>2 DEF Phase
  <1>5. Phase(t)' = "working"
    BY <1>0, <1>2, <1>3 DEF Phase, Latest, TypeOK
  <1>6. ASSUME NEW u \in Tasks, u # t PROVE Phase(u)' = Phase(u)
    <2>1. attempts[u] > 0 => Latest(u) \in ClaimIds /\ Latest(u) # <<t, n>>
      BY <1>0, <1>6, LatestClaim DEF Latest
    <2>2. attempts'[u] = attempts[u] /\ terminal'[u] = terminal[u]
      BY <1>0, <1>2, <1>6 DEF TypeOK
    <2>3. attempts[u] > 0 => claimStatus'[Latest(u)] = claimStatus[Latest(u)]
      BY <1>0, <1>2, <2>1 DEF TypeOK
    <2> QED
      BY <1>0, <2>2, <2>3, PhaseFrame
  <1>7. \A d \in DependsOn[t] : Phase(d) = "completed" /\ d \in Tasks
    BY <1>2, CompletedPhase, TasksAssumption DEF ClaimCommon, DependenciesComplete
  <1>8. PhaseMap' = [PhaseMap EXCEPT ![t] = "working"]
    BY <1>0, <1>5, <1>6, PhaseMove
  <1> QED
    <2>1. Ledger!Move(t, {"open", "failed"}, "working")
      BY <1>2, <1>4, <1>8 DEF Ledger!Move, PhaseMap
    <2>2. attempts[t] < MaxAttempts /\ attempts' = [attempts EXCEPT ![t] = @ + 1]
      BY <1>2, <1>3, BoundsAssumption
    <2>3. \A d \in DependsOn[t] : PhaseMap[d] = "completed"
      BY <1>7 DEF PhaseMap
    <2> QED
      BY <2>1, <2>2, <2>3 DEF Ledger!Start, PhaseMap

\* A step that leaves attempts, outcomes, claim states and the run's end alone
\* is a stutter of the ledger.
LEMMA LedgerStutter ==
    ASSUME UNCHANGED <<attempts, terminal, claimStatus, closed>>
    PROVE  UNCHANGED Ledger!ledger
  BY DEF Ledger!ledger, Phase, Latest

\* Every step is a step of the ledger or a stutter.
LEMMA LedgerStep ==
    ASSUME Inv, [Next]_vars
    PROVE  [Ledger!Next]_(Ledger!ledger)
  <1> DEFINE Goal == [Ledger!Next]_(Ledger!ledger)
  <1>0. TypeOK
    BY DEF Inv
  <1>1. CASE UNCHANGED <<attempts, terminal, claimStatus, closed>>
    BY <1>1, LedgerStutter
  <1>2. ASSUME NEW t \in Tasks, NEW n \in Attempts, Grants(t, n) PROVE Goal
    BY <1>2, GrantPhase DEF Ledger!Next
  <1>3. ASSUME NEW c \in ClaimIds, NEW s \in ClaimEndings, EndClaim(c, s), c = Latest(TaskOf(c)),
               claimStatus[c] = "active", terminal[TaskOf(c)] = "none",
               ~closed, UNCHANGED closed
        PROVE  Goal
    <2> DEFINE t == TaskOf(c)
               to == IF s = "released" THEN "open" ELSE s
    <2>1. t \in Tasks /\ Latest(t) \in ClaimIds
      BY <1>3, ClaimPairs
    <2>2. attempts[t] > 0
      BY <1>3, <2>1, ClaimPairs, BoundsAssumption DEF Latest, Attempts, AttemptOf
    <2>3. PhaseMap' = [PhaseMap EXCEPT ![t] = to] /\ attempts' = attempts
      BY <1>0, <1>3, <2>1, PhaseOfEnd DEF EndClaim
    <2>4. Phase(t) = "working"
      BY <1>3, <2>2 DEF Phase
    <2>5. to \in Ledger!Phases \ {"working"}
      BY DEF ClaimEndings, ClaimStatuses, Ledger!Phases
    <2>6. Ledger!Stop(t, to)
      BY <1>3, <2>1, <2>3, <2>4, <2>5 DEF Ledger!Stop, Ledger!Move, PhaseMap
    <2> QED
      BY <2>1, <2>5, <2>6 DEF Ledger!Next
  <1>4. ASSUME NEW c \in ClaimIds, NEW s \in ClaimEndings, Ends(c, s) PROVE Goal
    BY <1>3, <1>4 DEF Ends, WorkerEndsClaim, Mutable, Terminable, ClaimForUpdate, runVars
  <1>5. ASSUME NEW t \in Tasks, BeginRecovery(t) PROVE Goal
    <2>1. Latest(t) \in ClaimIds /\ TaskOf(Latest(t)) = t
      BY <1>0, <1>5, LatestClaim DEF BeginRecovery, Recoverable
    <2> QED
      BY <1>3, <1>5, <2>1 DEF BeginRecovery, Recoverable, Terminable, runVars, ClaimEndings,
         ClaimStatuses
  <1>6. ASSUME NEW t \in Tasks, NEW r \in BOOLEAN, Acknowledge(t, r) PROVE Goal
    <2>1. Latest(t) \in ClaimIds
      BY <1>0, <1>6, LatestClaim DEF Acknowledge, Recoverable
    <2> QED
      BY <1>6, <2>1, DecisionPhase DEF Acknowledge, Recoverable, runVars, Ledger!Next
  <1>7. ASSUME NEW t \in Tasks, NEW r \in BOOLEAN, FinishRecovery(t, r) PROVE Goal
    <2>1. Latest(t) \in ClaimIds /\ Latest(t) \in recovering /\ TaskOf(Latest(t)) = t
          /\ AttemptOf(Latest(t)) = attempts[t]
      BY <1>0, <1>7 DEF FinishRecovery, TypeOK, Latest, TaskOf, AttemptOf
    <2>2. ~closed /\ claimStatus[Latest(t)] = "indeterminate" /\ terminal[t] = "indeterminate"
      BY <2>1 DEF Inv, RecoveryUndecided
    <2>3. attempts[t] > 0 /\ ~retryAuthorized[t]
      BY <2>1, <2>2, ClaimPairs, BoundsAssumption DEF Inv, RetryIsPending, Attempts
    <2> QED
      BY <1>7, <2>1, <2>2, <2>3, DecisionPhase DEF FinishRecovery, runVars, Ledger!Next
  <1>8. CASE Close
    <2>1. \A t \in Tasks : Phase(t) \in Ledger!Settled
      <3> SUFFICES ASSUME NEW t \in Tasks PROVE Phase(t) \in Ledger!Settled
        OBVIOUS
      <3>1. ~(attempts[t] > 0 /\ claimStatus[Latest(t)] = "active")
        BY <1>0, <1>8, LatestClaim DEF Close
      <3> QED
        BY <1>8, <3>1 DEF Close, Phase, Ledger!Settled
    <2>2. PhaseMap' = PhaseMap /\ attempts' = attempts
      BY <1>8 DEF Close, taskVars, claimVars, PhaseMap, Phase, Latest
    <2>3. Ledger!End
      BY <1>8, <2>1, <2>2 DEF Close, Mutable, Ledger!End, PhaseMap
    <2> QED
      BY <2>3 DEF Ledger!Next
  <1> QED
    BY StepCases, <1>1, <1>2, <1>4, <1>5, <1>6, <1>7, <1>8 DEF vars, RegisterWorker, Renew,
       PublishArtifact, CancelAck, CancelRequest, InterruptRecovery, AdvanceDelivery,
       SetClock, taskVars, claimVars, runVars

\* The coordinator is a refinement of the task ledger: with claims, leases,
\* clocks, cancellations and interrupted recoveries, each task still lives the
\* life the ledger allows.
THEOREM Refinement == Spec => LedgerSpec
  <1>1. Init => Ledger!Init
    <2> SUFFICES ASSUME Init PROVE Ledger!Init
      OBVIOUS
    <2>1. \A t \in Tasks : Phase(t) = "open"
      BY DEF Init, Phase
    <2> QED
      BY <2>1 DEF Init, Ledger!Init
  <1> QED
    BY <1>1, LedgerStep, Invariance, PTL DEF Spec, LedgerSpec, Ledger!Spec

-----------------------------------------------------------------------------
(* Frames: messages that are repeated, delayed and unanswered. *)

\* What a frame may hold.
LEMMA FrameShape ==
    ASSUME NEW f \in Frames
    PROVE  /\ f.worker \in Workers
           /\ f.type # "none"
           /\ f.type # "register" => f.claim \in ClaimIds /\ f.generation \in Attempts
           /\ f.type \in {"claim", "admit", "renew"} => f.expires \in Expiries
           /\ f.type = "publish" => f.artifact \in Artifacts
  BY DEF Frames, Endings

\* A frame does to the coordinator what one of its operations does.
LEMMA EffectIsStep ==
    ASSUME NEW f \in Frames, Effect(f)
    PROVE  Next
  <1>1. CASE f.type = "register"
    BY <1>1, FrameShape DEF Effect, Endings, Next
  <1>2. CASE f.type \in {"claim", "admit"}
    <2>1. /\ TaskOf(f.claim) \in Tasks /\ AttemptOf(f.claim) \in Attempts
          /\ f.worker \in Workers /\ f.generation \in Attempts /\ f.expires \in Expiries
      BY <1>2, FrameShape, ClaimPairs
    <2>2. StartAttempt(TaskOf(f.claim))
      BY <1>2, <2>1 DEF Effect, StartAttempt
    <2> QED
      BY <2>1, <2>2 DEF Next
  <1>3. CASE f.type \notin {"register", "claim", "admit", "cancel"}
    <2>1. f.claim \in ClaimIds /\ f.worker \in Workers /\ f.generation \in Attempts
      BY <1>3, FrameShape
    <2>2. WorkerFrame(f.claim)
      BY <1>3, <2>1, FrameShape DEF Effect, WorkerFrame
    <2> QED
      BY <2>1, <2>2 DEF Next
  <1>4. CASE f.type = "cancel"
    BY <1>4, FrameShape DEF Effect, Next
  <1> QED
    BY <1>1, <1>2, <1>3, <1>4

\* Every step of the frames is a step of the coordinator, or none.
LEMMA FramesStep ==
    ASSUME [FramesNext]_frameVars
    PROVE  [Next]_vars
  <1>1. ASSUME NEW m \in MessageIds, NEW f \in Frames, Deliver(m, f) PROVE Next
    BY <1>1, EffectIsStep DEF Deliver
  <1>2. ASSUME Unframed PROVE Next
    BY <1>2 DEF Unframed, Next
  <1> QED
    BY <1>1, <1>2 DEF FramesNext, Redeliver, frameVars

\* So everything proved of the coordinator holds with frames.
THEOREM FramesImplementCoordinator == FramesSpec => Spec
  <1>1. FramesInit => Init
    BY DEF FramesInit
  <1>2. [FramesNext]_frameVars => [Next]_vars
    BY FramesStep
  <1> QED
    BY <1>1, <1>2, PTL DEF FramesSpec, Spec

\* What a step keeps of a claim that was issued, and of the run: nothing an
\* answer speaks of is taken back.
LEMMA RecordsKept ==
    ASSUME Inv, [Next]_vars
    PROVE  /\ workers \subseteq workers'
           /\ published \subseteq published'
           /\ \A c \in ClaimIds : Issued(c) =>
                 /\ Issued(c)'
                 /\ claimWorker'[c] = claimWorker[c]
                 /\ leaseGeneration'[c] = leaseGeneration[c]
                 /\ renewals'[c] >= renewals[c]
                 /\ cancelRequested[c] => cancelRequested'[c]
                 /\ cancelAcknowledged[c] => cancelAcknowledged'[c]
  <1> USE DEF taskVars, claimVars, leaseVars, cancelVars, humanVars, runVars
  <1>0. TypeOK
    BY DEF Inv
  <1>a. \A c \in ClaimIds : TaskOf(c) \in Tasks /\ AttemptOf(c) \in Nat /\ renewals[c] \in Nat
    BY <1>0, ClaimPairs, BoundsAssumption DEF TypeOK, Attempts
  <1> DEFINE Kept == /\ workers \subseteq workers'
                     /\ published \subseteq published'
                     /\ \A c \in ClaimIds : Issued(c) =>
                           /\ Issued(c)'
                           /\ claimWorker'[c] = claimWorker[c]
                           /\ leaseGeneration'[c] = leaseGeneration[c]
                           /\ renewals'[c] >= renewals[c]
                           /\ cancelRequested[c] => cancelRequested'[c]
                           /\ cancelAcknowledged[c] => cancelAcknowledged'[c]
  <1>1. CASE UNCHANGED <<workers, published, attempts, leaseVars, cancelVars>>
    BY <1>a, <1>1 DEF Issued
  <1>2. ASSUME NEW w \in Workers, RegisterWorker(w) PROVE Kept
    BY <1>a, <1>2 DEF RegisterWorker, Issued
  <1>3. ASSUME NEW t \in Tasks, NEW n \in Attempts, Grants(t, n) PROVE Kept
    <2>1. PICK w \in Workers, g \in Attempts, e \in Expiries : GrantClaim(w, t, n, g, e)
      BY <1>3 DEF Grants
    <2>2. UNCHANGED <<workers, published, renewals, cancelVars>>
      BY <2>1 DEF GrantClaim
    <2> SUFFICES ASSUME NEW c \in ClaimIds, Issued(c)
                 PROVE  /\ Issued(c)'
                        /\ claimWorker'[c] = claimWorker[c]
                        /\ leaseGeneration'[c] = leaseGeneration[c]
      BY <1>a, <2>2
    <2>3. attempts[t] \in Nat /\ n = attempts[t] + 1
      BY <1>0, <2>1, BoundsAssumption DEF GrantClaim, ClaimCommon, TypeOK
    <2>4. c # <<t, n>>
      BY <2>3, ClaimPairs DEF Issued
    <2>5. Issued(c)'
      BY <1>0, <1>a, <2>1, <2>3 DEF GrantClaim, Issued, TypeOK
    <2> QED
      BY <1>0, <2>1, <2>4, <2>5 DEF GrantClaim, TypeOK
  <1>4. ASSUME NEW w \in Workers, NEW d \in ClaimIds, NEW g \in Attempts, NEW e \in Expiries,
               Renew(w, d, g, e)
        PROVE  Kept
    BY <1>0, <1>a, <1>4 DEF Renew, Issued, TypeOK
  <1>5. ASSUME NEW w \in Workers, NEW d \in ClaimIds, NEW g \in Attempts, NEW a \in Artifacts,
               PublishArtifact(w, d, g, a)
        PROVE  Kept
    BY <1>a, <1>5 DEF PublishArtifact, Issued
  <1>6. ASSUME NEW d \in ClaimIds, NEW g \in Attempts, CancelRequest(d, g) PROVE Kept
    BY <1>0, <1>a, <1>6 DEF CancelRequest, Issued, TypeOK
  <1>7. ASSUME NEW w \in Workers, NEW d \in ClaimIds, NEW g \in Attempts, CancelAck(w, d, g)
        PROVE  Kept
    BY <1>0, <1>a, <1>7 DEF CancelAck, Issued, TypeOK
  <1> QED
    BY StepCases, <1>1, <1>2, <1>3, <1>4, <1>5, <1>6, <1>7 DEF vars, Ends,
       WorkerEndsClaim, EndClaim, Acknowledge, BeginRecovery, FinishRecovery, Decide,
       AuthorizeRetry, BlockTask, InterruptRecovery, AdvanceDelivery, Close, SetClock

\* The claim of a frame on record was issued.
ClaimKnown(f) == f.type # "register" => f.claim \in ClaimIds /\ Issued(f.claim)

\* What a frame did stays done.
LEMMA EffectStays ==
    ASSUME Inv, [Next]_vars, NEW f, NEW n \in Nat,
           ClaimKnown(f), InEffect(f, n)
    PROVE  ClaimKnown(f)' /\ InEffect(f, n)'
  <1>1. CASE f.type = "register"
    BY <1>1, RecordsKept DEF ClaimKnown, InEffect
  <1>2. CASE f.type # "register"
    <2>1. f.claim \in ClaimIds /\ Issued(f.claim)
      BY <1>2 DEF ClaimKnown
    <2>2. /\ Issued(f.claim)'
          /\ claimWorker'[f.claim] = claimWorker[f.claim]
          /\ leaseGeneration'[f.claim] = leaseGeneration[f.claim]
          /\ renewals'[f.claim] >= renewals[f.claim]
          /\ cancelRequested[f.claim] => cancelRequested'[f.claim]
          /\ cancelAcknowledged[f.claim] => cancelAcknowledged'[f.claim]
          /\ published \subseteq published'
      BY <2>1, RecordsKept
    <2>3. renewals[f.claim] \in Nat /\ renewals'[f.claim] \in Nat
      BY <2>1, TypeStep, BoundsAssumption DEF Inv, TypeOK
    <2>4. \/ claimStatus'[f.claim] = claimStatus[f.claim]
          \/ claimStatus[f.claim] = "active"
          \/ /\ claimStatus[f.claim] = "indeterminate"
             /\ claimStatus'[f.claim] \in {"indeterminate", "blocked"}
      BY <2>1, StatusMoves DEF Live, Inv, IssuedInOrder
    <2>5. ClaimKnown(f)'
      BY <2>1, <2>2 DEF ClaimKnown
    <2>6. f.type = "renew" => renewals'[f.claim] >= n
      BY <2>2, <2>3 DEF InEffect
    <2> QED
      BY <1>2, <2>2, <2>4, <2>5, <2>6 DEF InEffect
  <1> QED
    BY <1>1, <1>2

\* What a frame does is in effect when it is on record.
LEMMA EffectTakes ==
    ASSUME Inv, NEW f \in Frames, Effect(f), NEW n, n = ResponseNumber(f)
    PROVE  n \in Nat /\ ClaimKnown(f)' /\ InEffect(f, n)'
  <1>0. TypeOK /\ IssuedInOrder
    BY DEF Inv
  <1>1. CASE f.type = "register"
    BY <1>1 DEF Effect, Endings, RegisterWorker, ClaimKnown, InEffect, ResponseNumber
  <1>2. CASE f.type # "register"
    <2> DEFINE c == f.claim
    <2>1. c \in ClaimIds /\ TaskOf(c) \in Tasks /\ AttemptOf(c) \in Attempts
          /\ c = <<TaskOf(c), AttemptOf(c)>>
      BY <1>2, FrameShape, ClaimPairs
    <2>2. renewals[c] \in Nat /\ n \in Nat
      BY <1>0, <2>1, BoundsAssumption DEF TypeOK, ResponseNumber
    <2>3. CASE f.type \in {"claim", "admit"}
      <3>1. GrantClaim(f.worker, TaskOf(c), AttemptOf(c), f.generation, f.expires)
        BY <2>3 DEF Effect, Claim, AdmitClaim
      <3>2. /\ attempts'[TaskOf(c)] = AttemptOf(c)
            /\ claimWorker'[c] = f.worker
            /\ leaseGeneration'[c] = f.generation
        BY <1>0, <2>1, <3>1 DEF GrantClaim, TypeOK
      <3>3. ClaimKnown(f)'
        BY <2>1, <3>2 DEF ClaimKnown, Issued, Attempts
      <3> QED
        BY <2>2, <2>3, <3>2, <3>3 DEF InEffect
    <2>4. CASE f.type \notin {"claim", "admit"}
      <3>1. claimStatus[c] = "active" /\ UNCHANGED attempts
        BY <1>2, <2>4, FrameShape DEF Effect, Renew, PublishArtifact, Complete, Fail, Block, Release,
           CancelOutcome, CancelRequest, CancelAck, WorkerEndsClaim, EndClaim,
           ClaimForUpdate, Live, taskVars, Frames, Endings
      <3>2. ClaimKnown(f)'
        BY <1>0, <2>1, <3>1 DEF ClaimKnown, IssuedInOrder, Issued
      <3>3. CASE f.type = "renew"
        BY <1>0, <2>1, <2>2, <3>2, <3>3 DEF Effect, Renew, InEffect, ResponseNumber, TypeOK
      <3>4. CASE f.type = "publish"
        BY <2>2, <3>2, <3>4 DEF Effect, PublishArtifact, InEffect
      <3>5. CASE f.type \in {"cancel", "ack_cancel"}
        BY <1>0, <2>1, <2>2, <3>2, <3>5 DEF Effect, CancelRequest, CancelAck, InEffect, TypeOK
      <3>6. CASE f.type \in Endings
        BY <1>0, <2>1, <2>2, <3>2, <3>6 DEF Effect, Complete, Fail, Block, Release,
           CancelOutcome, WorkerEndsClaim, EndClaim, InEffect, Endings, TypeOK
      <3> QED
        BY <1>2, <2>4, <3>3, <3>4, <3>5, <3>6 DEF Frames
    <2> QED
      BY <2>3, <2>4
  <1> QED
    BY <1>1, <1>2

-----------------------------------------------------------------------------
(* Counting: each message on record has its effect, each effect its message. *)

\* Only a grant moves an attempt counter, only a renewal a renewal counter,
\* only a publication the artifacts, each by one.
LEMMA WhatFramesCount ==
    ASSUME Inv, NEW f \in Frames, Effect(f)
    PROVE  /\ \A t \in Tasks :
                 attempts'[t] = IF f.type \in {"claim", "admit"} /\ TaskOf(f.claim) = t
                                THEN attempts[t] + 1 ELSE attempts[t]
           /\ \A c \in ClaimIds :
                 renewals'[c] = IF f.type = "renew" /\ f.claim = c
                                THEN renewals[c] + 1 ELSE renewals[c]
           /\ IF f.type = "publish"
              THEN \E p : p \notin published /\ published' = published \cup {p}
              ELSE published' = published
  <1> USE DEF taskVars, claimVars, leaseVars, cancelVars, humanVars, runVars
  <1>0. TypeOK
    BY DEF Inv
  <1>1. CASE f.type \in {"claim", "admit"}
    <2>1. /\ GrantClaim(f.worker, TaskOf(f.claim), AttemptOf(f.claim), f.generation, f.expires)
          /\ TaskOf(f.claim) \in Tasks
      BY <1>1, FrameShape, ClaimPairs DEF Effect, Claim, AdmitClaim
    <2> QED
      BY <1>0, <1>1, <2>1 DEF GrantClaim, ClaimCommon, TypeOK
  <1>2. CASE f.type = "renew"
    BY <1>0, <1>2, FrameShape DEF Effect, Renew, TypeOK
  <1>3. CASE f.type = "publish"
    <2>1. PublishArtifact(f.worker, f.claim, f.generation, f.artifact)
      BY <1>3 DEF Effect
    <2>2. <<f.artifact, f.claim>> \notin published
      BY <2>1 DEF PublishArtifact, Unpublished
    <2> QED
      BY <1>3, <2>1, <2>2 DEF PublishArtifact
  <1>4. CASE f.type \notin {"claim", "admit", "renew", "publish"}
    <2>1. UNCHANGED <<attempts, renewals, published>>
      BY <1>4, FrameShape DEF Effect, RegisterWorker, Complete, Fail, Block, Release,
         CancelOutcome, CancelRequest, CancelAck, WorkerEndsClaim, EndClaim, Frames, Endings
    <2> QED
      BY <1>4, <2>1
  <1> QED
    BY <1>1, <1>2, <1>3, <1>4

\* Nothing but a frame moves what is counted.
LEMMA OnlyFramesCount ==
    ASSUME Unframed \/ (\E m \in MessageIds : Redeliver(m)) \/ UNCHANGED frameVars
    PROVE  UNCHANGED <<attempts, renewals, published, seen, number>>
  BY DEF Unframed, HumanDecision, Acknowledge, BeginRecovery, FinishRecovery, Decide,
     AuthorizeRetry, BlockTask, EndClaim, InterruptRecovery, AdvanceDelivery, Close,
     SetClock, Redeliver, frameVars, vars, taskVars, claimVars, leaseVars, runVars

\* Finitely many messages are on record and artifacts published, so that they
\* can be counted, in tables with a place for every message.
RecordsFinite ==
    /\ seen = [m \in MessageIds |-> seen[m]]
    /\ number \in [MessageIds -> Nat]
    /\ IsFiniteSet({m \in MessageIds : seen[m] # NoFrame})
    /\ IsFiniteSet(published)

\* What every recorded message did is in effect, answered or not.
RecordsInEffect ==
    \A m \in MessageIds :
        seen[m] # NoFrame =>
            /\ seen[m].type # "none"
            /\ ClaimKnown(seen[m])
            /\ InEffect(seen[m], number[m])

\* What was answered is what the record says.
AnswersRecorded ==
    \A a \in answers : \E m \in MessageIds : seen[m] # NoFrame /\ a = <<m, number[m]>>

FramesInv == RecordsFinite /\ RecordsInEffect /\ AnswersRecorded /\ ExactlyOnce

\* A message counts among those with a mark from the moment it is recorded.
LEMMA CountOneMore ==
    ASSUME NEW S, NEW T, NEW m, IsFiniteSet(S), m \notin S, NEW b \in BOOLEAN,
           T = IF b THEN S \cup {m} ELSE S
    PROVE  /\ IsFiniteSet(T)
           /\ Cardinality(T) = IF b THEN Cardinality(S) + 1 ELSE Cardinality(S)
  BY FS_AddElement

\* A new frame keeps each effect paired with its message.
LEMMA DeliverCounts ==
    ASSUME Inv, FramesInv, NEW m \in MessageIds, NEW f \in Frames, Deliver(m, f)
    PROVE  ExactlyOnce' /\ RecordsFinite'
  <1>1. /\ f.type # "none" /\ f # NoFrame
        /\ seen[m] = NoFrame /\ NoFrame.type = "none"
        /\ seen'[m] = f
        /\ \A k \in MessageIds : k # m => seen'[k] = seen[k]
        /\ seen' = [k \in MessageIds |-> seen'[k]]
    BY FrameShape DEF Deliver, Unrecorded, FramesInv, RecordsFinite, NoFrame
  <1>2. number' \in [MessageIds -> Nat]
    BY EffectTakes DEF Deliver, FramesInv, RecordsFinite
  <1> DEFINE R == {k \in MessageIds : seen[k] # NoFrame}
  <1>3. IsFiniteSet(R) /\ IsFiniteSet(published)
    BY DEF FramesInv, RecordsFinite
  <1>4. {k \in MessageIds : seen'[k] # NoFrame} = R \cup {m}
    BY <1>1
  <1>5. IsFiniteSet({k \in MessageIds : seen'[k] # NoFrame})
    BY <1>3, <1>4, FS_AddElement
  <1>6. ASSUME NEW types, "none" \notin types
        PROVE  /\ Recorded(types) \in SUBSET R
               /\ IsFiniteSet(Recorded(types))
               /\ m \notin Recorded(types)
               /\ Recorded(types)' = IF f.type \in types THEN Recorded(types) \cup {m}
                                     ELSE Recorded(types)
    <2>1. Recorded(types) \in SUBSET R /\ m \notin Recorded(types)
      BY <1>1, <1>6 DEF Recorded
    <2>2. IsFiniteSet(Recorded(types))
      BY <1>3, <2>1, FS_Subset
    <2>3. Recorded(types)' = IF f.type \in types THEN Recorded(types) \cup {m}
                             ELSE Recorded(types)
      BY <1>1, <1>6 DEF Recorded
    <2> QED
      BY <2>1, <2>2, <2>3
  <1>7. ASSUME NEW t \in Tasks PROVE attempts'[t] = Cardinality(StartsOf(t)')
    <2> DEFINE b == f.type \in {"claim", "admit"} /\ TaskOf(f.claim) = t
    <2>1. StartsOf(t) \in SUBSET Recorded({"claim", "admit"}) /\ m \notin StartsOf(t)
      BY <1>6 DEF StartsOf
    <2>2. IsFiniteSet(StartsOf(t))
      BY <1>6, <2>1, FS_Subset
    <2>3. StartsOf(t)' = IF b THEN StartsOf(t) \cup {m} ELSE StartsOf(t)
      BY <1>1, <1>6 DEF StartsOf
    <2>4. attempts[t] = Cardinality(StartsOf(t))
      BY DEF FramesInv, ExactlyOnce
    <2>5. attempts'[t] = IF b THEN attempts[t] + 1 ELSE attempts[t]
      BY WhatFramesCount DEF Deliver
    <2> HIDE DEF b
    <2>6. b \in BOOLEAN
      BY DEF b
    <2>7. Cardinality(StartsOf(t)') = IF b THEN Cardinality(StartsOf(t)) + 1
                                      ELSE Cardinality(StartsOf(t))
      BY <2>1, <2>2, <2>3, <2>6, CountOneMore
    <2> QED
      BY <2>4, <2>5, <2>7
  <1>8. ASSUME NEW c \in ClaimIds PROVE renewals'[c] = Cardinality(RenewalsOf(c)')
    <2> DEFINE b == f.type = "renew" /\ f.claim = c
    <2>1. RenewalsOf(c) \in SUBSET Recorded({"renew"}) /\ m \notin RenewalsOf(c)
      BY <1>6 DEF RenewalsOf
    <2>2. IsFiniteSet(RenewalsOf(c))
      BY <1>6, <2>1, FS_Subset
    <2>3. RenewalsOf(c)' = IF b THEN RenewalsOf(c) \cup {m} ELSE RenewalsOf(c)
      BY <1>1, <1>6 DEF RenewalsOf
    <2>4. renewals[c] = Cardinality(RenewalsOf(c))
      BY DEF FramesInv, ExactlyOnce
    <2>5. renewals'[c] = IF b THEN renewals[c] + 1 ELSE renewals[c]
      BY WhatFramesCount DEF Deliver
    <2> HIDE DEF b
    <2>6. b \in BOOLEAN
      BY DEF b
    <2>7. Cardinality(RenewalsOf(c)') = IF b THEN Cardinality(RenewalsOf(c)) + 1
                                        ELSE Cardinality(RenewalsOf(c))
      BY <2>1, <2>2, <2>3, <2>6, CountOneMore
    <2> QED
      BY <2>4, <2>5, <2>7
  <1>9. /\ IsFiniteSet(published')
        /\ Cardinality(published') = Cardinality(Recorded({"publish"})')
    <2>1. Cardinality(published) = Cardinality(Recorded({"publish"}))
      BY DEF FramesInv, ExactlyOnce
    <2>2. CASE f.type = "publish"
      <3>1. PICK p : p \notin published /\ published' = published \cup {p}
        BY <2>2, WhatFramesCount DEF Deliver
      <3>2. Recorded({"publish"})' = Recorded({"publish"}) \cup {m}
        BY <1>6, <2>2
      <3>3. Cardinality(published') = Cardinality(published) + 1 /\ IsFiniteSet(published')
        BY <1>3, <3>1, FS_AddElement
      <3>4. Cardinality(Recorded({"publish"})') = Cardinality(Recorded({"publish"})) + 1
        BY <1>6, <3>2, FS_AddElement
      <3> QED
        BY <2>1, <3>3, <3>4
    <2>3. CASE f.type # "publish"
      <3>1. published' = published
        BY <2>3, WhatFramesCount DEF Deliver
      <3>2. Recorded({"publish"})' = Recorded({"publish"})
        BY <1>6, <2>3
      <3> QED
        BY <1>3, <2>1, <3>1, <3>2
    <2> QED
      BY <2>2, <2>3
  <1>10. ExactlyOnce'
    BY <1>7, <1>8, <1>9 DEF ExactlyOnce
  <1> QED
    BY <1>1, <1>2, <1>5, <1>9, <1>10 DEF RecordsFinite

\* Every step keeps what is recorded in effect, and answered as recorded.
LEMMA FramesInvStep ==
    ASSUME Inv, FramesInv, [FramesNext]_frameVars
    PROVE  FramesInv'
  <1>1. [Next]_vars
    BY FramesStep
  <1>2. ASSUME UNCHANGED <<attempts, renewals, published, seen, number>>,
               AnswersRecorded'
        PROVE  FramesInv'
    <2>1. RecordsFinite' /\ ExactlyOnce'
      BY <1>2 DEF FramesInv, RecordsFinite, ExactlyOnce, StartsOf, RenewalsOf, Recorded
    <2>2. RecordsInEffect'
      <3> SUFFICES ASSUME NEW m \in MessageIds, seen[m] # NoFrame
                   PROVE  ClaimKnown(seen[m])' /\ InEffect(seen[m], number[m])'
                          /\ seen'[m].type # "none"
        BY <1>2 DEF RecordsInEffect
      <3>1. PICK f, n : f = seen[m] /\ n = number[m]
        OBVIOUS
      <3>2. n \in Nat /\ f.type # "none" /\ ClaimKnown(f) /\ InEffect(f, n)
        BY <3>1 DEF FramesInv, RecordsFinite, RecordsInEffect
      <3>3. ClaimKnown(f)' /\ InEffect(f, n)'
        BY <1>1, <3>2, EffectStays
      <3>4. f = seen'[m] /\ n = number'[m]
        BY <1>2, <3>1
      <3> QED
        BY <3>2, <3>3, <3>4 DEF ClaimKnown, InEffect
    <2> QED
      BY <1>2, <2>1, <2>2 DEF FramesInv
  <1>3. CASE Unframed \/ UNCHANGED frameVars
    <2>1. UNCHANGED <<attempts, renewals, published, seen, number, answers>>
      BY <1>3, OnlyFramesCount DEF Unframed, frameVars
    <2>2. AnswersRecorded'
      BY <2>1 DEF FramesInv, AnswersRecorded
    <2> QED
      BY <1>2, <2>1, <2>2
  <1>4. ASSUME NEW m \in MessageIds, Redeliver(m)
        PROVE  FramesInv'
    <2>1. UNCHANGED <<attempts, renewals, published, seen, number>>
      BY <1>4, OnlyFramesCount
    <2>2. AnswersRecorded'
      BY <1>4 DEF Redeliver, RecordedNumber, FramesInv, AnswersRecorded
    <2> QED
      BY <1>2, <2>1, <2>2
  <1>5. ASSUME NEW m \in MessageIds, NEW f \in Frames, Deliver(m, f)
        PROVE  FramesInv'
    <2>1. RecordsFinite' /\ ExactlyOnce'
      BY <1>5, DeliverCounts
    <2>2. PICK r : r = ResponseNumber(f)
      OBVIOUS
    <2>3. /\ seen[m] = NoFrame /\ f.type # "none"
          /\ seen'[m] = f /\ number'[m] = r
          /\ \A k \in MessageIds : k # m => seen'[k] = seen[k] /\ number'[k] = number[k]
          /\ \A k \in MessageIds : number[k] \in Nat
      BY <1>5, <2>2, FrameShape DEF Deliver, Unrecorded, FramesInv, RecordsFinite
    <2>4. RecordsInEffect'
      <3> SUFFICES ASSUME NEW k \in MessageIds, seen'[k] # NoFrame
                   PROVE  ClaimKnown(seen[k])' /\ InEffect(seen[k], number[k])'
                          /\ seen'[k].type # "none"
        BY DEF RecordsInEffect, NoFrame
      <3>1. CASE k = m
        <4>1. ClaimKnown(f)' /\ InEffect(f, r)'
          BY <1>5, <2>2, EffectTakes DEF Deliver
        <4>2. f = seen'[k] /\ r = number'[k]
          BY <2>3, <3>1
        <4> QED
          BY <2>3, <4>1, <4>2 DEF ClaimKnown, InEffect
      <3>2. CASE k # m
        <4>1. PICK g, n : g = seen[k] /\ n = number[k]
          OBVIOUS
        <4>2. n \in Nat /\ g.type # "none" /\ ClaimKnown(g) /\ InEffect(g, n)
          BY <2>3, <3>2, <4>1 DEF FramesInv, RecordsInEffect
        <4>3. ClaimKnown(g)' /\ InEffect(g, n)'
          BY <1>1, <4>2, EffectStays
        <4>4. g = seen'[k] /\ n = number'[k]
          BY <2>3, <3>2, <4>1
        <4> QED
          BY <4>2, <4>3, <4>4 DEF ClaimKnown, InEffect
      <3> QED
        BY <3>1, <3>2
    <2>5. AnswersRecorded'
      <3> SUFFICES ASSUME NEW a \in answers'
                   PROVE  \E k \in MessageIds : seen'[k] # NoFrame /\ a = <<k, number'[k]>>
        BY DEF AnswersRecorded, NoFrame
      <3>1. f # NoFrame
        BY FrameShape DEF NoFrame
      <3>2. CASE a \in answers
        BY <2>3, <3>2 DEF FramesInv, AnswersRecorded
      <3>3. CASE a = <<m, r>>
        BY <2>3, <3>1, <3>3
      <3> QED
        BY <1>5, <2>2, <3>2, <3>3 DEF Deliver
    <2> QED
      BY <2>1, <2>4, <2>5 DEF FramesInv
  <1> QED
    BY <1>3, <1>4, <1>5 DEF FramesNext

\* However messages are repeated, delayed and unanswered, every recorded one
\* had its effect once, still has it, and every answer ever given says so.
THEOREM FramesInvariance == FramesSpec => []FramesInv
  <1>1. FramesInit => FramesInv
    <2> SUFFICES ASSUME FramesInit PROVE FramesInv
      OBVIOUS
    <2>1. \A types : "none" \notin types => Recorded(types) = {}
      BY DEF FramesInit, Recorded, NoFrame
    <2>2. {m \in MessageIds : seen[m] # NoFrame} = {} /\ published = {}
      BY DEF FramesInit, Init
    <2>3. RecordsFinite
      BY <2>2, FS_EmptySet DEF FramesInit, RecordsFinite
    <2>4. RecordsInEffect /\ AnswersRecorded
      BY <2>2 DEF FramesInit, RecordsInEffect, AnswersRecorded
    <2>5. \A t \in Tasks : StartsOf(t) = {} /\ attempts[t] = 0
      BY <2>1 DEF StartsOf, FramesInit, Init
    <2>6. \A c \in ClaimIds : RenewalsOf(c) = {} /\ renewals[c] = 0
      BY <2>1 DEF RenewalsOf, FramesInit, Init
    <2>7. ExactlyOnce
      BY <2>1, <2>2, <2>5, <2>6, FS_EmptySet DEF ExactlyOnce
    <2> QED
      BY <2>3, <2>4, <2>7 DEF FramesInv
  <1>2. Inv /\ FramesInv /\ [FramesNext]_frameVars => FramesInv'
    BY FramesInvStep
  <1> QED
    BY <1>1, <1>2, FramesImplementCoordinator, Invariance, PTL DEF FramesSpec

\* Each attempt, renewal and artifact has its own message on record, and each of
\* those messages its attempt, renewal or artifact.
THEOREM EffectsHappenOnce == FramesSpec => []ExactlyOnce
  BY FramesInvariance, PTL DEF FramesInv

\* All answers to one message agree, and what they say was done is still so.
THEOREM AnswersAreKept == FramesSpec => []AnswersHold
  <1>1. FramesInv => AnswersHold
    <2> SUFFICES ASSUME FramesInv, NEW a \in answers
                 PROVE  /\ seen[a[1]] # NoFrame
                        /\ \A b \in answers : b[1] = a[1] => b[2] = a[2]
                        /\ InEffect(seen[a[1]], a[2])
      BY DEF AnswersHold
    <2>1. \A b \in answers : /\ b[1] \in MessageIds
                             /\ seen[b[1]] # NoFrame
                             /\ b[2] = number[b[1]]
      BY DEF FramesInv, AnswersRecorded
    <2> QED
      BY <2>1 DEF FramesInv, RecordsInEffect
  <1> QED
    BY <1>1, FramesInvariance, PTL

=============================================================================

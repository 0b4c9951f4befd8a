----------------------------- MODULE SwarmFrames -----------------------------
(***************************************************************************)
(* The wire side of the swarm coordinator: frames with message ids, which  *)
(* callers repeat, lose the answer of, and deliver late and out of order   *)
(* (apply_frame, _check_frame, _idempotent, _remembered_append and the     *)
(* helper methods that build frames).                                      *)
(*                                                                         *)
(* A frame that was sent can arrive at any later time, so the frames in    *)
(* flight need no variable: Deliver takes any frame whose time stamp is in *)
(* the replay window.  Only applied frames are recorded, each together     *)
(* with its response in the one journal record that holds its effect.      *)
(***************************************************************************)
EXTENDS SwarmCoordinator

CONSTANTS
    MessageIds, \* message ids the callers use
    Skew        \* MAX_CLOCK_SKEW_MS, in clock ticks

ASSUME SkewAssumption == Skew \in Nat

VARIABLES
    seen,    \* state["seen"]: per message id, the recorded frame
    number,  \* the one field of its response the frame does not determine
    answers  \* history: <<message id, number>> of every answer received

frameVars == <<vars, seen, number, answers>>

-----------------------------------------------------------------------------
(* Frames: a type, the worker it comes from, the time it was stamped, and   *)
(* what the type needs.                                                     *)

Endings == {"complete", "fail", "block", "release", "cancelled", "indeterminate"}

Frames ==
    [type : {"register"}, worker : Workers, sent : Clock]
    \cup [type : {"claim", "admit", "renew"}, worker : Workers, sent : Clock,
          claim : ClaimIds, generation : Attempts, expires : Expiries]
    \cup [type : {"publish"}, worker : Workers, sent : Clock,
          claim : ClaimIds, generation : Attempts, artifact : Artifacts]
    \cup [type : Endings \cup {"cancel", "ack_cancel"}, worker : Workers,
          sent : Clock, claim : ClaimIds, generation : Attempts]

\* What is found for a message id that is not on record.
NoFrame == [type |-> "none"]

\* _check_frame: applied before the record of the message is looked up.
InWindow(f) == f.sent - now <= Skew /\ now - f.sent <= Skew

Unrecorded_Unanswered(m) == \A a \in answers : a[1] # m
Unrecorded(m) == seen[m] = NoFrame

\* What the handler of the frame's type does.
Effect(f) ==
    \/ f.type = "register" /\ RegisterWorker(f.worker)
    \/ /\ f.type = "claim"
       /\ Claim(f.worker, TaskOf(f.claim), AttemptOf(f.claim), f.generation, f.expires)
    \/ /\ f.type = "admit"
       /\ AdmitClaim(f.worker, TaskOf(f.claim), AttemptOf(f.claim), f.generation, f.expires)
    \/ f.type = "renew" /\ Renew(f.worker, f.claim, f.generation, f.expires)
    \/ f.type = "publish" /\ PublishArtifact(f.worker, f.claim, f.generation, f.artifact)
    \/ f.type = "complete" /\ Complete(f.worker, f.claim, f.generation)
    \/ f.type = "fail" /\ Fail(f.worker, f.claim, f.generation)
    \/ f.type = "block" /\ Block(f.worker, f.claim, f.generation)
    \/ f.type = "release" /\ Release(f.worker, f.claim, f.generation)
    \/ /\ f.type \in {"cancelled", "indeterminate"}
       /\ CancelOutcome(f.worker, f.claim, f.generation, f.type)
    \/ f.type = "cancel" /\ CancelRequest(f.claim, f.generation)
    \/ f.type = "ack_cancel" /\ CancelAck(f.worker, f.claim, f.generation)

\* Every field of a response repeats the frame, but the number of a renewal.
ResponseNumber(f) == IF f.type = "renew" THEN renewals[f.claim] + 1 ELSE 0

RecordedNumber_Recomputed(m) == ResponseNumber(seen[m])
RecordedNumber(m) == number[m]

-----------------------------------------------------------------------------

FramesInit ==
    /\ Init
    /\ seen = [m \in MessageIds |-> NoFrame]
    /\ number = [m \in MessageIds |-> 0]
    /\ answers = {}

\* A frame is applied: effect, message id and response are one record.  The
\* answer reaches the caller or is lost (a dead process, a broken pipe, an
\* append that landed and was reported as uncertain).
Deliver(m, f) ==
    /\ InWindow(f)
    /\ Unrecorded(m)
    /\ Effect(f)
    /\ seen' = [seen EXCEPT ![m] = f]
    /\ number' = [number EXCEPT ![m] = ResponseNumber(f)]
    /\ answers' \in {answers, answers \cup {<<m, ResponseNumber(f)>>}}

\* The same frame again, even when the run is closed: the recorded response.
\* A different frame under a recorded id is refused.
Redeliver(m) ==
    /\ recovering = {}
    /\ seen[m] # NoFrame
    /\ InWindow(seen[m])
    /\ answers' = answers \cup {<<m, RecordedNumber(m)>>}
    /\ UNCHANGED <<vars, seen, number>>

\* The operations that carry no frame.
Unframed ==
    /\ \/ \E t \in Tasks : HumanDecision(t)
       \/ InterruptRecovery
       \/ \E c \in ClaimIds, d \in DeliveryStates : AdvanceDelivery(c, d)
       \/ Close
       \/ \E m \in Clock : SetClock(m)
    /\ UNCHANGED <<seen, number, answers>>

FramesNext ==
    \/ \E m \in MessageIds : Redeliver(m) \/ \E f \in Frames : Deliver(m, f)
    \/ Unframed

FramesSpec == FramesInit /\ [][FramesNext]_frameVars

-----------------------------------------------------------------------------
(* Properties. *)

Recorded(types) == {m \in MessageIds : seen[m].type \in types}
StartsOf(t)   == {m \in Recorded({"claim", "admit"}) : TaskOf(seen[m].claim) = t}
RenewalsOf(c) == {m \in Recorded({"renew"}) : seen[m].claim = c}

\* A message takes effect once, however often it is sent and whichever answers
\* are lost: each attempt, renewal and artifact has its own recorded message,
\* and each of those messages its attempt, renewal or artifact.
ExactlyOnce ==
    /\ \A t \in Tasks : attempts[t] = Cardinality(StartsOf(t))
    /\ \A c \in ClaimIds : renewals[c] = Cardinality(RenewalsOf(c))
    /\ Cardinality(published) = Cardinality(Recorded({"publish"}))

\* What frame f did to its claim, as long as anyone may still rely on it.
InEffect(f, n) ==
    /\ f.type = "register" => f.worker \in workers
    /\ f.type \in {"claim", "admit"} =>
          /\ claimWorker[f.claim] = f.worker
          /\ leaseGeneration[f.claim] = f.generation
    /\ f.type = "renew" => renewals[f.claim] >= n
    /\ f.type = "publish" => <<f.artifact, f.claim>> \in published
    /\ f.type = "cancel" => cancelRequested[f.claim]
    /\ f.type = "ack_cancel" => cancelAcknowledged[f.claim]
    /\ f.type = "complete" => claimStatus[f.claim] = "completed"
    /\ f.type = "fail" => claimStatus[f.claim] = "failed"
    /\ f.type = "release" => claimStatus[f.claim] = "released"
    /\ f.type = "cancelled" => claimStatus[f.claim] = "cancelled"
    /\ f.type \in {"block", "indeterminate"} =>
          claimStatus[f.claim] \in {"blocked", "indeterminate"}

\* An answer is a promise: every answer ever given for a message says the same,
\* and what it says was done is still so.
AnswersHold ==
    \A a \in answers :
        /\ seen[a[1]] # NoFrame
        /\ \A b \in answers : b[1] = a[1] => b[2] = a[2]
        /\ InEffect(seen[a[1]], a[2])

=============================================================================

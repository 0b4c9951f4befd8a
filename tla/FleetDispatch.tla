---------------------------- MODULE FleetDispatch ----------------------------
(***************************************************************************)
(* The dispatch claims of one fleet approval (_fleet_dispatch.py) and the  *)
(* processes that launch under them (_fleet_runtime.py with the launch     *)
(* control of _executor.py).                                               *)
(*                                                                         *)
(* Four files hold the history: the ledger, its staged successor, the      *)
(* anchor and the initialization marker.  Each is replaced atomically, and *)
(* an operation holds the store lock from its first read to its last       *)
(* write, but it may fail, or its process die, between any two writes; and *)
(* files may be deleted, or an old ledger put back, between operations.    *)
(*                                                                         *)
(* A digest is the content it digests: the generation makes every content  *)
(* new.  Authentication, bindings and the contents of requests are left    *)
(* out; a claim is named by the dispatcher that drew its random id.        *)
(***************************************************************************)
EXTENDS Naturals, FiniteSets

CONSTANTS
    Dispatcher,     \* processes, each launching once under the approval
    Billable,       \* the dispatchers whose route is billed
    Spends,         \* the ceilings an approval may grant
    MaxFaults,      \* bound on failures of operations and deaths of dispatchers
    MaxTampers,     \* bound on deletions and replays of files
    Nobody          \* who holds the store lock when it is free

VARIABLES
    spend,      \* the ceilings granted: [contacts, billable, parallel]
    approval,   \* "active", "inactive" (revoked or expired) or "pruned"
    disk,       \* [ledger, staged, anchor, marker]
    op,         \* the operation under the store lock: [who, pc, target]
    at,         \* dispatcher -> where its control is
    round,      \* dispatcher -> attempts at reconciling its end
    child,      \* dispatcher -> "none", "running" or "gone"
    answer,     \* dispatcher -> what its result says of contact
    faults, tampers,
    acked,      \* history: dispatcher -> the last phase acknowledged to it
    past        \* history: the ledgers that were on disk

vars == <<spend, approval, disk, op, at, round, child, answer, faults, tampers,
          acked, past>>
process == <<at, round, child, answer, acked>>

ASSUME FleetAssumption == /\ Billable \subseteq Dispatcher
                          /\ Nobody \notin Dispatcher
                          /\ {MaxFaults, MaxTampers} \subseteq Nat
                          /\ IsFiniteSet(Dispatcher)
                          /\ Spends \subseteq
                               [contacts : Nat, billable : Nat, parallel : Nat]

Phases == {"absent", "reserved", "cancelled_pre_spawn", "provider_launch_claimed",
           "spawn_failed", "spawned", "reaped", "indeterminate", "terminal"}
ActivePhases_NotClaimed == {"reserved", "spawned", "reaped", "indeterminate"}

ActivePhases == {"reserved", "provider_launch_claimed", "spawned", "reaped",
                 "indeterminate"}

Settled == {"cancelled_pre_spawn", "indeterminate", "terminal"}

\* A file that is missing.
NoLedger == [gen |-> 0, claims |-> [d \in Dispatcher |->
                                      [phase |-> "absent", contacted |-> "no"]]]
NoAnchor == [state |-> "missing", ledger |-> NoLedger, pending |-> NoLedger]
Clean(l) == [state |-> "clean", ledger |-> l, pending |-> NoLedger]
Prepared(l, next) == [state |-> "prepared", ledger |-> l, pending |-> next]

Exists(l) == l # NoLedger
Phase(l, d) == l.claims[d].phase
In(l, phases) == {d \in Dispatcher : Phase(l, d) \in phases}

(***************************************************************************)
(* What a ledger allows                                                    *)
(***************************************************************************)
ConsumedPhases == Phases \ {"absent", "reserved", "cancelled_pre_spawn"}

Consumed(l) == In(l, ConsumedPhases)
Held(l)     == Consumed(l) \cup In(l, {"reserved"})

\* reserve_activation_dispatch: room for one more claim.
Room(l, d) ==
    /\ Cardinality(Held(l)) < spend.contacts
    /\ d \in Billable => Cardinality(Held(l) \cap Billable) < spend.billable
    /\ Cardinality(In(l, ActivePhases)) < spend.parallel

\* claim_activation_provider_launch: the ceilings once more.
Spendable(l, d) ==
    /\ Cardinality(Consumed(l)) < spend.contacts
    /\ d \in Billable => Cardinality(Consumed(l) \cap Billable) < spend.billable

Moved(l, d, phase, contacted) ==
    [gen |-> l.gen + 1,
     claims |-> [l.claims EXCEPT ![d] = [phase |-> phase, contacted |-> contacted]]]

(* The compare-and-swaps: where the caller stands, the phase that is       *)
(* expected, the phase that is written and what it says of contact.        *)
Callbacks ==
    {<<"new",       "absent",                  "reserved",                "no">>,
     <<"held",      "reserved",                "provider_launch_claimed", "unknown">>,
     <<"unspawned", "provider_launch_claimed", "spawn_failed",            "no">>,
     <<"popened",   "provider_launch_claimed", "spawned",                 "yes">>,
     <<"killed",    "spawned",                 "reaped",                  "yes">>,
     <<"exited",    "spawned",                 "reaped",                  "yes">>}

\* FleetLaunchRuntime._indeterminate: what is open becomes indeterminate.
Doubt ==
    {<<"doubt", "provider_launch_claimed", "indeterminate", "unknown">>,
     <<"doubt", "spawned",                 "indeterminate", "yes">>,
     <<"doubt", "reaped",                  "indeterminate", "yes">>}

Settle_KeepsReserved ==
    {<<"finish", "provider_launch_claimed", "indeterminate", "unknown">>,
     <<"finish", "spawned",                 "reaped",        "yes">>,
     <<"finish", "reaped",                  "terminal",      "yes">>,
     <<"finish", "spawn_failed",            "terminal",      "no">>}

\* FleetLaunchRuntime.finalize: the next step towards a settled claim.
Settle ==
    {<<"finish", "reserved",                "cancelled_pre_spawn", "no">>,
     <<"finish", "provider_launch_claimed", "indeterminate",       "unknown">>,
     <<"finish", "spawned",                 "reaped",              "yes">>,
     <<"finish", "reaped",                  "terminal",            "yes">>,
     <<"finish", "spawn_failed",            "terminal",            "no">>}

\* The third attempt at reconciling the end is the fallback of failure().
Place(d) == IF at[d] = "finish" /\ round[d] = 3 THEN "doubt" ELSE at[d]

\* The ledgers, one at most, that the operation of dispatcher d makes of l; none
\* when it only reads, or is refused.
Targets(l, d) ==
    {Moved(l, d, t[3], t[4]) : t \in
        {t \in Callbacks \cup Doubt \cup Settle :
            /\ t[1] = Place(d) /\ t[2] = Phase(l, d)
            /\ at[d] = "new" => Room(l, d)
            /\ at[d] = "held" => Spendable(l, d)}}

\* Operations that need an active approval.
NeedsApproval(d) == at[d] \in {"new", "held"}

(***************************************************************************)
(* The dispatchers                                                         *)
(***************************************************************************)
Operating == {"new", "held", "unspawned", "popened", "killed", "exited", "doubt", "finish"}

\* Where a dispatcher goes when its operation succeeds ...
Onward == {<<"new", "held">>, <<"held", "claimed">>, <<"unspawned", "finish">>,
           <<"popened", "running">>, <<"killed", "doubt">>, <<"exited", "finish">>,
           <<"doubt", "finish">>}

\* ... and when it is refused or fails.
Fallback == {<<"new", "ended">>, <<"held", "doubt">>, <<"unspawned", "finish">>,
             <<"popened", "killed">>, <<"killed", "doubt">>, <<"exited", "finish">>,
             <<"doubt", "finish">>}

Goes(d, paths) == \E path \in paths : /\ path[1] = at[d]
                                      /\ at' = [at EXCEPT ![d] = path[2]]

Silence_NotRun(known) == IF known = "yes" THEN "yes" ELSE "no"

\* What failure() reports when the claim cannot be read: contact stays unknown,
\* unless the claim was read before a later step failed.
Silence(known) == IF known = "yes" THEN "yes" ELSE "unknown"

Free == op.who = Nobody
Release == op' = [who |-> Nobody, pc |-> "idle", target |-> NoLedger]

\* A step of finalize acknowledged: one more when a lost reap was made up for,
\* else the answer.
FinishAcked(d, l) ==
    IF Phase(l, d) \in Settled \/ round[d] = 3
    THEN /\ at' = [at EXCEPT ![d] = "ended"]
         /\ answer' = [answer EXCEPT ![d] = l.claims[d].contacted]
         /\ UNCHANGED <<round, child>>
    ELSE UNCHANGED <<at, round, child, answer>>

Acked(d, l) ==
    /\ acked' = [acked EXCEPT ![d] = Phase(l, d)]
    /\ IF at[d] = "finish"
       THEN FinishAcked(d, l)
       ELSE /\ Goes(d, Onward)
            /\ UNCHANGED <<round, child, answer>>

FinishRefused_Forever(d, known) == UNCHANGED <<at, round, child, answer>>

\* finalize is tried twice, then failure() falls back on doubt, then answers.
FinishRefused(d, known) ==
    IF round[d] < 3
    THEN /\ round' = [round EXCEPT ![d] = @ + 1]
         /\ UNCHANGED <<at, child, answer>>
    ELSE /\ at' = [at EXCEPT ![d] = "ended"]
         /\ answer' = [answer EXCEPT ![d] = Silence(known)]
         /\ UNCHANGED <<round, child>>

\* A child that could not be registered is killed and reaped.
Refused(d, known) ==
    /\ UNCHANGED acked
    /\ IF at[d] = "finish"
       THEN FinishRefused(d, known)
       ELSE /\ Goes(d, Fallback)
            /\ child' = IF at[d] = "popened" THEN [child EXCEPT ![d] = "gone"] ELSE child
            /\ UNCHANGED <<round, answer>>

\* The launch: Popen returns a child, or fails before there is one, or fails
\* without telling; a fence between the claim and Popen fails it as well.
Popen(d) ==
    /\ at[d] = "claimed"
    /\ \/ /\ at' = [at EXCEPT ![d] = "popened"]
          /\ child' = [child EXCEPT ![d] = "running"]
       \/ /\ at' = [at EXCEPT ![d] = "unspawned"]
          /\ UNCHANGED child
       \/ /\ at' = [at EXCEPT ![d] = "doubt"]
          /\ UNCHANGED child
    /\ UNCHANGED <<spend, approval, disk, op, round, answer, faults, tampers, acked, past>>

\* The launch is given up before the claim: the build failed, or a fence did.
GiveUp(d) ==
    /\ at[d] = "held"
    /\ op.who # d
    /\ \E next \in {"finish", "unspawned"} : at' = [at EXCEPT ![d] = next]
    /\ UNCHANGED <<spend, approval, disk, op, round, child, answer, faults, tampers,
                   acked, past>>

\* The child ends; a dispatcher that is still there has waited for it.
ChildEnds(d) ==
    /\ child[d] = "running"
    /\ at[d] \in {"running", "dead"}
    /\ child' = [child EXCEPT ![d] = "gone"]
    /\ at' = IF at[d] = "running" THEN [at EXCEPT ![d] = "exited"] ELSE at
    /\ UNCHANGED <<spend, approval, disk, op, round, answer, faults, tampers, acked, past>>

(***************************************************************************)
(* One operation: take the lock, read, decide, write                       *)
(***************************************************************************)
Begin(d) ==
    /\ Free
    /\ at[d] \in Operating
    /\ NeedsApproval(d) => approval = "active"
    /\ op' = [op EXCEPT !.who = d, !.pc = "recover"]
    /\ UNCHANGED <<spend, approval, disk, process, faults, tampers, past>>

\* _active_approval raises.
RefuseInactive(d) ==
    /\ Free
    /\ NeedsApproval(d) /\ approval # "active"
    /\ Refused(d, "unknown")
    /\ UNCHANGED <<spend, approval, disk, op, faults, tampers, past>>

Go(pc) == op' = [op EXCEPT !.pc = pc]
Write(k) == /\ disk' = k
            /\ past' = past \cup ({k.ledger} \ {NoLedger})
Still == UNCHANGED <<spend, approval, process, faults, tampers>>

\* The operation raises: d is told so, and the lock is released.
Raise == /\ Refused(op.who, "unknown")
         /\ Release
         /\ UNCHANGED <<spend, approval, disk, faults, tampers, past>>

Promoted(k) == [k EXCEPT !.ledger = k.staged, !.staged = NoLedger]
Adopted(k)  == [k EXCEPT !.marker = TRUE]

\* _recover_prepared_ledger
Recover ==
    LET prepared == disk.anchor.state = "prepared" /\ Exists(disk.staged) IN
    /\ op.pc = "recover"
    /\ \/ /\ prepared /\ disk.staged = disk.anchor.pending
          /\ Write(Promoted(disk)) /\ Go("examine") /\ Still
       \/ /\ prepared /\ disk.staged # disk.anchor.pending
          /\ Raise
       \/ /\ ~prepared
          /\ Go("examine") /\ Still /\ UNCHANGED <<disk, past>>

\* _read_ledger: no history, some of it missing, or both roots there.
Examine ==
    LET anchored == disk.anchor # NoAnchor IN
    /\ op.pc = "examine"
    /\ \/ /\ disk.marker /\ approval = "pruned"     \* the marker cannot be verified
          /\ Raise
       \/ /\ ~(disk.marker /\ approval = "pruned")
          /\ \/ /\ ~Exists(disk.ledger) /\ ~anchored
                /\ disk.marker \/ at[op.who] # "new"
                /\ Raise
             \/ /\ ~Exists(disk.ledger) /\ ~anchored
                /\ ~disk.marker /\ at[op.who] = "new"
                /\ Write(Adopted(disk)) /\ Go("genesis") /\ Still
             \/ /\ Exists(disk.ledger) \/ anchored
                /\ Go("reconcile") /\ Still /\ UNCHANGED <<disk, past>>

Genesis ==
    /\ op.pc = "genesis"
    /\ Write([disk EXCEPT !.anchor = Clean(NoLedger)])
    /\ Go("decide") /\ Still

Agrees_Any(k) == k.anchor # NoAnchor

\* The ledger is the one the anchor knows, or the one it was prepared for.
Agrees(k) == \/ k.anchor.state = "clean" /\ k.ledger = k.anchor.ledger
             \/ k.anchor.state = "prepared" /\ k.ledger = k.anchor.pending

\* _reconcile_dispatch_anchor
Reconcile ==
    /\ op.pc = "reconcile"
    /\ IF Agrees(disk)
       THEN Write([disk EXCEPT !.anchor = Clean(disk.ledger)]) /\ Go("adopt") /\ Still
       ELSE Raise

\* A history without its marker is marked once the anchor has agreed.
Adopt ==
    /\ op.pc = "adopt"
    /\ IF disk.marker \/ approval # "pruned"
       THEN Write(Adopted(disk)) /\ Go("decide") /\ Still
       ELSE Raise

\* A claim that is not in the ledger is refused; so is one in another phase.
\* get_claim and the fallback only read, and read what is there.
Decide ==
    LET d == op.who
        targets == Targets(disk.ledger, d) IN
    /\ op.pc = "decide"
    /\ \/ /\ \E target \in targets : op' = [op EXCEPT !.pc = "stage", !.target = target]
          /\ Still /\ UNCHANGED <<disk, past>>
       \/ /\ targets = {}
          /\ at[d] \in {"doubt", "finish"} /\ Phase(disk.ledger, d) # "absent"
          /\ Acked(d, disk.ledger)
          /\ Release
          /\ UNCHANGED <<spend, approval, disk, faults, tampers, past>>
       \/ /\ targets = {}
          /\ at[d] \notin {"doubt", "finish"} \/ Phase(disk.ledger, d) = "absent"
          /\ Raise

(***************************************************************************)
(* _write_ledger: stage, prepare the anchor, promote, commit the anchor    *)
(***************************************************************************)
Following_PrepareFirst(pc) ==
    IF pc = "stage" THEN "promote" ELSE IF pc = "prepare" THEN "stage" ELSE "commit"

Following(pc) ==
    IF pc = "stage" THEN "prepare" ELSE IF pc = "prepare" THEN "promote" ELSE "commit"

Stage ==
    /\ op.pc = "stage"
    /\ Write([disk EXCEPT !.staged = op.target])
    /\ Go(Following("stage")) /\ Still

Prepare ==
    /\ op.pc = "prepare"
    /\ Write([disk EXCEPT !.anchor = Prepared(disk.anchor.ledger, op.target)])
    /\ Go(Following("prepare")) /\ Still

Promote ==
    /\ op.pc = "promote"
    /\ Write(Promoted(disk))
    /\ Go(Following("promote")) /\ Still

Committed_KeepsPending(k) == [k EXCEPT !.anchor.state = "clean", !.anchor.ledger = k.ledger]

Committed(k) == [k EXCEPT !.anchor = Clean(k.ledger)]

Commit ==
    /\ op.pc = "commit"
    /\ Write(Committed(disk))
    /\ Acked(op.who, op.target)
    /\ Release
    /\ UNCHANGED <<spend, approval, faults, tampers>>

(***************************************************************************)
(* Faults, the approval, and the owner's hands on the files                *)
(***************************************************************************)
\* An operation fails where it is, at its start if the lock stayed busy: what it
\* wrote stays.  A fallback that had read the claim keeps what it read of contact.
Fail ==
    /\ ~Free
    /\ faults < MaxFaults
    /\ Refused(op.who, IF op.pc \in {"stage", "prepare", "promote", "commit"}
                       THEN op.target.claims[op.who].contacted ELSE "unknown")
    /\ Release
    /\ faults' = faults + 1
    /\ UNCHANGED <<spend, approval, disk, tampers, past>>

\* A dispatcher dies, with the lock if it holds it; its child may live on.
Die(d) ==
    /\ at[d] \notin {"ended", "dead"}
    /\ faults < MaxFaults
    /\ at' = [at EXCEPT ![d] = "dead"]
    /\ faults' = faults + 1
    /\ IF op.who = d THEN Release ELSE UNCHANGED op
    /\ UNCHANGED <<spend, approval, disk, round, child, answer, tampers, acked, past>>

\* Revoked or expired, and later compacted away by a write for another approval.
Lapse ==
    /\ Free
    /\ approval' = IF approval = "active" THEN "inactive" ELSE "pruned"
    /\ approval # "pruned"
    /\ UNCHANGED <<spend, disk, op, process, faults, tampers, past>>

\* A file is deleted while another of the three survives, or an earlier ledger
\* is put back, in its place or in that of its successor.
Tamper ==
    /\ Free
    /\ tampers < MaxTampers
    /\ tampers' = tampers + 1
    /\ \/ /\ disk.anchor # NoAnchor \/ disk.marker
          /\ \E l \in {NoLedger} \cup past :
                l # disk.ledger /\ disk' = [disk EXCEPT !.ledger = l]
       \/ /\ disk.anchor # NoAnchor
          /\ Exists(disk.ledger) \/ disk.marker
          /\ disk' = [disk EXCEPT !.anchor = NoAnchor]
       \/ /\ disk.marker
          /\ Exists(disk.ledger) \/ disk.anchor # NoAnchor
          /\ disk' = [disk EXCEPT !.marker = FALSE]
       \/ \E l \in {NoLedger} \cup past :
                l # disk.staged /\ disk' = [disk EXCEPT !.staged = l]
    /\ UNCHANGED <<spend, approval, op, process, faults, past>>

Init ==
    /\ spend \in Spends
    /\ approval = "active"
    /\ disk = [ledger |-> NoLedger, staged |-> NoLedger, anchor |-> NoAnchor,
               marker |-> FALSE]
    /\ op = [who |-> Nobody, pc |-> "idle", target |-> NoLedger]
    /\ at = [d \in Dispatcher |-> "new"]
    /\ round = [d \in Dispatcher |-> 1]
    /\ child = [d \in Dispatcher |-> "none"]
    /\ answer = [d \in Dispatcher |-> "none"]
    /\ faults = 0 /\ tampers = 0
    /\ acked = [d \in Dispatcher |-> "absent"]
    /\ past = {}

Read == Recover \/ Examine \/ Genesis \/ Reconcile \/ Adopt \/ Decide
WriteLedger == Stage \/ Prepare \/ Promote \/ Commit
Dispatch(d) == Begin(d) \/ RefuseInactive(d) \/ Popen(d) \/ GiveUp(d) \/ ChildEnds(d)

Done == /\ \A d \in Dispatcher : at[d] \in {"ended", "dead"} /\ child[d] # "running"
        /\ UNCHANGED vars

Next == \/ Read \/ WriteLedger
        \/ \E d \in Dispatcher : Dispatch(d) \/ Die(d)
        \/ Fail \/ Lapse \/ Tamper
        \/ Done

Spec == Init /\ [][Next]_vars

\* A dispatcher runs until it ends; a child is stopped at its deadline; the lock
\* is handed on when it is free.
FairSpec == /\ Spec
            /\ WF_vars(Read \/ WriteLedger)
            /\ \A d \in Dispatcher : WF_vars(Dispatch(d))
-----------------------------------------------------------------------------
(***************************************************************************)
(* Properties                                                              *)
(***************************************************************************)
Places == Operating \cup {"claimed", "running", "ended", "dead"}
Reading == {"recover", "examine", "genesis", "reconcile", "adopt", "decide"}
Writing == {"stage", "prepare", "promote", "commit"}

Ledgers == [gen : Nat, claims : [Dispatcher -> [phase : Phases,
                                                contacted : {"no", "yes", "unknown"}]]]
Anchors == [state : {"missing", "clean", "prepared"}, ledger : Ledgers, pending : Ledgers]

\* The state is of its type; a clean anchor has nothing pending, which
\* _validate_anchor makes of every anchor it reads; and nobody writes unlocked.
TypeOK ==
    /\ spend \in Spends
    /\ approval \in {"active", "inactive", "pruned"}
    /\ disk \in [ledger : Ledgers, staged : Ledgers, anchor : Anchors, marker : BOOLEAN]
    /\ disk.anchor.state = "missing" => disk.anchor = NoAnchor
    /\ disk.anchor.state = "clean" => disk.anchor.pending = NoLedger
    /\ disk.anchor.state = "prepared" => disk.anchor.pending.gen = disk.anchor.ledger.gen + 1
    /\ op \in [who : Dispatcher \cup {Nobody}, pc : {"idle"} \cup Reading \cup Writing,
              target : Ledgers]
    /\ Free <=> op.pc = "idle"
    /\ at \in [Dispatcher -> Places]
    /\ round \in [Dispatcher -> 1..3]
    /\ child \in [Dispatcher -> {"none", "running", "gone"}]
    /\ answer \in [Dispatcher -> {"none", "no", "yes", "unknown"}]
    /\ faults \in 0..MaxFaults /\ tampers \in 0..MaxTampers
    /\ acked \in [Dispatcher -> Phases]
    /\ past \subseteq Ledgers

Launched == {d \in Dispatcher : child[d] # "none"}
Running  == {d \in Dispatcher : child[d] = "running"}

(* The ceilings an operator approved bound the provider processes that     *)
(* really start and run, whatever crashes between the writes, is deleted   *)
(* or is put back (the docstring of _fleet_dispatch.py).                   *)
CeilingsHold ==
    /\ Cardinality(Launched) =< spend.contacts
    /\ Cardinality(Launched \cap Billable) =< spend.billable
    /\ Cardinality(Running) =< spend.parallel

Rank(phase) ==
    IF phase = "absent" THEN 0
    ELSE IF phase = "reserved" THEN 1
    ELSE IF phase \in {"cancelled_pre_spawn", "provider_launch_claimed"} THEN 2
    ELSE IF phase \in {"spawned", "spawn_failed"} THEN 3
    ELSE IF phase = "reaped" THEN 4
    ELSE 5

(* No operation decides on a ledger that has lost a transition some        *)
(* dispatcher was told of: not after a crash of a writer, nor when an      *)
(* earlier, perfectly authentic ledger is put back.                        *)
DecidesOnLatest ==
    op.pc = "decide" =>
        \A d \in Dispatcher : Rank(acked[d]) =< Rank(Phase(disk.ledger, d))

Readable(k) ==
    \/ k.anchor.state = "clean" /\ k.ledger = k.anchor.ledger
    \/ /\ k.anchor.state = "prepared"
       /\ \/ k.staged = k.anchor.pending
          \/ ~Exists(k.staged) /\ k.ledger = k.anchor.pending

(* Whatever a crash or a failing write leaves behind, the next locked read *)
(* can recover; the one exception is the gap between the first marker and  *)
(* the first anchor, where "fails closed" is meant (_read_ledger).         *)
CrashRecovers ==
    tampers = 0 => Readable(disk) \/ disk.anchor = NoAnchor

(* Why the ceilings hold: the anchor knows the latest ledger, which        *)
(* remembers whatever a dispatcher was told and whatever may be running;   *)
(* a dispatcher that launches was told that it may, ...                    *)
Latest == IF disk.anchor.state = "prepared" THEN disk.anchor.pending ELSE disk.anchor.ledger

Launching == {d \in Dispatcher : child[d] # "none" \/ at[d] = "claimed"}
Occupying == {d \in Dispatcher : child[d] = "running" \/ at[d] = "claimed"}

Remembers(l) ==
    /\ \A d \in Dispatcher : Rank(acked[d]) =< Rank(Phase(l, d))
    /\ \A d \in Launching : Phase(l, d) \in ConsumedPhases
    /\ \A d \in Occupying : Phase(l, d) \in ActivePhases

WithinCeilings(held, active) ==
    /\ Cardinality(held) =< spend.contacts
    /\ Cardinality(held \cap Billable) =< spend.billable
    /\ Cardinality(active) =< spend.parallel

Sound(l) == Remembers(l) /\ WithinCeilings(Held(l), In(l, ActivePhases))

LatestIsSound ==
    /\ disk.anchor # NoAnchor => Sound(Latest)
    /\ op.pc \in {"stage", "prepare"} => Sound(op.target)
    /\ WithinCeilings(Launching, Occupying)

(* ... an operation finds what it has read and written, ...                *)
AsWritten ==
    /\ op.pc = "genesis" => disk.anchor = NoAnchor /\ ~Exists(disk.ledger)
    /\ op.pc \in {"adopt", "decide", "stage", "prepare"} =>
          disk.anchor.state = "clean" /\ disk.ledger = disk.anchor.ledger
    /\ op.pc \in {"stage", "prepare"} => op.target.gen = disk.ledger.gen + 1
    /\ op.pc \in {"promote", "commit"} =>
          disk.anchor.state = "prepared" /\ disk.anchor.pending = op.target
    /\ op.pc \in {"prepare", "promote"} => disk.staged = op.target
    /\ op.pc = "commit" => disk.ledger = op.target /\ ~Exists(disk.staged)

(* ... a history begins anew only if nobody was ever told anything, ...    *)
NothingForgotten ==
    (\/ op.pc = "genesis"
     \/ disk.anchor = NoAnchor /\ ~Exists(disk.ledger) /\ ~disk.marker)
        => \A d \in Dispatcher : acked[d] = "absent"

(* ... each dispatcher is where its child and what it was told allow, ...  *)
InPlace ==
    /\ ~Free => at[op.who] \in Operating
    /\ op.pc \in Writing =>
          /\ Phase(op.target, op.who) # "absent"
          /\ at[op.who] = "new" => Phase(op.target, op.who) = "reserved"
          /\ at[op.who] = "held" => Phase(op.target, op.who) = "provider_launch_claimed"
    /\ \A d \in Dispatcher :
          /\ at[d] = "new" => acked[d] = "absent"
          /\ d \in Launching => acked[d] # "absent"
          /\ at[d] \in {"new", "held", "claimed", "unspawned"} => child[d] = "none"
          /\ at[d] = "popened" => child[d] # "none"
          /\ child[d] = "running" => at[d] \in {"popened", "running", "dead"}
          /\ answer[d] # "none" => at[d] = "ended"

(* ... and whoever a ledger, also an old one, says has not contacted the   *)
(* provider never will.                                                    *)
Denies(l, d) ==
    \/ Phase(l, d) \in {"cancelled_pre_spawn", "spawn_failed"}
    \/ Phase(l, d) \notin {"absent", "reserved"} /\ l.claims[d].contacted = "no"

Barred(d) ==
    child[d] = "none" /\ at[d] \in {"unspawned", "doubt", "finish", "ended", "dead"}

Written == past \cup {disk.ledger, disk.staged, disk.anchor.ledger, disk.anchor.pending,
                      op.target}

DenialsHold ==
    /\ \A l \in Written, d \in Dispatcher : Denies(l, d) => Barred(d)
    /\ \A d \in Launched : answer[d] # "no"

(* Types, the ceilings, a history that can be read, and the reasons.       *)
FleetInv == /\ TypeOK /\ CeilingsHold /\ CrashRecovers
            /\ LatestIsSound /\ AsWritten /\ NothingForgotten /\ InPlace /\ DenialsHold

(* A result that denies contact with the provider is true: failure() "must *)
(* never fall back to a generic pre-dispatch error that asserts zero       *)
(* provider contact", and a claim is spawn_failed only if nothing started. *)
DenialIsTrue ==
    \A d \in Launched : /\ answer[d] # "no"
                        /\ Exists(disk.ledger) =>
                             Phase(disk.ledger, d) \notin {"cancelled_pre_spawn", "spawn_failed"}

(* Every dispatcher that lives gives its result: reconciling a claim that  *)
(* cannot be read or written does not go on for ever.  And it leaves its   *)
(* claim settled, unless an operation failed, a file was touched, or the   *)
(* approval was pruned.                                                    *)
EveryDispatchSettles ==
    \A d \in Dispatcher :
        <>(\/ at[d] = "dead"
           \/ /\ at[d] = "ended"
              /\ \/ Phase(disk.ledger, d) \in Settled \cup {"absent"}
                 \/ faults + tampers > 0
                 \/ approval = "pruned")
=============================================================================

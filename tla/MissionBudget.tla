--------------------------- MODULE MissionBudget ---------------------------
(***************************************************************************)
(* The budget shared by the attempts of one mission: budget.json, kept by  *)
(* _mission_budget.py, and the processes that reserve, launch and settle.  *)
(* Every operation runs under budget.lock and replaces the file at its     *)
(* end, so an operation is one step; what a caller does between two        *)
(* operations is other steps.                                              *)
(*                                                                         *)
(* Tokens are modelled; the money cap is treated by the code in the same   *)
(* way beside it.  Liveness of an owner is judged by pid and birth token,  *)
(* hence truthfully.  What a mission's exhaustion makes of its other jobs  *)
(* (a cancel command in their queues) belongs to job control.              *)
(*                                                                         *)
(* An operator named X_Y, just above operator X, is X with a defect that   *)
(* code could plausibly have; the runs must notice when it replaces X.     *)
(***************************************************************************)
EXTENDS Integers, FiniteSets, Functions

CONSTANTS
    Attempts,       \* attempts that are reserved before they are launched
    Ids,            \* the keys of the ledger
    Physical,       \* attempt -> the key its own telemetry is settled under
    Processes,
    Pools,          \* processes that wait for the children they launch
    Caps,           \* values of --mission-max-work-tokens
    Reserves,       \* sizes of a reservation
    MaxUse,         \* bound: the tokens of one attempt
    MaxDeaths,      \* bound: processes that die with work to do
    NoCap, NoProcess, NoTotal

ASSUME IdsAssumption == IsFiniteSet(Ids)
ASSUME AttemptsAssumption ==
    /\ Attempts \subseteq Ids
    /\ Physical \in [Attempts -> Ids]
    /\ \A a, b \in Attempts : Physical[a] = Physical[b] \/ Physical[a] = b => a = b
ASSUME ProcessesAssumption ==
    Pools \subseteq Processes /\ NoProcess \notin Processes
ASSUME AmountsAssumption ==
    /\ Caps \subseteq Nat \ {0}
    /\ Reserves \subseteq Nat
    /\ MaxUse \in Nat
    /\ MaxDeaths \in Nat
    /\ NoCap \notin Nat /\ NoTotal \notin Nat

VARIABLES
    cap,            \* caps.max_work_tokens
    record,         \* attempts: what the ledger says of each key
    unknownSpend,   \* unknown_spend: once set, it stays
    forced,         \* forced_exhausted: the mission was cancelled
    alive,          \* the processes that have not ended
    stage,          \* where each attempt stands
    runner,         \* the process that carries out each attempt
    used,           \* history: the tokens each attempt really used
    granted,        \* history: what each attempt was granted when admitted
    allowance,      \* history: the cap under which the last one was admitted
    orphans,        \* history: attempts whose reserving process ended before them
    deaths

ledger == <<cap, record, unknownSpend, forced>>
history == <<used, granted, allowance, orphans>>
vars == <<ledger, alive, stage, runner, history, deaths>>

Stages == {"new", "held", "spawned", "running", "superseding", "ended", "refused"}
Unfinished == {"held", "spawned", "running", "superseding"}
Statuses == {"none", "in_flight", "settled", "abandoned_owner_dead", "cancelled"}

NoRecord ==
    [status |-> "none", owner |-> NoProcess, reserved |-> 0, work |-> 0,
     established |-> FALSE, unknown |-> FALSE]

Greater(m, n) == IF m > n THEN m ELSE n

-----------------------------------------------------------------------------
(* The ledger. *)

\* The hold of a dead owner is given back.  The code would mark its spend unknown
\* if provider_contacted were True; but it is None as long as an attempt is in
\* flight, and first stated when the attempt is settled.
ReapedRecord(r) ==
    IF r.status = "in_flight" /\ r.owner # NoProcess /\ r.owner \notin alive
    THEN [r EXCEPT !.status = "abandoned_owner_dead", !.reserved = 0]
    ELSE r

Reaped(rec) == [i \in Ids |-> ReapedRecord(rec[i])]

Held(r) == IF r.status = "in_flight" /\ r.reserved > r.work THEN r.reserved - r.work ELSE 0

Known(rec) == SumFunction([i \in Ids |-> rec[i].work])
Committed(rec) == SumFunction([i \in Ids |-> rec[i].work + Held(rec[i])])

SpendUnknown(rec) == unknownSpend \/ \E i \in Ids : rec[i].unknown

Exhausted(rec, c) ==
    \/ forced
    \/ c # NoCap /\ (Known(rec) >= c \/ SpendUnknown(rec))

Tightened_Latest(c) == IF c = NoCap THEN cap ELSE c

\* Caps are only ever tightened.
Tightened(c) ==
    IF c = NoCap THEN cap ELSE IF cap = NoCap \/ c < cap THEN c ELSE cap

\* The end of every operation: totals are recomputed and the file is replaced.
Store(rec) ==
    /\ record' = Reaped(rec)
    /\ unknownSpend' = SpendUnknown(Reaped(rec))

Fits_Known(rec, c, n) == c # NoCap => Known(rec) + Greater(1, n) <= c

\* A reservation of n tokens fits; an empty one is taken for one token.
Fits(rec, c, n) == c # NoCap => Committed(rec) + Greater(1, n) <= c

Observed_Added(r, total) ==
    IF total = NoTotal THEN r
    ELSE [r EXCEPT !.work = @ + total, !.established = TRUE]

Observed_Converted(r, total) ==
    IF total = NoTotal THEN r
    ELSE [r EXCEPT !.work = Greater(@, total), !.reserved = 0, !.established = TRUE]

Observed(r, total) ==
    IF total = NoTotal THEN r
    ELSE [r EXCEPT !.work = Greater(@, total), !.established = TRUE]

LeavesUnknown_Certain(r, contacted) == contacted = "yes" /\ ~r.established

\* Spend is unknown unless the provider was certainly not contacted, or the
\* attempt's total was reported, now or earlier.
LeavesUnknown(r, contacted) == contacted # "no" /\ ~r.established

SettledRecord(r, total, contacted) ==
    [Observed(r, total) EXCEPT
        !.status = "settled", !.reserved = 0,
        !.unknown = LeavesUnknown(Observed(r, total), contacted)]

-----------------------------------------------------------------------------
Init ==
    /\ cap = NoCap
    /\ record = [i \in Ids |-> NoRecord]
    /\ unknownSpend = FALSE
    /\ forced = FALSE
    /\ alive = Processes
    /\ stage = [a \in Attempts |-> "new"]
    /\ runner = [a \in Attempts |-> NoProcess]
    /\ used = [a \in Attempts |-> 0]
    /\ granted = [a \in Attempts |-> 0]
    /\ allowance = 0
    /\ orphans = {}
    /\ deaths = 0

\* A process with one thread does one attempt at a time; a pool has many.
Free(p) ==
    \/ p \in Pools
    \/ \A a \in Attempts :
          /\ record[a].owner = p => stage[a] # "held"
          /\ runner[a] = p => stage[a] \notin Unfinished

Unused(p) == \A a \in Attempts : record[a].owner # p /\ runner[a] # p

Configure(c) ==
    /\ cap' = Tightened(c)
    /\ Store(record)
    /\ UNCHANGED <<forced, alive, stage, runner, history, deaths>>

\* reserve_launch of a new attempt: admitted under the cap, or refused.
Admit(p, a, c, n) ==
    LET now == Reaped(record) IN
    /\ p \in alive /\ Free(p)
    /\ stage[a] = "new"
    /\ cap' = Tightened(c)
    /\ ~Exhausted(now, Tightened(c))
    /\ Fits(now, Tightened(c), n)
    /\ Store([record EXCEPT ![a] =
                [NoRecord EXCEPT !.status = "in_flight", !.owner = p,
                                 !.reserved = IF Tightened(c) = NoCap THEN 0 ELSE n]])
    /\ stage' = [stage EXCEPT ![a] = "held"]
    /\ granted' = [granted EXCEPT ![a] = IF Tightened(c) = NoCap THEN 0 ELSE n]
    /\ allowance' = IF Tightened(c) = NoCap THEN allowance ELSE Tightened(c)
    /\ UNCHANGED <<forced, alive, runner, used, orphans, deaths>>

Refuse(p, a, c, n) ==
    LET now == Reaped(record) IN
    /\ p \in alive /\ Free(p)
    /\ stage[a] = "new"
    /\ cap' = Tightened(c)
    /\ Exhausted(now, Tightened(c)) \/ ~Fits(now, Tightened(c), n)
    /\ Store(record)
    /\ stage' = [stage EXCEPT ![a] = "refused"]
    /\ UNCHANGED <<forced, alive, runner, history, deaths>>

ReserveLaunch(p, a) ==
    \E c \in Caps \cup {NoCap}, n \in Reserves : Admit(p, a, c, n) \/ Refuse(p, a, c, n)

\* The process that reserved carries the attempt out itself, or hands it to a
\* child, which reserves the same key again: that only reads the ledger.
Launch(p, a) ==
    /\ p \in alive \ Pools /\ record[a].owner = p
    /\ stage[a] = "held"
    /\ stage' = [stage EXCEPT ![a] = "running"]
    /\ runner' = [runner EXCEPT ![a] = p]
    /\ UNCHANGED <<ledger, alive, history, deaths>>

Spawn(p, q, a) ==
    /\ p \in alive /\ record[a].owner = p
    /\ stage[a] = "held"
    /\ q \in alive \ Pools /\ Unused(q) /\ q # p
    /\ stage' = [stage EXCEPT ![a] = "spawned"]
    /\ runner' = [runner EXCEPT ![a] = q]
    /\ UNCHANGED <<ledger, alive, history, deaths>>

Recheck(q, a, c) ==
    /\ q \in alive /\ runner[a] = q
    /\ stage[a] = "spawned"
    /\ IF Exhausted(Reaped(record), Tightened(c))
       THEN /\ cap' = Tightened(c)
            /\ Store(record)
            /\ stage' = [stage EXCEPT ![a] = "refused"]
       ELSE /\ stage' = [stage EXCEPT ![a] = "running"]
            /\ UNCHANGED <<cap, record, unknownSpend>>
    /\ UNCHANGED <<forced, alive, runner, history, deaths>>

SettleAttempt(i, total, contacted) ==
    /\ Store([record EXCEPT ![i] = SettledRecord(record[i], total, contacted)])
    /\ UNCHANGED <<cap, forced>>

\* What could not be prepared, spawned or authorised is settled as not run.
Abort(p, a) ==
    /\ p \in alive /\ record[a].owner = p
    /\ stage[a] = "held"
    /\ SettleAttempt(a, NoTotal, "no")
    /\ stage' = [stage EXCEPT ![a] = "ended"]
    /\ UNCHANGED <<alive, runner, history, deaths>>

UseTokens(a) ==
    /\ stage[a] = "running" /\ runner[a] \in alive
    /\ used[a] < MaxUse
    /\ used' = [used EXCEPT ![a] = @ + 1]
    /\ UNCHANGED <<ledger, alive, stage, runner, granted, allowance, orphans, deaths>>

\* Usage streamed by a controlled attempt, whose keys are one: a total that may
\* lag behind, or an observation of another scope, which establishes nothing.
HeartbeatUsage(q, a, total) ==
    /\ q \in alive /\ runner[a] = q
    /\ stage[a] = "running" /\ Physical[a] = a
    /\ total \in 0..used[a] \cup {NoTotal}
    /\ Store([record EXCEPT ![a] = Observed(@, total)])
    /\ UNCHANGED <<cap, forced, alive, stage, runner, history, deaths>>

\* settle_envelope, by the process that ran the attempt.  The envelope carries
\* the attempt's total or none, and tells truly that nothing was contacted.
Settle(q, a, total, contacted) ==
    /\ q \in alive /\ runner[a] = q
    /\ stage[a] = "running"
    /\ total \in {used[a], NoTotal}
    /\ contacted = "no" => used[a] = 0
    /\ SettleAttempt(Physical[a], total, contacted)
    /\ stage' = [stage EXCEPT ![a] = IF Physical[a] = a THEN "ended" ELSE "superseding"]
    /\ UNCHANGED <<alive, runner, history, deaths>>

\* The reservation's own key, when the attempt ran under another one.
Supersede(q, a) ==
    /\ q \in alive /\ runner[a] = q
    /\ stage[a] = "superseding"
    /\ SettleAttempt(a, NoTotal, "no")
    /\ stage' = [stage EXCEPT ![a] = "ended"]
    /\ UNCHANGED <<alive, runner, history, deaths>>

\* A pool settles what a child left behind: no envelope, no telemetry.  (What a
\* child settled it settles again, in the same words.)
PoolSettles(p, a) ==
    /\ p \in Pools \cap alive /\ record[a].owner = p
    /\ stage[a] \in {"spawned", "running", "superseding"} /\ runner[a] \notin alive
    /\ SettleAttempt(a, NoTotal, "unknown")
    /\ stage' = [stage EXCEPT ![a] = "ended"]
    /\ UNCHANGED <<alive, runner, history, deaths>>

Orphaned(gone) ==
    {a \in Attempts : record[a].owner \in gone /\ stage[a] \in Unfinished}

\* mission cancel: reservations in flight are cancelled and living owners told
\* to terminate, which they may or may not.
CancelMission(killed) ==
    /\ ~forced
    /\ forced' = TRUE
    /\ killed \subseteq {record[i].owner : i \in {j \in Ids : record[j].status = "in_flight"}}
    /\ record' = [i \in Ids |->
                    IF record[i].status = "in_flight"
                    THEN [record[i] EXCEPT !.status = "cancelled", !.reserved = 0]
                    ELSE record[i]]
    /\ alive' = alive \ killed
    /\ orphans' = orphans \cup Orphaned(alive \cap killed)
    /\ UNCHANGED <<cap, unknownSpend, stage, runner, used, granted, allowance, deaths>>

\* A process ends when it has nothing left to do.  A launcher's work is done when
\* the child is spawned; a pool waits.
Exit(p) ==
    /\ p \in alive
    /\ \A a \in Attempts :
          /\ record[a].owner = p =>
                stage[a] # "held" /\ (p \in Pools => stage[a] \notin Unfinished)
          /\ runner[a] = p => stage[a] \notin Unfinished
    /\ alive' = alive \ {p}
    /\ orphans' = orphans \cup Orphaned({p})
    /\ UNCHANGED <<ledger, stage, runner, used, granted, allowance, deaths>>

Die(p) ==
    /\ p \in alive
    /\ deaths < MaxDeaths
    /\ deaths' = deaths + 1
    /\ alive' = alive \ {p}
    /\ orphans' = orphans \cup Orphaned({p})
    /\ UNCHANGED <<ledger, stage, runner, used, granted, allowance>>

Next ==
    \/ \E c \in Caps \cup {NoCap} : Configure(c)
    \/ \E p \in Processes, a \in Attempts :
          \/ ReserveLaunch(p, a)
          \/ Launch(p, a)
          \/ \E q \in Processes : Spawn(p, q, a)
          \/ \E c \in Caps \cup {NoCap} : Recheck(p, a, c)
          \/ Abort(p, a)
          \/ \E total \in 0..MaxUse \cup {NoTotal} : HeartbeatUsage(p, a, total)
          \/ \E total \in 0..MaxUse \cup {NoTotal}, contacted \in {"yes", "no", "unknown"} :
                Settle(p, a, total, contacted)
          \/ Supersede(p, a)
          \/ PoolSettles(p, a)
    \/ \E a \in Attempts : UseTokens(a)
    \/ \E killed \in SUBSET Processes : CancelMission(killed)
    \/ \E p \in Processes : Exit(p) \/ Die(p)

Spec == Init /\ [][Next]_vars

-----------------------------------------------------------------------------
(* Properties. *)

Records ==
    [status : Statuses, owner : Processes \cup {NoProcess}, reserved : Nat, work : 0..MaxUse,
     established : BOOLEAN, unknown : BOOLEAN]

\* The ledger and its surroundings have their types.
TypeOK ==
    /\ cap \in Caps \cup {NoCap}
    /\ record \in [Ids -> Records]
    /\ unknownSpend \in BOOLEAN /\ forced \in BOOLEAN
    /\ alive \subseteq Processes
    /\ stage \in [Attempts -> Stages]
    /\ runner \in [Attempts -> Processes \cup {NoProcess}]
    /\ used \in [Attempts -> 0..MaxUse]
    /\ granted \in [Attempts -> Nat]
    /\ allowance \in Nat
    /\ orphans \subseteq Attempts
    /\ deaths \in 0..MaxDeaths

Smaller(m, n) == IF m < n THEN m ELSE n

\* What attempt a takes up of the budget: all it was granted until it ends, then
\* what it used of that.  (What it used beyond it is the overshoot the docs allow.)
TakenUp(a) ==
    IF stage[a] \in Unfinished THEN granted[a] ELSE Smaller(granted[a], record[Physical[a]].work)

TakenUpBy(S) == SumFunction([a \in S |-> TakenUp(a)])

\* "concurrent schedulers racing for the final slice cannot both launch"
\* (_mission_budget.py, lines 11-13).  So far as the reserving process outlives
\* the attempt, what was granted never exceeds the cap it was granted under.
NoOverbooking == TakenUpBy(Attempts \ orphans) <= allowance

\* The same sentence of every attempt, whoever reserved it.
FinalSliceOnce == TakenUpBy(Attempts) <= allowance

\* An attempt that was settled after it had used tokens left its total in the
\* ledger, or the mark of unknown spend, which no later operation removes.
SettledSpendShows ==
    \A a \in Attempts :
        stage[a] \in {"superseding", "ended"} /\ used[a] > 0 =>
            \/ unknownSpend
            \/ record[Physical[a]].established

\* No attempt uses tokens before it runs, and only an attempt's own telemetry
\* establishes a total.  With the above this is inductive.
BudgetInv ==
    /\ TypeOK
    /\ \A a \in Attempts : stage[a] \in {"new", "held", "spawned", "refused"} => used[a] = 0
    /\ \A a \in Attempts : Physical[a] # a => ~record[a].established
    /\ SettledSpendShows

\* "settling each attempt so a crash cannot lose the spend (... interrupted attempts
\* fail closed on unknown spend)" (README.md, lines 1197-1199): when the ledger gives
\* up the hold of an attempt that was interrupted, the spend it does not know is marked.
\* (It does not hold, and no run checks it: README, "What was found".)
InterruptedFailClosed ==
    \A a \in Attempts :
        /\ record[a].status = "abandoned_owner_dead"
        /\ runner[a] \notin alive
        /\ used[a] > record[Physical[a]].work
        => unknownSpend

\* A reservation whose owner lives is given back only by the settlement of that
\* attempt, or by the cancellation of the mission.
HoldStands ==
    [][\A a \in Attempts :
         /\ record[a].status = "in_flight" /\ record[a].owner \in alive
         /\ record'[a].reserved # record[a].reserved
         => forced' \/ stage'[a] # stage[a]]_vars

\* A mission that is exhausted stays so: no settlement, late report or change of
\* the cap makes room again.
ExhaustionIsFinal ==
    [][Exhausted(Reaped(record), cap) => Exhausted(Reaped(record), cap)']_vars

=============================================================================

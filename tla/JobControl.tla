----------------------------- MODULE JobControl -----------------------------
(***************************************************************************)
(* A background job with adaptive timeouts: its attempts                   *)
(* (run_subagent.py), the read loop of each attempt (_executor.py) with    *)
(* its RuntimeControl (_job_control.py) and its graduated circuit breaker  *)
(* (_breaker.py), and the operator who extends, steers or cancels it.      *)
(*                                                                         *)
(* Attempts of one job share the command log, a seal with the high-water   *)
(* mark of what was applied, and the heartbeat; everything else an attempt *)
(* knows it finds by replaying the log.                                    *)
(*                                                                         *)
(* Abstracted: the number of transitions that seal and heartbeat repeat    *)
(* (reports only), the progress judge and the collection of signals (any   *)
(* verdict), the throttled heartbeat (published or not at every poll).     *)
(***************************************************************************)
EXTENDS ControlLog

CONSTANTS
    Checkpoint,     \* --timeout: the soft deadline, in clock units
    Grace,          \* the attention grace
    Budget,         \* --max-runtime
    Extension,      \* what one `jobs extend` asks for
    MaxExtension,   \* MAX_EXTENSION_MS: seven days, from the job's start
    Retries,        \* --retries
    Handoff,        \* SUMMON_CONTEXT_HANDOFF is "enforce"
    Operator,       \* what the operator may ask for
    Horizon,        \* bound on the clock
    MaxFaults,      \* bound on lost or damaged files
    NoSeal, NoBeat, NoRuntime, Damaged

VARIABLES
    seal,       \* the control seal: [known, constrained, stopped, cancel, level]
    beat,       \* the heartbeat: [gen, cancel, untrusted, decision]
    now,        \* wall clock, 0 when the job starts
    pc,         \* where the job process stands
    provider,   \* "none", "running", or "reported" once a terminal event was read
    attempt,    \* physical attempts started
    repaired,   \* the one corrective attempt was made
    rt,         \* RuntimeControl of the running attempt
    breaker,    \* level of its GraduatedBreaker
    faults,
    seen,       \* history: what attempts that ended without a result knew
    promised,   \* history: the latest hard deadline an attempt went by
    refused     \* history: when the job was refused another attempt

vars == <<log, seal, beat, now, pc, provider, attempt, repaired, rt, breaker,
          made, faults, seen, promised, refused>>

files == <<log, seal, beat>>

ASSUME JobAssumption ==
    /\ {Checkpoint, Grace, Budget} \subseteq Nat \ {0}
    /\ {Extension, MaxExtension, Retries, Horizon, MaxFaults} \subseteq Nat
    /\ Checkpoint <= Budget /\ Budget <= MaxExtension
    /\ Handoff \in BOOLEAN
    /\ Operator \subseteq {"extend", "cancel", "steer"}

CommandType == [action : Actions, from : Levels, to : Levels, at : Nat, id : Nat \ {0}]

DecisionType == [level : Levels, enforced : BOOLEAN, steer : BOOLEAN]

SealType == [known : Seq(CommandType), constrained : BOOLEAN, stopped : BOOLEAN,
             cancel : BOOLEAN, level : Levels]

BeatType == [gen : Nat, cancel : BOOLEAN, untrusted : BOOLEAN, decision : DecisionType]

RuntimeType == [gen : Nat, sealed : Nat, known : Seq(CommandType), cancel : BOOLEAN,
                untrusted : BOOLEAN, level : Levels, constrained : BOOLEAN,
                stopped : BOOLEAN, handoff : BOOLEAN, attention : BOOLEAN,
                hard : Nat, soft : Nat, decision : DecisionType]

ASSUME NullAssumption ==
    /\ NoSeal \notin SealType /\ NoBeat \notin BeatType /\ NoRuntime \notin RuntimeType
    /\ Damaged \notin SealType \cup BeatType \cup {NoSeal, NoBeat}

AtMost(a, b) == IF a <= b THEN a ELSE b

Over == pc = "over"
-----------------------------------------------------------------------------
(* Replaying commands. *)

ExtendBy_Uncapped(r, c) == IF c.at <= r.hard THEN Extension ELSE 0

\* What command c does to the runtime control r.
ExtendBy(r, c) ==
    IF c.at <= r.hard THEN AtMost(Extension, MaxExtension - r.hard) ELSE 0

Applied(c, r) ==
    LET s == [r EXCEPT !.gen = @ + 1, !.known = IF Len(@) < r.gen + 1
                                                  THEN Append(@, c) ELSE @]
    IN  CASE c.action = "cancel"  -> [s EXCEPT !.cancel = TRUE]
          [] c.action = "extend"  -> [s EXCEPT !.hard = @ + ExtendBy(r, c),
                                               !.soft = @ + ExtendBy(r, c),
                                               !.attention = @ /\ ExtendBy(r, c) = 0]
          [] c.action = "handoff" -> [s EXCEPT !.handoff = TRUE]
          [] c.action = "breaker" ->
               [s EXCEPT !.level = c.to,
                         !.constrained = IF ~Enforce THEN @
                                         ELSE CASE c.to = Constrained -> TRUE
                                                [] c.to = Healthy     -> FALSE
                                                [] OTHER              -> @,
                         !.stopped = @ \/ (Enforce /\ c.to = Stopped)]
          [] OTHER -> s

Trusted_Unsealed(l, r) ==
    /\ ValidCommands(l)
    /\ Len(l) >= r.gen

\* The log must not be shorter than what was applied or sealed before, and must
\* repeat it: a log that was lost or begun again is not to be trusted.
Trusted(l, r) ==
    /\ ValidCommands(l)
    /\ Len(l) >= r.gen
    /\ Len(l) >= r.sealed
    /\ \A i \in DOMAIN r.known : i <= Len(l) => l[i] = r.known[i]

\* r after it has applied the commands of l that it has not applied yet.
Replayed(l, r) ==
    LET after[n \in r.gen .. Len(l)] ==
          IF n = r.gen THEN r ELSE Applied(l[n], after[n - 1])
    IN  after[Len(l)]

\* _refresh_locked: the runtime control after it has looked at log l.
Refreshed(l, r) ==
    IF r.untrusted THEN r
    ELSE IF ~Trusted(l, r) THEN [r EXCEPT !.untrusted = TRUE]
    ELSE Replayed(l, r)

SealOf(r) == [known |-> SubSeq(r.known, 1, r.gen), constrained |-> r.constrained,
              stopped |-> r.stopped, cancel |-> r.cancel, level |-> r.level]

\* A refresh of r stores the seal when it saw something new; the write of the
\* seal may fail, and is then tried again when there is more to store.
StoreRefresh(l, r) ==
    LET s == Refreshed(l, r) IN
    /\ promised' = IF s.hard > promised THEN s.hard ELSE promised
    /\ IF ~s.untrusted /\ s.gen > s.sealed
         THEN \/ /\ seal' = SealOf(s)
                 /\ rt' = [s EXCEPT !.sealed = s.gen]
                 /\ UNCHANGED faults
              \/ /\ faults < MaxFaults
                 /\ faults' = faults + 1
                 /\ rt' = s
                 /\ UNCHANGED seal
         ELSE rt' = s /\ UNCHANGED <<seal, faults>>

KeepFiles == UNCHANGED <<log, made, seal, faults, promised>>
-----------------------------------------------------------------------------
(* A new attempt. *)

\* What the breaker decided at a checkpoint, as the heartbeat shows it.
Decision(from, to) == [level |-> to, enforced |-> Enforce /\ from # to,
                       steer |-> Enforce /\ from < to /\ to = Steering]

\* RuntimeControl.__init__ before it reads any file.
Fresh == [gen |-> 0, sealed |-> 0, known |-> << >>, cancel |-> FALSE,
          untrusted |-> FALSE, level |-> Healthy, constrained |-> FALSE,
          stopped |-> FALSE, handoff |-> FALSE, attention |-> FALSE,
          hard |-> Budget, soft |-> AtMost(now + Checkpoint, Budget),
          decision |-> Decision(Healthy, Healthy)]

FromSeal_Replayed(r) ==
    IF seal \in {NoSeal, Damaged} THEN [r EXCEPT !.untrusted = seal = Damaged]
    ELSE [r EXCEPT !.sealed = Len(seal.known), !.known = seal.known,
                   !.gen = Len(seal.known), !.constrained = seal.constrained,
                   !.stopped = seal.stopped, !.cancel = seal.cancel,
                   !.level = seal.level]

FromSeal(r) ==
    IF seal = NoSeal THEN r
    ELSE IF seal = Damaged THEN [r EXCEPT !.untrusted = TRUE]
    ELSE [r EXCEPT !.sealed = Len(seal.known), !.known = seal.known,
                   !.constrained = seal.constrained, !.stopped = seal.stopped,
                   !.cancel = seal.cancel, !.level = seal.level]

FromBeat(r) ==
    IF beat = NoBeat THEN r
    ELSE IF beat = Damaged THEN [r EXCEPT !.untrusted = TRUE]
    ELSE LET d == beat.decision
         IN  [r EXCEPT !.sealed = IF beat.gen > @ THEN beat.gen ELSE @,
                       !.cancel = @ \/ beat.cancel,
                       !.untrusted = @ \/ beat.untrusted,
                       !.constrained = @ \/ (d.enforced /\ d.level = Constrained),
                       !.stopped = @ \/ (d.enforced /\ d.level = Stopped),
                       !.level = IF d.enforced /\ d.level > @ THEN d.level ELSE @]

Salvaged_Not(r) == r

\* _salvage_authenticated_control_state: what an intact log still asks for is
\* kept although seal or heartbeat cannot be trusted.
Salvaged(r) ==
    IF ~r.untrusted \/ log = NoLog \/ ~ValidCommands(log) THEN r
    ELSE [r EXCEPT !.gen = IF Len(log) > @ THEN Len(log) ELSE @,
                   !.cancel = @ \/ Has(log, "cancel"),
                   !.handoff = @ \/ Has(log, "handoff"),
                   !.constrained = @ \/ Contained(log),
                   !.stopped = @ \/ StopAsked(log),
                   !.level = IF Len(log) >= r.sealed \/ LogLevel(log) > @
                               THEN LogLevel(log) ELSE @]

\* _load_prior_high_water.
Loaded == Salvaged(FromBeat(FromSeal(Fresh)))

\* execute_agent: the budget of the job is looked at before every launch, then
\* the provider is started.  The runtime control is made afterwards.
Start ==
    /\ pc = "ready"
    /\ IF now >= Budget
         THEN /\ pc' = "over"
              /\ refused' = refused \cup {now}
              /\ UNCHANGED <<provider, attempt>>
         ELSE /\ pc' = "launched"
              /\ provider' = "running"
              /\ attempt' = attempt + 1
              /\ UNCHANGED refused
    /\ UNCHANGED <<files, now, repaired, rt, breaker, made, faults, seen, promised>>

Load ==
    /\ pc = "launched"
    /\ pc' = "polling"
    /\ rt' = Loaded
    /\ breaker' = Healthy
    /\ UNCHANGED <<files, now, provider, attempt, repaired, made, faults, seen,
                   promised, refused>>
-----------------------------------------------------------------------------
(* The read loop of an attempt. *)

\* The attempt ends with a result, or without one: `cancelled` is the typed
\* end that run_subagent does not retry.
EndAttempt(how) ==
    /\ provider' = "none"
    /\ rt' = NoRuntime
    /\ seen' = seen \cup {w \in {"cancel", "containment"} :
                            /\ how # "success"
                            /\ w = "cancel" => rt.cancel
                            /\ w = "containment" => how = "contained" /\ ~rt.untrusted}
    /\ pc' = CASE how = "cancelled" -> "over"
               [] how = "success"   -> "repair"
               [] OTHER             -> IF attempt <= Retries THEN "ready" ELSE "over"

KeepAttempt == UNCHANGED <<provider, seen>>

\* First part of an iteration: refresh, then the breaker takes over the level
\* that the log prescribes.
Refresh ==
    /\ pc \in {"polling", "closed"}
    /\ StoreRefresh(log, rt)
    /\ breaker' = rt'.level
    /\ pc' = IF pc = "polling" THEN "acting" ELSE "closing"
    /\ UNCHANGED <<log, beat, now, provider, attempt, repaired, made, seen, refused>>

Due(r) == r.soft <= now /\ now < r.hard

\* RuntimeControl.checkpoint.
Checked(r, active) ==
    LET left == IF r.hard > r.soft THEN r.hard - r.soft ELSE 0 IN
    IF ~Due(r) \/ left = 0 THEN r
    ELSE IF active
      THEN [r EXCEPT !.soft = @ + AtMost(Checkpoint, left), !.attention = @ /\ r.handoff]
    ELSE IF r.attention THEN r
    ELSE [r EXCEPT !.soft = @ + AtMost(Grace, left), !.attention = TRUE]

\* GraduatedBreaker.evaluate: at most one level per checkpoint.
NextLevel(level, triggered) ==
    IF level = Stopped THEN Stopped
    ELSE IF triggered THEN AtMost(level + 1, IF AllowStop THEN Stopped ELSE Constrained)
    ELSE IF level > Healthy THEN level - 1 ELSE Healthy

\* record_breaker without an append: the level is kept in memory only.
Remembered(r, from, to) ==
    LET e == Enforce /\ from # to IN
    [r EXCEPT !.decision = Decision(from, to), !.level = to,
              !.constrained = IF ~e THEN @ ELSE (to = Constrained \/ (@ /\ to # Healthy)),
              !.stopped = @ \/ (e /\ to = Stopped)]

RecordBreaker_KeepsLevel(r, triggered) ==
    LET to  == NextLevel(breaker, triggered)
        cmd == Command("breaker", breaker, to, now, made + 1)
        new == Append(log, cmd)
        stays == to = breaker \/ r.untrusted \/ BreakerRefusal(log, breaker, to, cmd) # ""
    IN  \/ /\ stays
           /\ rt' = Remembered(r, breaker, to)
           /\ breaker' = to
           /\ KeepFiles
        \/ /\ ~stays
           /\ log' = new
           /\ made' = made + 1
           /\ breaker' = to
           /\ StoreRefresh(new, [r EXCEPT !.decision = Decision(breaker, to)])

\* record_breaker: a transition is appended to the log and found there by a
\* refresh; when the append is refused, or the lock of the log is busy, the
\* breaker falls back to the level it had, except that a shadow breaker goes on
\* in memory at its limit.
RecordBreaker(r, triggered) ==
    LET to  == NextLevel(breaker, triggered)
        cmd == Command("breaker", breaker, to, now, made + 1)
        why == BreakerRefusal(log, breaker, to, cmd)
        new == Append(log, cmd)
        stays == to = breaker \/ r.untrusted
    IN  \/ /\ stays \/ (why = "limit" /\ ~Enforce)
           /\ rt' = Remembered(r, breaker, to)
           /\ breaker' = to
           /\ KeepFiles
        \/ /\ ~stays
           /\ why = "refused" \/ (why = "limit" /\ Enforce)
           /\ rt' = r
           /\ UNCHANGED breaker
           /\ KeepFiles
        \/ /\ ~stays /\ why = ""
           /\ faults < MaxFaults
           /\ faults' = faults + 1
           /\ rt' = r
           /\ UNCHANGED <<log, made, seal, promised, breaker>>
        \/ /\ ~stays /\ why = ""
           /\ log' = new
           /\ made' = made + 1
           /\ breaker' = to
           /\ StoreRefresh(new, [r EXCEPT !.decision = Decision(breaker, to)])

\* At a due checkpoint the lease is renewed, or not, and the breaker evaluated;
\* a breaker that is back at healthy contains nothing any more.
CheckpointStep ==
    /\ pc = "acting"
    /\ \/ /\ ~Due(rt)
          /\ pc' = "deciding"
          /\ UNCHANGED <<breaker, rt>>
          /\ KeepFiles
       \/ /\ Due(rt)
          /\ pc' = "handing"
          /\ \E active, triggered \in BOOLEAN :
                RecordBreaker(Checked(rt, active), triggered)
    /\ seen' = IF breaker # Healthy /\ breaker' = Healthy
                 THEN seen \ {"containment"} ELSE seen
    /\ UNCHANGED <<beat, now, provider, attempt, repaired, refused>>

\* An enforced step up to steering asks for attention.
Steered(r) ==
    [r EXCEPT !.attention = @ \/ r.decision.steer, !.decision.steer = FALSE]

\* The same checkpoint looks at the context window: once it is nearly full the
\* handoff directive is appended (record_context_handoff).
HandoffStep ==
    /\ pc = "handing"
    /\ pc' = "deciding"
    /\ \/ /\ rt' = Steered(rt)
          /\ KeepFiles
       \/ /\ Handoff /\ ~rt.untrusted /\ ~rt.handoff
          /\ HandoffFits(log)
          /\ LET new == Append(log, Command("handoff", 0, 0, now, made + 1))
             IN  /\ log' = new
                 /\ made' = made + 1
                 /\ StoreRefresh(new, [Steered(rt) EXCEPT !.handoff = TRUE,
                                                         !.attention = TRUE])
    /\ UNCHANGED <<beat, now, attempt, repaired, breaker, refused>>
    /\ KeepAttempt

Containing(r) == Enforce /\ (r.stopped \/ r.constrained)

Published(r) == [gen |-> r.gen, cancel |-> r.cancel, untrusted |-> r.untrusted,
                 decision |-> r.decision]

Publish == beat' = Published(rt) \/ UNCHANGED beat

Decide_NoCancel ==
    /\ pc = "deciding"
    /\ Publish
    /\ IF provider = "reported" \/ ~(Containing(rt) \/ now >= rt.soft)
         THEN pc' = "polling" /\ UNCHANGED rt /\ KeepAttempt
       ELSE EndAttempt(IF Containing(rt) THEN "contained" ELSE "timeout")
    /\ UNCHANGED <<log, seal, now, attempt, repaired, breaker, made, faults, promised,
                   refused>>

\* Last part of an iteration: enforced containment, an operator's cancel and
\* an expired deadline end the attempt, in this order; none of them touches an
\* attempt whose provider has reported.
Decide ==
    /\ pc = "deciding"
    /\ Publish
    /\ IF provider = "reported" \/ ~(Containing(rt) \/ rt.cancel \/ now >= rt.soft)
         THEN pc' = "polling" /\ UNCHANGED rt /\ KeepAttempt
       ELSE EndAttempt(IF Containing(rt) THEN "contained"
                       ELSE IF rt.cancel THEN "cancelled" ELSE "timeout")
    /\ UNCHANGED <<log, seal, now, attempt, repaired, breaker, made, faults, promised,
                   refused>>

DecideClosed_NoDeadline ==
    /\ pc = "closing"
    /\ Publish
    /\ IF ~rt.cancel
         THEN pc' = "closed" /\ UNCHANGED rt /\ KeepAttempt
         ELSE EndAttempt("error")
    /\ UNCHANGED <<log, seal, now, attempt, repaired, breaker, made, faults, promised,
                   refused>>

\* The loop that waits for a provider which closed its output: it looks for a
\* cancel and for the deadline, not at the breaker.
DecideClosed ==
    /\ pc = "closing"
    /\ Publish
    /\ IF ~rt.cancel /\ now < rt.hard
         THEN pc' = "closed" /\ UNCHANGED rt /\ KeepAttempt
         ELSE EndAttempt(IF rt.cancel THEN "error" ELSE "timeout")
    /\ UNCHANGED <<log, seal, now, attempt, repaired, breaker, made, faults, promised,
                   refused>>
-----------------------------------------------------------------------------
(* The provider, the job process, the operator and the files. *)

\* A terminal event was read: the provider is asked to leave.
Report ==
    /\ pc = "polling" /\ provider = "running"
    /\ provider' = "reported"
    /\ UNCHANGED <<files, now, pc, attempt, repaired, rt, breaker, made, faults,
                   seen, promised, refused>>

\* It leaves, or is reaped when its grace is over: the result stands.
Reap ==
    /\ pc = "polling" /\ provider = "reported"
    /\ EndAttempt("success")
    /\ UNCHANGED <<files, now, attempt, repaired, breaker, made, faults, promised,
                   refused>>

CloseOutput ==
    /\ pc = "polling" /\ provider = "running"
    /\ pc' = "closed"
    /\ UNCHANGED <<files, now, provider, attempt, repaired, rt, breaker, made,
                   faults, seen, promised, refused>>

\* A provider whose output is closed exits, with or without a usable result.
Exit ==
    /\ pc = "closed"
    /\ EndAttempt("success") \/ EndAttempt("error")
    /\ UNCHANGED <<files, now, attempt, repaired, breaker, made, faults, promised,
                   refused>>

\* A result that lacks its report gets one corrective attempt.
Repair ==
    /\ pc = "repair"
    /\ \/ pc' = "over" /\ UNCHANGED repaired
       \/ ~repaired /\ pc' = "ready" /\ repaired' = TRUE
    /\ UNCHANGED <<files, now, provider, attempt, rt, breaker, made, faults, seen,
                   promised, refused>>

\* queue_command: refused once the job's result is there.
Queue ==
    /\ ~Over
    /\ QueueFits(log)
    /\ \E action \in Operator :
          log' = Append(log, Command(action, 0, 0, now, made + 1))
    /\ made' = made + 1
    /\ UNCHANGED <<seal, beat, now, pc, provider, attempt, repaired, rt, breaker,
                   faults, seen, promised, refused>>

\* External: a file is lost, or found damaged.
Damage ==
    /\ faults < MaxFaults
    /\ faults' = faults + 1
    /\ \/ log # NoLog /\ log' = NoLog /\ UNCHANGED <<seal, beat>>
       \/ seal # NoSeal /\ seal' = Damaged /\ UNCHANGED <<log, beat>>
       \/ beat # NoBeat /\ beat' = Damaged /\ UNCHANGED <<log, seal>>
    /\ UNCHANGED <<now, pc, provider, attempt, repaired, rt, breaker, made, seen,
                   promised, refused>>

Tick ==
    /\ now < Horizon
    /\ now' = now + 1
    /\ UNCHANGED <<files, pc, provider, attempt, repaired, rt, breaker, made,
                   faults, seen, promised, refused>>

Init ==
    /\ log = NoLog /\ seal = NoSeal /\ beat = NoBeat
    /\ now = 0 /\ pc = "ready" /\ provider = "none"
    /\ attempt = 0 /\ repaired = FALSE
    /\ rt = NoRuntime /\ breaker = Healthy
    /\ made = 0 /\ faults = 0 /\ seen = {} /\ promised = Budget /\ refused = {}

JobStep ==
    \/ Start \/ Load \/ Refresh \/ CheckpointStep \/ HandoffStep \/ Decide
    \/ DecideClosed \/ Reap \/ Repair

Ended == Over /\ UNCHANGED vars

Next == JobStep \/ Report \/ CloseOutput \/ Exit \/ Queue \/ Damage \/ Tick \/ Ended

Spec == Init /\ [][Next]_vars

\* The job process runs, and the grace of a provider that has reported ends by
\* itself; operator, provider and clock owe nothing.
FairSpec == Spec /\ WF_vars(JobStep) /\ SF_vars(Reap)
-----------------------------------------------------------------------------
(* Properties. *)

IsLog(l) ==
    /\ l \in Seq(CommandType) /\ Len(l) <= MaxCommands
    /\ \A i \in DOMAIN l : l[i].id <= made

\* The state has its type: in particular no deadline lies beyond the longest
\* runtime that extensions may add up to, and the soft deadline never lies
\* beyond the hard one (RuntimeControl.checkpoint, _refresh_locked).
TypeOK ==
    /\ IsLog(log)
    /\ seal \in SealType \cup {NoSeal, Damaged}
    /\ seal \in SealType => IsLog(seal.known)
    /\ beat \in BeatType \cup {NoBeat, Damaged}
    /\ now \in 0 .. Horizon /\ made \in Nat /\ faults \in 0 .. MaxFaults
    /\ pc \in {"ready", "launched", "polling", "acting", "handing", "deciding",
               "closed", "closing", "repair", "over"}
    /\ provider \in {"none", "running", "reported"}
    /\ attempt \in 0 .. Retries + 2 /\ repaired \in BOOLEAN
    /\ breaker \in Levels
    /\ rt \in RuntimeType \cup {NoRuntime}
    /\ rt # NoRuntime =>
          /\ IsLog(rt.known) /\ rt.gen <= MaxCommands
          /\ rt.soft <= rt.hard
          /\ rt.hard <= MaxExtension
    /\ (rt = NoRuntime) = (pc \in {"ready", "launched", "repair", "over"})
    /\ seen \subseteq {"cancel", "containment"}
    /\ promised \in Budget .. MaxExtension

Looked == pc \in {"acting", "handing", "deciding", "closing"}

\* What an attempt knew when it was stopped, a cancel or an enforced
\* containment, every later attempt of the job knows once it has looked,
\* although one file was lost or damaged in between (_load_prior_high_water,
\* _salvage_authenticated_control_state); a containment until the breaker has
\* gone back to healthy.
KnowledgeSurvives ==
    (Looked /\ faults <= 1) =>
        /\ "cancel" \in seen => rt.cancel
        /\ "containment" \in seen => Containing(rt)

\* An enforcing breaker, the runtime control and what they have read of the log
\* agree on the level whenever an iteration decides, although appends may be
\* refused or one file be lost: otherwise no later transition could be appended
\* (record_breaker).
LevelsAgree ==
    (Enforce /\ pc = "deciding" /\ ~rt.untrusted /\ faults <= 1) =>
        /\ breaker = rt.level
        /\ rt.level = LevelAt(rt.known, rt.gen)

\* Types, and the agreement on the level.
ControlInv == TypeOK /\ LevelsAgree

\* Every attempt that trusts the log arrives at the deadlines an earlier attempt
\* went by, whenever it replays the extensions, although one file was lost
\* (RuntimeControl._refresh_locked).
DeadlineStands == (Looked /\ ~rt.untrusted /\ faults <= 1) => rt.hard >= promised

\* A queued cancel ends the job although the provider goes on for ever and no
\* deadline passes, whatever the attempt is doing, as long as no file is lost:
\* what is lost may be the cancel (the read loop and the loop that waits for a
\* provider that closed its output, _executor.py).
CancelStops == Has(log, "cancel") ~> (Over \/ faults > 0)

\* Every job ends once the longest runtime has passed, although its files may be
\* damaged, its provider silent and its deadline extended.
JobEnds == (now >= MaxExtension) ~> Over

\* Once an attempt was stopped that knew of the operator's cancel, the job
\* contacts no provider again.
\* (It does not hold, and no run checks it: README, "What was found".)
CancelIsFinal == [][("cancel" \in seen) => attempt' = attempt]_vars

\* The job is refused another attempt for lack of runtime only when the deadline
\* that it runs by, extensions included, has passed.
\* (It does not hold, and no run checks it: README, "What was found".)
ExtensionHonoured == \A t \in refused : t >= promised
=============================================================================

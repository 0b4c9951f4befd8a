----------------------------- MODULE HookBridge -----------------------------
(***************************************************************************)
(* The in-flight hook bridge (_hook_bridge.py).  A running agent starts a  *)
(* hook process before and after each tool call, several at a time when it *)
(* calls tools in parallel.  A hook reads the command log of the job, then *)
(* takes the lock of hook_state.json, compares, records and releases, and  *)
(* only then prints its answer: a denial, or steering text for the agent.  *)
(* The agent may kill a hook at any moment.                                *)
(*                                                                         *)
(* The lock is a lock here; what its file protocol does is in LockFile.    *)
(***************************************************************************)
EXTENDS ControlLog

CONSTANTS
    Hooks,          \* hook processes that may run at the same time
    MaxMade,        \* bound on the commands made for the job
    MaxEvents,      \* bound on the hook events
    MaxLost         \* bound on losses of the log file

VARIABLES
    file,       \* hook_state.json: [high, sticky, emitted]
    hook,       \* hook process -> [pc, event, writes, snap, answer, steers]
    events,     \* hook events so far
    printed,    \* history: command -> how often its text reached the agent
    lost,       \* history: how often the log was lost
    known       \* history: [cancel, max] that evaluated events had read

hookvars == <<log, made, file, hook, events, printed, lost, known>>

ASSUME HookAssumption == {MaxMade, MaxEvents, MaxLost} \subseteq Nat

Idle == [pc |-> "idle"]

\* Commands whose text an agent can be given: steering by the operator, and the
\* breaker's own when it enforces.
Steers(l) ==
    {i \in DOMAIN l :
        \/ l[i].action = "steer"
        \/ /\ Enforce /\ l[i].action = "breaker"
           /\ l[i].to = Steering /\ l[i].from < Steering}

Snapshot_NextGeneration(l) ==
    [log         |-> l,
     max         |-> Len(l) + 1,
     cancel      |-> Has(l, "cancel"),
     constrained |-> Enforce /\ LogLevel(l) = Constrained,
     stopped     |-> Enforce /\ LogLevel(l) = Stopped,
     steers      |-> Steers(l)]

\* _verified_job_control_snapshot: here only the last enforced level counts.
Snapshot(l) == [log         |-> l,
                max         |-> Len(l),
                cancel      |-> Has(l, "cancel"),
                constrained |-> Enforce /\ LogLevel(l) = Constrained,
                stopped     |-> Enforce /\ LogLevel(l) = Stopped,
                steers      |-> Steers(l)]

\* Steers by generation that hook_state.json does not list as emitted.
Pending(snap) == snap.steers \ file.emitted

Denial_NotSticky(h, f) ==
    LET s == hook[h].snap IN
    IF hook[h].event # "PreToolUse"         THEN ""
    ELSE IF s.max < f.high                  THEN "rollback"
    ELSE IF s.cancel \/ s.stopped           THEN "stopped"
    ELSE IF s.constrained /\ hook[h].writes THEN "constrained"
    ELSE ""

\* Why a tool call is denied, "" when it is let through.
Denial(h, f) ==
    LET s == hook[h].snap IN
    IF hook[h].event # "PreToolUse"            THEN ""
    ELSE IF s.max < f.high                     THEN "rollback"
    ELSE IF s.cancel \/ f.sticky \/ s.stopped  THEN "stopped"
    ELSE IF s.constrained /\ hook[h].writes    THEN "constrained"
    ELSE ""

Read(h) ==
    /\ hook[h].pc = "idle"
    /\ events < MaxEvents
    /\ events' = events + 1
    /\ \E event \in {"PreToolUse", "PostToolUse"}, writes \in BOOLEAN :
          hook' = [hook EXCEPT ![h] =
                      [pc |-> "read", event |-> event, writes |-> writes,
                       snap |-> Snapshot(log), answer |-> "", steers |-> {}]]
    /\ UNCHANGED <<log, made, file, printed, lost, known>>

Evaluate_PrintsFirst(h) ==
    /\ hook[h].pc = "read"
    /\ LET s == hook[h].snap IN
       /\ hook' = [hook EXCEPT ![h].pc = "decided",
                               ![h].answer = Denial(h, file),
                               ![h].steers = {s.log[i].id : i \in Pending(s)}]
       /\ file' = [file EXCEPT !.high = IF s.max > @ THEN s.max ELSE @,
                               !.sticky = @ \/ s.cancel]
    /\ UNCHANGED <<log, made, events, printed, lost, known>>

\* The part under the lock: the marks are raised, the pending steers recorded as
\* emitted, the answer decided.
Evaluate(h) ==
    /\ hook[h].pc = "read"
    /\ LET s == hook[h].snap IN
       /\ hook' = [hook EXCEPT ![h].pc = "decided",
                               ![h].answer = Denial(h, file),
                               ![h].steers = {s.log[i].id : i \in Pending(s)}]
       /\ file' = [high    |-> IF s.max > file.high THEN s.max ELSE file.high,
                   sticky  |-> file.sticky \/ s.cancel,
                   emitted |-> file.emitted \cup s.steers]
       /\ known' = [cancel |-> known.cancel \/ s.cancel,
                    max    |-> IF s.max > known.max THEN s.max ELSE known.max]
    /\ UNCHANGED <<log, made, events, printed, lost>>

\* The answer goes to the agent.
Answer(h) ==
    /\ hook[h].pc = "decided"
    /\ printed' = [i \in DOMAIN printed |->
                      printed[i] + (IF i \in hook[h].steers THEN 1 ELSE 0)]
    /\ hook' = [hook EXCEPT ![h] = Idle]
    /\ UNCHANGED <<log, made, file, events, lost, known>>

\* The agent kills a hook.
Kill(h) ==
    /\ hook[h].pc # "idle"
    /\ hook' = [hook EXCEPT ![h] = Idle]
    /\ UNCHANGED <<log, made, file, events, printed, lost, known>>

\* The operator and the breaker of the running job append.
QueueCommand ==
    /\ made < MaxMade
    /\ QueueFits(log)
    /\ \E action \in {"cancel", "steer"} :
          log' = Append(log, Command(action, 0, 0, 0, made + 1))
    /\ made' = made + 1
    /\ UNCHANGED <<file, hook, events, printed, lost, known>>

BreakerMoves ==
    /\ made < MaxMade
    /\ \E to \in Levels :
          LET cmd == Command("breaker", LogLevel(log), to, 0, made + 1) IN
          /\ BreakerRefusal(log, LogLevel(log), to, cmd) = ""
          /\ log' = Append(log, cmd)
    /\ made' = made + 1
    /\ UNCHANGED <<file, hook, events, printed, lost, known>>

\* External: the log file is lost; the next append begins a new one.
Lose ==
    /\ lost < MaxLost /\ log # NoLog
    /\ log' = NoLog
    /\ lost' = lost + 1
    /\ UNCHANGED <<made, file, hook, events, printed, known>>

HookInit ==
    /\ log = NoLog /\ made = 0
    /\ file = [high |-> 0, sticky |-> FALSE, emitted |-> {}]
    /\ hook = [h \in Hooks |-> Idle]
    /\ events = 0 /\ lost = 0
    /\ printed = [i \in 1 .. MaxMade |-> 0]
    /\ known = [cancel |-> FALSE, max |-> 0]

HookNext ==
    \/ \E h \in Hooks : Read(h) \/ Evaluate(h) \/ Answer(h) \/ Kill(h)
    \/ QueueCommand \/ BreakerMoves \/ Lose

HookSpec == HookInit /\ [][HookNext]_hookvars
-----------------------------------------------------------------------------
(* Properties. *)

Busy == {h \in Hooks : hook[h].pc # "idle"}

\* What a hook process holds; its snapshot is one of a log that fits.
HookOK(r) ==
    /\ r \in [pc : {"read", "decided"}, event : {"PreToolUse", "PostToolUse"},
              writes : BOOLEAN, snap : {r.snap},
              answer : {"", "rollback", "stopped", "constrained"},
              steers : SUBSET (1 .. made)]
    /\ r.snap.cancel \in BOOLEAN
    /\ r.snap.max = Len(r.snap.log) /\ r.snap.max <= MaxCommands
    /\ r.snap.steers \subseteq DOMAIN r.snap.log

\* The versions of the log: the file, and what the hooks have read, lost logs
\* that a hook still holds included.
Logs == {log} \cup {hook[h].snap.log : h \in Busy}

\* The state has its type, and the state file never runs ahead of what was made.
HookTypeOK ==
    /\ made \in 0 .. MaxMade
    /\ Len(log) <= MaxCommands
    /\ \A l \in Logs : l \in Seq(Range(l))
    /\ file \in [high : 0 .. MaxCommands, sticky : BOOLEAN, emitted : SUBSET (1 .. MaxCommands)]
    /\ known \in [cancel : BOOLEAN, max : 0 .. MaxCommands]
    /\ printed \in [1 .. MaxMade -> Nat]
    /\ \A i \in 1 .. MaxMade : printed[i] > 0 => i <= made
    /\ DOMAIN hook = Hooks
    /\ \A h \in Hooks : hook[h] = Idle \/ HookOK(hook[h])

\* The agent is given the text of a command at most once, although hooks run at
\* the same time, die between their steps, and the log may be lost and begun
\* again ("at-most-once emitted semantics", evaluate_hook_event).
EmittedOnce == \A i \in 1 .. MaxMade : printed[i] <= 1

\* Why: the versions of the log keep a command in the same place,
OnePlace ==
    \A l, m \in Logs : \A i \in DOMAIN l, j \in DOMAIN m :
        /\ l[i].id \in 1 .. made
        /\ l[i].id = m[j].id => i = j

\* and a text that was given, or that a hook is about to give, has its place marked.
Giving(i) == {h \in Busy : hook[h].pc = "decided" /\ i \in hook[h].steers}

PlaceMarked ==
    \A l \in Logs : \A i \in DOMAIN l :
        (printed[l[i].id] > 0 \/ Giving(l[i].id) # {}) => i \in file.emitted

GivenByOne ==
    \A i \in 1 .. MaxMade :
        /\ \A g, h \in Giving(i) : g = h
        /\ printed[i] > 0 => Giving(i) = {}

\* Types, steering at most once with the reasons for it, and the cancel marked.
HookInv ==
    /\ HookTypeOK /\ EmittedOnce
    /\ OnePlace /\ PlaceMarked /\ GivenByOne
    /\ known.cancel => file.sticky

\* Once an event was evaluated that had read a cancel, no later evaluation lets
\* a tool call through, although the log may have been lost and written again.
CancelSticks ==
    [][\A h \in Hooks :
          (/\ known.cancel
           /\ hook[h].pc = "read" /\ hook'[h].pc = "decided"
           /\ hook[h].event = "PreToolUse")
            => hook'[h].answer # ""]_hookvars

\* A call is denied for a rollback of the log only if the log was rolled back.
\* (It does not hold, and no run checks it: README, "What was found".)
NoFalseRollback ==
    \A h \in Hooks : (hook[h].pc = "decided" /\ hook[h].answer = "rollback") => lost > 0
=============================================================================

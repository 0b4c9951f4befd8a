----------------------------- MODULE ControlLog -----------------------------
(***************************************************************************)
(* The authenticated command log of one background job                     *)
(* (_job_control.py): an append-only sequence of operator commands, of     *)
(* transitions of the circuit breaker and of at most one context handoff.  *)
(* Every append reads, checks and replaces the file under an operating     *)
(* system lock, so it is one step.  A log that does not exist is NoLog.    *)
(* Digests and HMACs are abstracted to the identity of a command: `id`     *)
(* numbers the commands in the order in which they were made, so that a    *)
(* log that was lost and begun again differs from the old one.             *)
(***************************************************************************)
EXTENDS Naturals, Sequences, FiniteSetsExt, SequencesExt

CONSTANTS
    MaxCommands,    \* commands a log may hold
    MaxBreaker,     \* breaker transitions among them
    Enforce,        \* SUMMON_BREAKER is "enforce" (otherwise "shadow")
    AllowStop       \* SUMMON_BREAKER_ALLOW_STOP

VARIABLES
    log,    \* control.json
    made    \* commands made so far, for their identities

ASSUME LogAssumption ==
    /\ MaxCommands \in Nat /\ MaxBreaker \in Nat
    /\ Enforce \in BOOLEAN /\ AllowStop \in BOOLEAN

\* LEVELS of the breaker, by rank.
Healthy     == 0
Steering    == 1
Constrained == 2
Stopped     == 3
Levels      == Healthy .. Stopped

Actions == {"extend", "cancel", "steer", "handoff", "breaker"}

\* A command; `from` and `to` matter to breaker commands only, and the time it
\* was made at to extensions only.
Command(action, from, to, at, id) ==
    [action |-> action, from |-> from, to |-> to,
     at |-> IF action = "extend" THEN at ELSE 0, id |-> id]

\* A log that does not exist holds no commands, and no log is written without one.
NoLog == << >>

\* The places of the breaker commands in log l.
Breakers(l) == {i \in DOMAIN l : l[i].action = "breaker"}

Has(l, action) == \E i \in DOMAIN l : l[i].action = action

\* The level at which the first n commands leave the breaker.
LevelAt(l, n) ==
    LET b == {i \in Breakers(l) : i <= n}
    IN  IF b = {} THEN Healthy ELSE l[Max(b)].to

LogLevel(l) == LevelAt(l, Len(l))

\* _validated_commands: breaker commands are single steps that chain from
\* healthy, and a stop needs the permission of the process that reads it.
ValidCommands(l) ==
    /\ Len(l) <= MaxCommands
    /\ \A i \in Breakers(l) :
          /\ l[i].from = LevelAt(l, i - 1)
          /\ l[i].from # Stopped
          /\ l[i].to \in {l[i].from - 1, l[i].from + 1}
          /\ l[i].to = Stopped => AllowStop

\* queue_command, once the job is known not to be over.
QueueFits(l) ==
    /\ ValidCommands(l)
    /\ Len(l) < MaxCommands

\* _append_breaker_command: why an append is refused, "" when it is not.
BreakerRefusal(l, from, to, command) ==
    IF ~ValidCommands(l) \/ Len(l) >= MaxCommands
      THEN "refused"
    ELSE IF Cardinality(Breakers(l)) >= MaxBreaker
      THEN "limit"
    ELSE IF ~ValidCommands(Append(l, command))
      THEN "refused"
    ELSE ""

\* _append_handoff_steer_command: the directive is appended once per log.
HandoffFits(l) ==
    /\ QueueFits(l)
    /\ ~Has(l, "handoff")

\* The containment that the log alone asks for: constrained until the breaker
\* is healthy again (_salvage_authenticated_control_state, _refresh_locked).
Contained(l) ==
    /\ Enforce
    /\ \E i \in Breakers(l) :
          /\ l[i].to = Constrained
          /\ \A j \in Breakers(l) : j > i => l[j].to # Healthy

StopAsked(l) == Enforce /\ \E i \in Breakers(l) : l[i].to = Stopped
=============================================================================

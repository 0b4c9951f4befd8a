--------------------------- MODULE ControlProofs ---------------------------
(***************************************************************************)
(* The two readers of the command log, hooks and the attempts of a job,    *)
(* for any number of hooks, commands, attempts and lost logs.              *)
(*                                                                         *)
(* Hooks (HookBridge!HookInv, HookBridge!CancelSticks): the state file     *)
(* marks places of the log, the agent is given commands.  The proof is     *)
(* that every version of the log, the lost ones that a hook still holds    *)
(* included, has a command in the same place.                              *)
(*                                                                         *)
(* Jobs (JobControl!ControlInv, KnowledgeSurvives, DeadlineStands): log,   *)
(* seal, heartbeat and runtime control are copies of one history.  Without *)
(* a fault all of them go back to one log (Intact), of which the seal      *)
(* holds a beginning (NoFault).  After a fault either that log is still    *)
(* there and everything goes back to it, or it was lost, no attempt trusts *)
(* what is begun instead, and what has to be known is in seal and          *)
(* heartbeat (Lost).                                                       *)
(***************************************************************************)
EXTENDS JobControl, HookBridge, SequenceTheorems, WellFoundedInduction, TLAPS

-----------------------------------------------------------------------------
(* Logs. *)

Sequence(s) == s \in Seq(Range(s))

\* A command is appended behind the others, which stay where they were.
LEMMA AppendFacts ==
  ASSUME NEW s, NEW c, Sequence(s)
  PROVE  /\ Sequence(Append(s, c))
         /\ Len(s) \in Nat
         /\ DOMAIN s = 1 .. Len(s)
         /\ Len(Append(s, c)) = Len(s) + 1
         /\ DOMAIN Append(s, c) = 1 .. (Len(s) + 1)
         /\ \A i \in DOMAIN s : Append(s, c)[i] = s[i]
         /\ Append(s, c)[Len(s) + 1] = c
<1> DEFINE S == Range(s) \cup {c}
<1>1. s \in Seq(Range(s))
  BY DEF Sequence
<1>2. s \in Seq(S)
  BY <1>1, SeqMonotonic
<1>3. /\ Append(s, c) \in Seq(S)
      /\ Len(Append(s, c)) = Len(s) + 1
      /\ \A i \in 1 .. Len(s) : Append(s, c)[i] = s[i]
      /\ Append(s, c)[Len(s) + 1] = c
  BY <1>2, AppendProperties
<1>4. DOMAIN s = 1 .. Len(s) /\ Len(s) \in Nat
  BY <1>2, LenProperties
<1>5. DOMAIN Append(s, c) = 1 .. Len(Append(s, c))
  BY <1>3, LenProperties
<1>6. Append(s, c) \in Seq(Range(Append(s, c)))
  BY <1>3, SeqOfRange
<1> QED BY <1>3, <1>4, <1>5, <1>6 DEF Sequence

LEMMA EmptyFacts == Sequence(<< >>) /\ Len(<< >>) = 0 /\ DOMAIN << >> = {}
<1>1. << >> \in Seq(Range(<< >>))
  BY EmptySeq
<1>2. DOMAIN << >> = 1 .. 0
  BY <1>1, EmptySeq, LenProperties
<1> QED BY <1>1, <1>2, EmptySeq DEF Sequence

-----------------------------------------------------------------------------
(* Hooks: what a step leaves in the other processes, and in its own. *)

HooksOK ==
  /\ DOMAIN hook = Hooks
  /\ \A h \in Hooks : hook[h] = Idle \/ HookOK(hook[h])

LEMMA IdleOrNot ==
  ASSUME HooksOK
  PROVE  \A h \in Hooks :
           /\ hook[h].pc = "idle" <=> hook[h] = Idle
           /\ h \in Busy <=> hook[h] # Idle
           /\ h \in Busy => HookOK(hook[h]) /\ hook[h].pc \in {"read", "decided"}
<1> SUFFICES ASSUME NEW h \in Hooks
             PROVE  /\ hook[h].pc = "idle" <=> hook[h] = Idle
                    /\ h \in Busy <=> hook[h] # Idle
                    /\ h \in Busy => HookOK(hook[h]) /\ hook[h].pc \in {"read", "decided"}
  OBVIOUS
<1>1. Idle.pc = "idle"
  BY DEF Idle
<1>2. HookOK(hook[h]) => hook[h].pc \in {"read", "decided"}
  BY DEF HookOK
<1>3. h \in Busy <=> hook[h].pc # "idle"
  BY DEF Busy
<1>4. hook[h] = Idle \/ HookOK(hook[h])
  BY DEF HooksOK
<1> QED BY <1>1, <1>2, <1>3, <1>4

LEMMA ReadFacts ==
  ASSUME HooksOK, NEW h \in Hooks, Read(h)
  PROVE  /\ DOMAIN hook' = Hooks
         /\ \A g \in Hooks \ {h} : hook'[g] = hook[g]
         /\ \E event \in {"PreToolUse", "PostToolUse"}, writes \in BOOLEAN :
              hook'[h] = [pc |-> "read", event |-> event, writes |-> writes,
                          snap |-> Snapshot(log), answer |-> "", steers |-> {}]
         /\ hook'[h].pc = "read" /\ hook'[h].snap = Snapshot(log)
         /\ Busy' = Busy \cup {h}
<1>1. PICK event \in {"PreToolUse", "PostToolUse"}, writes \in BOOLEAN :
        hook' = [hook EXCEPT ![h] =
                   [pc |-> "read", event |-> event, writes |-> writes,
                    snap |-> Snapshot(log), answer |-> "", steers |-> {}]]
  BY DEF Read
<1> DEFINE r == [pc |-> "read", event |-> event, writes |-> writes,
                 snap |-> Snapshot(log), answer |-> "", steers |-> {}]
<1>2. r.pc = "read" /\ r.snap = Snapshot(log)
  OBVIOUS
<1> HIDE DEF r
<1>3. DOMAIN hook' = Hooks /\ hook'[h] = r /\ \A g \in Hooks \ {h} : hook'[g] = hook[g]
  BY <1>1 DEF HooksOK, r
<1>4. Busy' = Busy \cup {h}
  BY <1>2, <1>3 DEF Busy
<1> QED BY <1>2, <1>3, <1>4 DEF r

LEMMA EvaluateFacts ==
  ASSUME HooksOK, NEW h \in Hooks, Evaluate(h)
  PROVE  /\ DOMAIN hook' = Hooks
         /\ \A g \in Hooks \ {h} : hook'[g] = hook[g]
         /\ hook[h].pc = "read" /\ h \in Busy /\ HookOK(hook[h])
         /\ hook'[h] = [pc |-> "decided", event |-> hook[h].event,
                        writes |-> hook[h].writes, snap |-> hook[h].snap,
                        answer |-> Denial(h, file),
                        steers |-> {hook[h].snap.log[i].id : i \in Pending(hook[h].snap)}]
         /\ hook'[h].pc = "decided" /\ hook'[h].snap = hook[h].snap
         /\ hook'[h].answer = Denial(h, file)
         /\ hook'[h].steers = {hook[h].snap.log[i].id : i \in Pending(hook[h].snap)}
         /\ Busy' = Busy
<1> DEFINE S == {hook[h].snap.log[i].id : i \in Pending(hook[h].snap)}
           d == Denial(h, file)
           r == [pc |-> "decided", event |-> hook[h].event,
                 writes |-> hook[h].writes, snap |-> hook[h].snap,
                 answer |-> d, steers |-> S]
<1>1. hook[h].pc = "read" /\ hook' = [hook EXCEPT ![h].pc = "decided",
                        ![h].answer = d, ![h].steers = S]
  BY DEF Evaluate
<1>2. h \in Busy /\ HookOK(hook[h])
  BY <1>1, IdleOrNot DEF Busy
<1> HIDE DEF S, d
<1>3. DOMAIN hook' = Hooks /\ \A g \in Hooks \ {h} : hook'[g] = hook[g]
  BY <1>1 DEF HooksOK
<1>4. hook'[h] = r
  BY <1>1, <1>2 DEF HooksOK, HookOK
<1>5. r.pc = "decided" /\ r.snap = hook[h].snap /\ r.answer = d /\ r.steers = S
  OBVIOUS
<1>6. Busy' = Busy
  BY <1>2, <1>3, <1>4, <1>5 DEF Busy
<1> QED BY <1>1, <1>2, <1>3, <1>4, <1>5, <1>6 DEF S, d

LEMMA EndFacts ==
  ASSUME HooksOK, NEW h \in Hooks, Answer(h) \/ Kill(h)
  PROVE  /\ DOMAIN hook' = Hooks
         /\ \A g \in Hooks \ {h} : hook'[g] = hook[g]
         /\ hook'[h] = Idle
         /\ Busy' = Busy \ {h}
<1>1. hook' = [hook EXCEPT ![h] = Idle]
  BY DEF Answer, Kill
<1>2. DOMAIN hook' = Hooks /\ hook'[h] = Idle /\ \A g \in Hooks \ {h} : hook'[g] = hook[g]
  BY <1>1 DEF HooksOK
<1>3. Idle.pc = "idle"
  BY DEF Idle
<1> QED BY <1>2, <1>3 DEF Busy

-----------------------------------------------------------------------------
(* The versions of the log. *)

AreSequences == \A l \in Logs : Sequence(l)

\* The log that an append leaves, and what the hooks still hold, were there
\* before, are empty, or end in a command that is new.
Grows ==
  /\ made' = made + 1
  /\ \E c : c.id = made + 1 /\ log' = Append(log, c)

LEMMA QueueGrows == QueueCommand => Grows /\ Len(log) < MaxCommands
<1> SUFFICES ASSUME QueueCommand PROVE Grows /\ Len(log) < MaxCommands
  OBVIOUS
<1>1. PICK action \in {"cancel", "steer"} :
        log' = Append(log, Command(action, 0, 0, 0, made + 1))
  BY DEF QueueCommand
<1>2. Command(action, 0, 0, 0, made + 1).id = made + 1
  BY DEF Command
<1>3. Len(log) < MaxCommands
  BY DEF QueueCommand, QueueFits
<1> QED BY <1>1, <1>2, <1>3 DEF QueueCommand, Grows

LEMMA BreakerGrows ==
  ASSUME BreakerMoves, Sequence(log), Len(log) <= MaxCommands
  PROVE  Grows /\ Len(log) < MaxCommands
<1>1. PICK to \in Levels :
        /\ BreakerRefusal(log, LogLevel(log), to,
                          Command("breaker", LogLevel(log), to, 0, made + 1)) = ""
        /\ log' = Append(log, Command("breaker", LogLevel(log), to, 0, made + 1))
  BY DEF BreakerMoves
<1>2. Command("breaker", LogLevel(log), to, 0, made + 1).id = made + 1
  BY DEF Command
<1>3. ~ (Len(log) >= MaxCommands)
  BY <1>1 DEF BreakerRefusal
<1>4. Len(log) < MaxCommands
  BY <1>3, AppendFacts, LogAssumption
<1> QED BY <1>1, <1>2, <1>4 DEF BreakerMoves, Grows

LEMMA LogsStep ==
  ASSUME HooksOK, HookNext,
         (QueueCommand \/ BreakerMoves) => Grows
  PROVE  \A l \in Logs' :
           \/ l \in Logs
           \/ l = << >>
           \/ /\ Grows /\ l = log'
              /\ \E c : c.id = made + 1 /\ l = Append(log, c)
<1> SUFFICES ASSUME NEW l \in Logs',
                    l \notin Logs, l # << >>
             PROVE  /\ Grows /\ l = log'
                    /\ \E c : c.id = made + 1 /\ l = Append(log, c)
  OBVIOUS
<1>0. Busy \subseteq Hooks
  BY DEF Busy
<1>1. ASSUME NEW h \in Hooks, Read(h) PROVE FALSE
  <2>1. hook'[h].snap = Snapshot(log)
    BY <1>1, ReadFacts
  <2>2. hook'[h].snap.log = log
    BY <2>1 DEF Snapshot
  <2>3. log' = log
    BY <1>1 DEF Read
  <2>4. Busy' = Busy \cup {h} /\ \A g \in Hooks \ {h} : hook'[g] = hook[g]
    BY <1>1, ReadFacts
  <2> QED BY <1>0, <2>2, <2>3, <2>4 DEF Logs
<1>2. ASSUME NEW h \in Hooks, Evaluate(h) PROVE FALSE
  <2>1. hook'[h].snap = hook[h].snap /\ Busy' = Busy /\ \A g \in Hooks \ {h} : hook'[g] = hook[g]
    BY <1>2, EvaluateFacts
  <2>2. log' = log
    BY <1>2 DEF Evaluate
  <2> QED BY <1>0, <2>1, <2>2 DEF Logs
<1>3. ASSUME NEW h \in Hooks, Answer(h) \/ Kill(h) PROVE FALSE
  <2>1. log' = log
    BY <1>3 DEF Answer, Kill
  <2> QED BY <1>3, <2>1, EndFacts DEF Logs, Busy
<1>4. CASE Lose
  <2>1. hook' = hook /\ log' = << >>
    BY <1>4 DEF Lose, NoLog
  <2> QED BY <2>1 DEF Logs, Busy
<1>5. CASE QueueCommand \/ BreakerMoves
  <2>1. hook' = hook /\ Grows
    BY <1>5 DEF QueueCommand, BreakerMoves
  <2>2. l = log'
    BY <2>1 DEF Logs, Busy
  <2> QED BY <2>1, <2>2 DEF Grows
<1> QED BY <1>1, <1>2, <1>3, <1>4, <1>5 DEF HookNext

LEMMA AreSequencesStep ==
  ASSUME HooksOK, AreSequences, HookNext, (QueueCommand \/ BreakerMoves) => Grows
  PROVE  AreSequences'
<1> SUFFICES ASSUME NEW l \in Logs' PROVE Sequence(l)
  BY DEF AreSequences
<1>1. CASE l \in Logs
  BY <1>1 DEF AreSequences
<1>2. CASE l = << >>
  BY <1>2, EmptyFacts
<1>3. CASE \E c : l = Append(log, c)
  <2>1. Sequence(log)
    BY DEF AreSequences, Logs
  <2> QED BY <1>3, <2>1, AppendFacts
<1> QED BY <1>1, <1>2, <1>3, LogsStep

LEMMA Quiet ==
  ASSUME Lose \/ \E h \in Hooks : Read(h) \/ Evaluate(h) \/ Answer(h) \/ Kill(h)
  PROVE  made' = made
<1>1. Lose => made' = made
  BY DEF Lose
<1>2. ASSUME NEW h \in Hooks PROVE Read(h) => made' = made
  BY DEF Read
<1>3. ASSUME NEW h \in Hooks PROVE Evaluate(h) => made' = made
  BY DEF Evaluate
<1>4. ASSUME NEW h \in Hooks PROVE Answer(h) \/ Kill(h) => made' = made
  BY DEF Answer, Kill
<1> QED BY <1>1, <1>2, <1>3, <1>4

LEMMA OnePlaceStep ==
  ASSUME HooksOK, AreSequences, OnePlace, made \in Nat, HookNext,
         (QueueCommand \/ BreakerMoves) => Grows
  PROVE  OnePlace'
<1>1. made' \in Nat /\ made' >= made
  <2>1. CASE QueueCommand \/ BreakerMoves
    BY <2>1 DEF Grows
  <2>2. CASE Lose \/ \E h \in Hooks : Read(h) \/ Evaluate(h) \/ Answer(h) \/ Kill(h)
    BY <2>2, Quiet
  <2> QED BY <2>1, <2>2 DEF HookNext
<1> DEFINE Old(l, i) == l[i].id \in 1 .. made
           New(l, i) == l = log' /\ l[i].id = made + 1 /\ made' = made + 1
\* A command of a log is an old one, in its place in an old log, or the new one.
<1>2. \A l \in Logs' : \A i \in DOMAIN l :
        \/ \E k \in Logs : i \in DOMAIN k /\ l[i] = k[i]
        \/ /\ New(l, i) /\ i = Len(log) + 1
  <2> SUFFICES ASSUME NEW l \in Logs', NEW i \in DOMAIN l,
                      ~ \E k \in Logs : i \in DOMAIN k /\ l[i] = k[i]
               PROVE  New(l, i) /\ i = Len(log) + 1
    OBVIOUS
  <2>1. l \notin Logs /\ l # << >>
    BY EmptyFacts
  <2>2. PICK c : /\ Grows /\ l = log'
                 /\ c.id = made + 1 /\ l = Append(log, c)
    BY <2>1, LogsStep
  <2>3. log \in Logs /\ Sequence(log)
    BY DEF AreSequences, Logs
  <2>4. i \in 1 .. (Len(log) + 1) /\ Len(log) \in Nat
    BY <2>2, <2>3, AppendFacts
  <2>5. i \notin 1 .. Len(log)
    BY <2>2, <2>3, AppendFacts
  <2>6. i = Len(log) + 1
    BY <2>4, <2>5
  <2> QED BY <2>2, <2>3, <2>6, AppendFacts DEF Grows
<1>3. \A k \in Logs : \A i \in DOMAIN k : Old(k, i)
  BY DEF OnePlace
<1> SUFFICES ASSUME NEW l \in Logs', NEW m \in Logs',
                    NEW i \in DOMAIN l, NEW j \in DOMAIN m
             PROVE  /\ l[i].id \in 1 .. made'
                    /\ l[i].id = m[j].id => i = j
  BY DEF OnePlace
<1>4. CASE /\ \E k \in Logs : i \in DOMAIN k /\ l[i] = k[i]
           /\ \E k \in Logs : j \in DOMAIN k /\ m[j] = k[j]
  BY <1>1, <1>4 DEF OnePlace
<1>5. CASE \E k \in Logs : i \in DOMAIN k /\ l[i] = k[i]
  BY <1>1, <1>2, <1>3, <1>4, <1>5
<1>6. CASE \E k \in Logs : j \in DOMAIN k /\ m[j] = k[j]
  BY <1>1, <1>2, <1>3, <1>4, <1>6
<1> QED BY <1>1, <1>2, <1>5, <1>6

-----------------------------------------------------------------------------
(* What is given, and what was: how a step changes them. *)

LEMMA GivingBefore ==
  ASSUME HooksOK, made \in Nat, NEW x, Giving(x) # {}
  PROVE  x \in 1 .. made
<1>1. PICK h \in Busy : x \in hook[h].steers
  BY DEF Giving
<1>2. h \in Hooks /\ HookOK(hook[h])
  BY IdleOrNot DEF Busy
<1>3. hook[h].steers \subseteq 1 .. made
  BY <1>2 DEF HookOK
<1> QED BY <1>1, <1>3

LEMMA GivingRead ==
  ASSUME HooksOK, NEW h \in Hooks, Read(h), NEW x
  PROVE  Giving(x)' \subseteq Giving(x)
<1>1. /\ hook'[h].pc = "read" /\ Busy' = Busy \cup {h}
      /\ \A g \in Hooks \ {h} : hook'[g] = hook[g]
  BY ReadFacts
<1>2. Busy \subseteq Hooks
  BY DEF Busy
<1> QED BY <1>1, <1>2 DEF Giving

\* x is in a log at a place that the step marks.
MarksPlaceOf(x) ==
  \E m \in Logs \cap Logs' : \E i \in DOMAIN m :
     m[i].id = x /\ i \notin file.emitted /\ i \in file'.emitted

\* The steers that an evaluation takes up had not their place marked, and it
\* marks it.
LEMMA GivingEvaluate ==
  ASSUME HooksOK, NEW h \in Hooks, Evaluate(h), NEW x
  PROVE  /\ h \notin Giving(x)
         /\ Giving(x)' \subseteq Giving(x) \cup {h}
         /\ h \in Giving(x)' => MarksPlaceOf(x)
         /\ file.emitted \subseteq file'.emitted
<1>1. /\ hook[h].pc = "read" /\ hook'[h].pc = "decided" /\ Busy' = Busy
      /\ hook'[h].steers = {hook[h].snap.log[i].id : i \in Pending(hook[h].snap)}
      /\ \A g \in Hooks \ {h} : hook'[g] = hook[g]
  BY EvaluateFacts
<1>2. Busy \subseteq Hooks
  BY DEF Busy
<1>3. file'.emitted = file.emitted \cup hook[h].snap.steers
  BY DEF Evaluate
<1>4. h \notin Giving(x) /\ Giving(x)' \subseteq Giving(x) \cup {h}
  BY <1>1, <1>2 DEF Giving
<1>5. h \in Giving(x)' => x \in {hook[h].snap.log[i].id : i \in Pending(hook[h].snap)}
  BY <1>1 DEF Giving
<1>6. Pending(hook[h].snap) = hook[h].snap.steers \ file.emitted
  BY DEF Pending
<1>7. hook[h].snap.log \in Logs \cap Logs' /\ hook[h].snap.steers \subseteq DOMAIN hook[h].snap.log
  <2>1. h \in Busy /\ hook'[h].snap = hook[h].snap /\ HookOK(hook[h])
    BY EvaluateFacts
  <2>2. hook[h].snap.log \in Logs
    BY <2>1 DEF Logs
  <2>3. hook[h].snap.log \in Logs'
    BY <2>1, <1>1 DEF Logs
  <2>4. hook[h].snap.steers \subseteq DOMAIN hook[h].snap.log
    BY <2>1 DEF HookOK
  <2> QED BY <2>2, <2>3, <2>4
<1> QED BY <1>3, <1>4, <1>5, <1>6, <1>7 DEF MarksPlaceOf

LEMMA GivingEnd ==
  ASSUME HooksOK, NEW h \in Hooks, Answer(h) \/ Kill(h), NEW x
  PROVE  Giving(x)' = Giving(x) \ {h}
<1>1. /\ hook'[h] = Idle /\ Busy' = Busy \ {h}
      /\ \A g \in Hooks \ {h} : hook'[g] = hook[g]
  BY EndFacts
<1>2. Busy \subseteq Hooks
  BY DEF Busy
<1> QED BY <1>1, <1>2 DEF Giving

LEMMA GivingOther ==
  ASSUME QueueCommand \/ BreakerMoves \/ Lose \/ UNCHANGED hookvars, NEW x
  PROVE  Giving(x)' = Giving(x) /\ file' = file /\ printed' = printed
<1>1. hook' = hook /\ file' = file /\ printed' = printed
  BY DEF QueueCommand, BreakerMoves, Lose, hookvars
<1> QED BY <1>1 DEF Giving, Busy

PrintedOK ==
  /\ printed \in [1 .. MaxMade -> Nat]
  /\ \A i \in 1 .. MaxMade : printed[i] > 0 => i <= made

LEMMA PrintedAnswer ==
  ASSUME HooksOK, PrintedOK, NEW h \in Hooks, Answer(h), NEW x \in 1 .. MaxMade
  PROVE  /\ h \in Giving(x) => printed'[x] = printed[x] + 1
         /\ h \notin Giving(x) => printed'[x] = printed[x]
         /\ file' = file
<1>1. h \in Giving(x) <=> x \in hook[h].steers
  <2>1. hook[h].pc = "decided" /\ h \in Busy
    BY DEF Answer, Busy
  <2> QED BY <2>1 DEF Giving
<1>2. printed'[x] = printed[x] + (IF x \in hook[h].steers THEN 1 ELSE 0)
  BY DEF Answer, PrintedOK
<1>3. printed[x] \in Nat
  BY DEF PrintedOK
<1> QED BY <1>1, <1>2, <1>3 DEF Answer

LEMMA PrintedSame ==
  ASSUME NEW h \in Hooks, Read(h) \/ Evaluate(h) \/ Kill(h)
  PROVE  printed' = printed
  BY DEF Read, Evaluate, Kill

LEMMA FileSame ==
  ASSUME NEW h \in Hooks, Read(h) \/ Answer(h) \/ Kill(h)
  PROVE  file' = file
  BY DEF Read, Answer, Kill

\* Given or being given: a step makes it so of a command only by an evaluation
\* that marks its place.
Known(x) == Giving(x) # {} \/ (x \in 1 .. MaxMade /\ printed[x] > 0)

LEMMA KnownStep ==
  ASSUME HooksOK, PrintedOK, HookNext, NEW x, Known(x)'
  PROVE  Known(x) \/ MarksPlaceOf(x)
<1>1. ASSUME NEW h \in Hooks, Read(h) PROVE Known(x)
  BY <1>1, GivingRead, PrintedSame DEF Known
<1>2. ASSUME NEW h \in Hooks, Evaluate(h), ~ Known(x) PROVE MarksPlaceOf(x)
  <2>1. h \in Giving(x)'
    BY <1>2, GivingEvaluate, PrintedSame DEF Known
  <2> QED BY <1>2, <2>1, GivingEvaluate
<1>3. ASSUME NEW h \in Hooks, Answer(h) PROVE Known(x)
  <2>1. CASE Giving(x)' # {}
    BY <1>3, <2>1, GivingEnd DEF Known
  <2>2. CASE x \in 1 .. MaxMade /\ printed'[x] > 0
    BY <1>3, <2>2, PrintedAnswer DEF Known
  <2> QED BY <1>3, <2>1, <2>2 DEF Known
<1>4. ASSUME NEW h \in Hooks, Kill(h) PROVE Known(x)
  BY <1>4, GivingEnd, PrintedSame DEF Known
<1>5. CASE QueueCommand \/ BreakerMoves \/ Lose
  BY <1>5, GivingOther DEF Known
<1> QED BY <1>1, <1>2, <1>3, <1>4, <1>5 DEF HookNext

LEMMA KnownIsMade ==
  ASSUME HooksOK, PrintedOK, made \in Nat, NEW x, Known(x)
  PROVE  x \in 1 .. made
  BY GivingBefore DEF Known, PrintedOK

MarksGrow == file.emitted \subseteq file'.emitted

LEMMA MarksKept == HooksOK /\ [HookNext]_hookvars => MarksGrow
<1> SUFFICES ASSUME HooksOK, [HookNext]_hookvars PROVE MarksGrow
  OBVIOUS
<1>1. ASSUME NEW h \in Hooks, Evaluate(h) PROVE MarksGrow
  BY <1>1, GivingEvaluate DEF MarksGrow
<1>2. ASSUME NEW h \in Hooks, Read(h) \/ Answer(h) \/ Kill(h) PROVE MarksGrow
  BY <1>2, FileSame DEF MarksGrow
<1>3. CASE QueueCommand \/ BreakerMoves \/ Lose \/ UNCHANGED hookvars
  BY <1>3, GivingOther DEF MarksGrow
<1> QED BY <1>1, <1>2, <1>3 DEF HookNext

LEMMA PlaceMarkedStep ==
  ASSUME HooksOK, PrintedOK, AreSequences, OnePlace, OnePlace', PlaceMarked,
         made \in Nat, HookNext, (QueueCommand \/ BreakerMoves) => Grows,
         made' <= MaxMade, MaxMade \in Nat, made' \in Nat
  PROVE  PlaceMarked'
<1> SUFFICES ASSUME NEW l \in Logs', NEW i \in DOMAIN l, Known(l[i].id)'
             PROVE  i \in file'.emitted
  <2>1. ASSUME NEW l \in Logs', NEW i \in DOMAIN l PROVE l[i].id \in 1 .. MaxMade
    BY <2>1 DEF OnePlace
  <2> QED BY <2>1 DEF PlaceMarked, Known
<1>1. CASE Known(l[i].id)
  <2>1. l[i].id \in 1 .. made
    BY <1>1, KnownIsMade
  <2>2. \E k \in Logs : i \in DOMAIN k /\ l[i] = k[i]
    <3> SUFFICES ASSUME l \notin Logs, l # << >> PROVE i \in DOMAIN log /\ l[i] = log[i]
      BY EmptyFacts DEF Logs
    <3>1. PICK c : c.id = made + 1 /\ l = Append(log, c)
      BY LogsStep
    <3>2. Sequence(log)
      BY DEF AreSequences, Logs
    <3>3. i # Len(log) + 1
      BY <2>1, <3>1, <3>2, AppendFacts
    <3> QED BY <3>1, <3>2, <3>3, AppendFacts
  <2>3. PICK k \in Logs : i \in DOMAIN k /\ l[i] = k[i]
    BY <2>2
  <2>4. i \in file.emitted
    BY <1>1, <2>3 DEF PlaceMarked, Known
  <2> QED BY <2>4, MarksKept DEF MarksGrow
<1>2. CASE MarksPlaceOf(l[i].id)
  BY <1>2 DEF MarksPlaceOf, OnePlace
<1> QED BY <1>1, <1>2, KnownStep

LEMMA GivenByOneStep ==
  ASSUME HooksOK, PrintedOK, PlaceMarked, GivenByOne, made \in Nat, HookNext
  PROVE  GivenByOne'
<1> SUFFICES ASSUME NEW x \in 1 .. MaxMade
             PROVE  /\ \A f, g \in Giving(x)' : f = g
                    /\ printed'[x] > 0 => Giving(x)' = {}
  BY DEF GivenByOne
<1>0. /\ \A f, g \in Giving(x) : f = g
      /\ printed[x] > 0 => Giving(x) = {}
      /\ printed[x] \in Nat
  BY DEF GivenByOne, PrintedOK
<1>1. ASSUME NEW h \in Hooks, Read(h)
      PROVE  Giving(x)' \subseteq Giving(x) /\ printed' = printed
  BY <1>1, GivingRead, PrintedSame
<1>2. ASSUME NEW h \in Hooks, Evaluate(h), h \in Giving(x)'
      PROVE  printed' = printed /\ printed[x] = 0 /\ Giving(x)' = {h}
  <2>1. MarksPlaceOf(x)
    BY <1>2, GivingEvaluate
  <2>2. ~ (printed[x] > 0) /\ Giving(x) = {}
    BY <2>1 DEF MarksPlaceOf, PlaceMarked
  <2> QED BY <1>0, <1>2, <2>2, GivingEvaluate, PrintedSame
<1>3. ASSUME NEW h \in Hooks, Evaluate(h), h \notin Giving(x)'
      PROVE  Giving(x)' \subseteq Giving(x) /\ printed' = printed
  BY <1>3, GivingEvaluate, PrintedSame
<1>4. ASSUME NEW h \in Hooks, Answer(h), h \in Giving(x)
      PROVE  Giving(x)' = {}
  BY <1>0, <1>4, GivingEnd
<1>5. ASSUME NEW h \in Hooks, Answer(h), h \notin Giving(x)
      PROVE  Giving(x)' \subseteq Giving(x) /\ printed'[x] = printed[x]
  BY <1>5, GivingEnd, PrintedAnswer
<1>6. ASSUME NEW h \in Hooks, Kill(h)
      PROVE  Giving(x)' \subseteq Giving(x) /\ printed' = printed
  BY <1>6, GivingEnd, PrintedSame
<1>7. CASE QueueCommand \/ BreakerMoves \/ Lose
  BY <1>0, <1>7, GivingOther
<1>8. \/ \E h \in Hooks : Read(h) \/ Evaluate(h) \/ Answer(h) \/ Kill(h)
      \/ QueueCommand \/ BreakerMoves \/ Lose
  BY DEF HookNext
<1> QED BY <1>0, <1>1, <1>2, <1>3, <1>4, <1>5, <1>6, <1>7, <1>8

LEMMA EmittedOnceStep ==
  ASSUME HooksOK, PrintedOK, EmittedOnce, GivenByOne, HookNext
  PROVE  EmittedOnce'
<1> SUFFICES ASSUME NEW x \in 1 .. MaxMade PROVE printed'[x] <= 1
  BY DEF EmittedOnce
<1>0. printed[x] \in Nat /\ printed[x] <= 1
  BY DEF PrintedOK, EmittedOnce
<1>1. ASSUME NEW h \in Hooks, Answer(h) PROVE printed'[x] <= 1
  <2>1. CASE h \in Giving(x)
    <3>1. printed[x] = 0
      BY <1>0, <2>1 DEF GivenByOne
    <3> QED BY <1>1, <2>1, <3>1, PrintedAnswer
  <2>2. CASE h \notin Giving(x)
    BY <1>0, <1>1, <2>2, PrintedAnswer
  <2> QED BY <2>1, <2>2
<1>2. ASSUME NEW h \in Hooks, Read(h) \/ Evaluate(h) \/ Kill(h) PROVE printed'[x] <= 1
  BY <1>0, <1>2, PrintedSame
<1>3. CASE QueueCommand \/ BreakerMoves \/ Lose
  BY <1>0, <1>3, GivingOther
<1> QED BY <1>1, <1>2, <1>3 DEF HookNext

-----------------------------------------------------------------------------
(* Types. *)

FileOK ==
  /\ file \in [high : 0 .. MaxCommands, sticky : BOOLEAN, emitted : SUBSET (1 .. MaxCommands)]
  /\ known \in [cancel : BOOLEAN, max : 0 .. MaxCommands]

LogFits == Len(log) <= MaxCommands

LEMMA TypeParts ==
  HookTypeOK <=> /\ made \in 0 .. MaxMade /\ LogFits /\ AreSequences
             /\ FileOK /\ PrintedOK /\ HooksOK
  BY DEF HookTypeOK, LogFits, AreSequences, Sequence, FileOK, PrintedOK, HooksOK

LEMMA LogFitsStep ==
  ASSUME LogFits, Sequence(log), HookNext
  PROVE  LogFits' /\ ((QueueCommand \/ BreakerMoves) => Grows)
<1>0. MaxCommands \in Nat /\ Len(<< >>) = 0
  BY LogAssumption, EmptyFacts
<1>1. CASE QueueCommand \/ BreakerMoves
  <2>1. Grows /\ Len(log) < MaxCommands
    BY <1>1, QueueGrows, BreakerGrows DEF LogFits
  <2>2. \E c : log' = Append(log, c)
    BY <2>1 DEF Grows
  <2>3. \A c : Len(Append(log, c)) = Len(log) + 1
    BY AppendFacts
  <2>4. Len(log) \in Nat
    BY AppendFacts
  <2>5. Len(log') <= MaxCommands
    BY <1>0, <2>1, <2>2, <2>3, <2>4
  <2> QED BY <2>1, <2>5 DEF LogFits
<1>2. ASSUME Lose PROVE LogFits'
  <2>1. log' = << >>
    BY <1>2 DEF Lose, NoLog
  <2> QED BY <1>0, <2>1 DEF LogFits
<1>3. ASSUME NEW h \in Hooks, Read(h) \/ Evaluate(h) \/ Answer(h) \/ Kill(h)
      PROVE  LogFits'
  <2>1. log' = log
    BY <1>3 DEF Read, Evaluate, Answer, Kill
  <2> QED BY <2>1 DEF LogFits
<1> QED BY <1>1, <1>2, <1>3 DEF HookNext

LEMMA MadeStep ==
  ASSUME made \in 0 .. MaxMade, HookNext
  PROVE  made' \in 0 .. MaxMade /\ made' >= made
<1>1. CASE QueueCommand \/ BreakerMoves
  <2>1. MaxMade \in Nat
    BY HookAssumption
  <2>2. made < MaxMade /\ made' = made + 1
    BY <1>1 DEF QueueCommand, BreakerMoves
  <2> QED BY <2>1, <2>2
<1>2. CASE Lose \/ \E h \in Hooks : Read(h) \/ Evaluate(h) \/ Answer(h) \/ Kill(h)
  BY <1>2, Quiet
<1> QED BY <1>1, <1>2 DEF HookNext

LEMMA DenialType ==
  ASSUME NEW h \in Hooks
  PROVE  Denial(h, file) \in {"", "rollback", "stopped", "constrained"}
<1> DEFINE a == hook[h].event # "PreToolUse"
           b == hook[h].snap.max < file.high
           c == hook[h].snap.cancel \/ file.sticky \/ hook[h].snap.stopped
           d == hook[h].snap.constrained /\ hook[h].writes
<1>1. Denial(h, file) = IF a THEN "" ELSE IF b THEN "rollback" ELSE IF c THEN "stopped"
                        ELSE IF d THEN "constrained" ELSE ""
  BY DEF Denial
<1> HIDE DEF a, b, c, d
<1> QED BY <1>1

\* What is held is held still when more commands are made.
LEMMA HookOKKept ==
  ASSUME NEW r, HookOK(r), made \in Nat, made' \in Nat, made' >= made
  PROVE  HookOK(r)'
<1>1. 1 .. made \subseteq 1 .. made'
  OBVIOUS
<1> DEFINE T(n) == [pc : {"read", "decided"}, event : {"PreToolUse", "PostToolUse"},
                    writes : BOOLEAN, snap : {r.snap},
                    answer : {"", "rollback", "stopped", "constrained"},
                    steers : SUBSET (1 .. n)]
<1>2. r \in T(made)
  BY DEF HookOK
<1>3. r \in T(made')
  BY <1>1, <1>2
<1> QED BY <1>3 DEF HookOK

\* (B is BOOLEAN.)
LEMMA ReadRecord ==
  ASSUME NEW E, NEW event \in E, NEW B, NEW writes \in B, NEW snap, NEW N
  PROVE  [pc |-> "read", event |-> event, writes |-> writes,
          snap |-> snap, answer |-> "", steers |-> {}]
           \in [pc : {"read", "decided"}, event : E, writes : B, snap : {snap},
                answer : {"", "rollback", "stopped", "constrained"}, steers : SUBSET N]
  OBVIOUS

LEMMA ReadType ==
  ASSUME HooksOK, AreSequences, LogFits, made \in Nat, NEW h \in Hooks, Read(h)
  PROVE  HookOK(hook'[h])
<1> DEFINE snap == Snapshot(log)
<1>1. PICK event \in {"PreToolUse", "PostToolUse"}, writes \in BOOLEAN :
        hook'[h] = [pc |-> "read", event |-> event, writes |-> writes,
                    snap |-> snap, answer |-> "", steers |-> {}]
  BY ReadFacts
<1>2. /\ snap.log = log /\ snap.max = Len(log)
      /\ snap.steers = Steers(log) /\ snap.cancel = Has(log, "cancel")
  BY DEF Snapshot
<1>3. Steers(log) \subseteq DOMAIN log /\ Has(log, "cancel") \in BOOLEAN
  BY DEF Steers, Has
<1> HIDE DEF snap
<1>4. hook'[h].snap = snap
  BY ReadFacts DEF snap
<1>5. hook'[h] \in [pc : {"read", "decided"}, event : {"PreToolUse", "PostToolUse"},
              writes : BOOLEAN, snap : {snap},
              answer : {"", "rollback", "stopped", "constrained"},
              steers : SUBSET (1 .. made)]
  <2> DEFINE rec == [pc |-> "read", event |-> event, writes |-> writes,
                     snap |-> snap, answer |-> "", steers |-> {}]
             T == [pc : {"read", "decided"}, event : {"PreToolUse", "PostToolUse"},
                   writes : BOOLEAN, snap : {snap},
                   answer : {"", "rollback", "stopped", "constrained"},
                   steers : SUBSET (1 .. made)]
  <2>1. rec \in T
    BY ReadRecord
  <2>2. hook'[h] = rec
    BY <1>1
  <2> HIDE DEF rec, T
  <2>3. hook'[h] \in T
    BY <2>1, <2>2
  <2> QED BY <2>3 DEF T
<1> QED BY <1>2, <1>3, <1>4, <1>5 DEF HookOK, LogFits

LEMMA EvaluateType ==
  ASSUME HooksOK, OnePlace, made \in Nat, NEW h \in Hooks, Evaluate(h)
  PROVE  HookOK(hook'[h])
<1> DEFINE old == hook[h]
           new == hook'[h]
           S == {old.snap.log[i].id : i \in Pending(old.snap)}
           d == Denial(h, file)
<1>1. new = [pc |-> "decided", event |-> old.event, writes |-> old.writes,
             snap |-> old.snap, answer |-> d, steers |-> S]
  BY EvaluateFacts
<1>2. HookOK(old) /\ h \in Busy
  BY EvaluateFacts
<1>3. S \subseteq 1 .. made
  <2>1. old.snap.log \in Logs /\ old.snap.steers \subseteq DOMAIN old.snap.log
    BY <1>2 DEF Logs, HookOK
  <2>2. Pending(old.snap) \subseteq old.snap.steers
    BY DEF Pending
  <2> QED BY <2>1, <2>2 DEF OnePlace
<1>4. d \in {"", "rollback", "stopped", "constrained"}
  BY DenialType
<1> HIDE DEF S, d, old, new
<1>5. old.event \in {"PreToolUse", "PostToolUse"} /\ old.writes \in BOOLEAN
  BY <1>2 DEF HookOK
<1>6. new.snap = old.snap
  BY <1>1
<1>7. new \in [pc : {"read", "decided"}, event : {"PreToolUse", "PostToolUse"},
              writes : BOOLEAN, snap : {new.snap},
              answer : {"", "rollback", "stopped", "constrained"},
              steers : SUBSET (1 .. made)]
  BY <1>1, <1>3, <1>4, <1>5, <1>6
<1>8. HookOK(new)
  BY <1>2, <1>6, <1>7 DEF HookOK
<1> QED BY <1>8 DEF new

LEMMA HooksStep ==
  ASSUME HooksOK, AreSequences, LogFits, OnePlace, made \in 0 .. MaxMade, HookNext
  PROVE  HooksOK'
<1>0. made \in Nat /\ made' \in Nat /\ made' >= made
  BY MadeStep, HookAssumption
<1>1. ASSUME NEW h \in Hooks, Read(h) \/ Evaluate(h)
      PROVE  /\ DOMAIN hook' = Hooks
             /\ \A g \in Hooks \ {h} : hook'[g] = hook[g]
             /\ HookOK(hook'[h])
  BY <1>0, <1>1, ReadFacts, EvaluateFacts, ReadType, EvaluateType
<1>2. ASSUME NEW h \in Hooks, Answer(h) \/ Kill(h)
      PROVE  /\ DOMAIN hook' = Hooks
             /\ \A g \in Hooks : hook'[g] = Idle \/ hook'[g] = hook[g]
  BY <1>2, EndFacts
<1>3. QueueCommand \/ BreakerMoves \/ Lose => hook' = hook
  BY DEF QueueCommand, BreakerMoves, Lose
<1>4. /\ DOMAIN hook' = Hooks
      /\ \A g \in Hooks : hook'[g] = Idle \/ HookOK(hook'[g])
  <2>1. DOMAIN hook = Hooks /\ \A g \in Hooks : hook[g] = Idle \/ HookOK(hook[g])
    BY DEF HooksOK
  <2> QED BY <1>1, <1>2, <1>3, <2>1 DEF HookNext
<1>5. \A g \in Hooks : HookOK(hook'[g]) => HookOK(hook[g])'
  <2> SUFFICES ASSUME NEW g \in Hooks, HookOK(hook'[g]) PROVE HookOK(hook[g])'
    OBVIOUS
  <2> DEFINE r == hook'[g]
  <2>1. HookOK(r)
    OBVIOUS
  <2>2. r \in [pc : {"read", "decided"}, event : {"PreToolUse", "PostToolUse"},
               writes : BOOLEAN, snap : {r.snap},
               answer : {"", "rollback", "stopped", "constrained"},
               steers : SUBSET (1 .. made)]
    BY <2>1 DEF HookOK
  <2>3. SUBSET (1 .. made) \subseteq SUBSET (1 .. made')
    BY <1>0
  <2> HIDE DEF r
  <2>4. r \in [pc : {"read", "decided"}, event : {"PreToolUse", "PostToolUse"},
               writes : BOOLEAN, snap : {r.snap},
               answer : {"", "rollback", "stopped", "constrained"},
               steers : SUBSET (1 .. made')]
    BY <2>2, <2>3
  <2> QED BY <2>1, <2>4 DEF HookOK, r
<1> QED BY <1>4, <1>5 DEF HooksOK, Idle

LEMMA FileStep ==
  ASSUME FileOK, HooksOK, AreSequences, HookNext, known.cancel => file.sticky
  PROVE  FileOK' /\ (known'.cancel => file'.sticky)
<1>1. ASSUME NEW h \in Hooks, Evaluate(h)
      PROVE  FileOK' /\ (known'.cancel => file'.sticky)
  <2> DEFINE s == hook[h].snap
  <2>1. /\ file' = [high    |-> IF s.max > file.high THEN s.max ELSE file.high,
                    sticky  |-> file.sticky \/ s.cancel,
                    emitted |-> file.emitted \cup s.steers]
        /\ known' = [cancel |-> known.cancel \/ s.cancel,
                     max    |-> IF s.max > known.max THEN s.max ELSE known.max]
    BY <1>1 DEF Evaluate
  <2>2. HookOK(hook[h]) /\ s.log \in Logs
    BY <1>1, EvaluateFacts DEF Logs
  <2>3. s.max \in 0 .. MaxCommands /\ s.steers \subseteq 1 .. MaxCommands /\ s.cancel \in BOOLEAN
    <3>1. Sequence(s.log)
      BY <2>2 DEF AreSequences
    <3>2. Len(s.log) \in Nat /\ DOMAIN s.log = 1 .. Len(s.log)
      BY <3>1, AppendFacts
    <3>3. s.max = Len(s.log) /\ s.max <= MaxCommands /\ s.steers \subseteq DOMAIN s.log
          /\ s.cancel \in BOOLEAN
      BY <2>2 DEF HookOK
    <3> QED BY <3>2, <3>3, LogAssumption
  <2> HIDE DEF s
  <2>4. /\ file.high \in 0 .. MaxCommands /\ file.emitted \subseteq 1 .. MaxCommands
        /\ known.max \in 0 .. MaxCommands
    BY DEF FileOK
  <2>5. known' \in [cancel : BOOLEAN, max : 0 .. MaxCommands]
    BY <2>1, <2>3, <2>4
  <2>6. file' \in [high : 0 .. MaxCommands, sticky : BOOLEAN, emitted : SUBSET (1 .. MaxCommands)]
    BY <2>1, <2>3, <2>4
  <2>7. known'.cancel => file'.sticky
    <3>1. known'.cancel = (known.cancel \/ s.cancel) /\ file'.sticky = (file.sticky \/ s.cancel)
      BY <2>1
    <3> QED BY <3>1
  <2> QED BY <2>5, <2>6, <2>7 DEF FileOK
<1>2. ASSUME NEW h \in Hooks, Read(h) \/ Answer(h) \/ Kill(h)
      PROVE  file' = file /\ known' = known
  BY <1>2 DEF Read, Answer, Kill
<1>3. QueueCommand \/ BreakerMoves \/ Lose => file' = file /\ known' = known
  BY DEF QueueCommand, BreakerMoves, Lose
<1>4. file' = file /\ known' = known => FileOK' /\ (known'.cancel => file'.sticky)
  BY DEF FileOK
<1> QED BY <1>1, <1>2, <1>3, <1>4 DEF HookNext

LEMMA PrintedStep ==
  ASSUME PrintedOK, HooksOK, made \in 0 .. MaxMade, HookNext
  PROVE  PrintedOK'
<1>0. made \in Nat /\ made' \in Nat /\ made' >= made
  BY MadeStep, HookAssumption
<1>1. ASSUME NEW h \in Hooks, Answer(h) PROVE PrintedOK'
  <2>1. printed' \in [1 .. MaxMade -> Nat]
    BY <1>1 DEF Answer, PrintedOK
  <2>2. ASSUME NEW x \in 1 .. MaxMade, printed'[x] > 0 PROVE x <= made'
    <3>1. CASE h \in Giving(x)
      BY <1>0, <3>1, GivingBefore
    <3>2. CASE h \notin Giving(x)
      BY <1>0, <1>1, <2>2, <3>2, PrintedAnswer DEF PrintedOK
    <3> QED BY <3>1, <3>2
  <2> QED BY <2>1, <2>2 DEF PrintedOK
<1>2. ASSUME printed' = printed PROVE PrintedOK'
  BY <1>0, <1>2 DEF PrintedOK
<1> QED BY <1>1, <1>2, PrintedSame, GivingOther DEF HookNext

-----------------------------------------------------------------------------
(* The theorems about hooks. *)

LEMMA HookStart == HookInit => HookInv
<1> SUFFICES ASSUME HookInit PROVE HookInv
  OBVIOUS
<1>1. log = << >> /\ Idle.pc = "idle"
  BY DEF HookInit, Idle, NoLog
<1>2. Busy = {}
  BY <1>1 DEF HookInit, Busy
<1>3. Logs = {<< >>}
  BY <1>1, <1>2 DEF Logs
<1>4. AreSequences /\ LogFits /\ OnePlace /\ PlaceMarked
  BY <1>1, <1>3, EmptyFacts, LogAssumption DEF AreSequences, LogFits, OnePlace, PlaceMarked
<1>5. HooksOK /\ PrintedOK /\ made \in 0 .. MaxMade
  BY HookAssumption DEF HookInit, HooksOK, PrintedOK
<1>6. FileOK /\ (known.cancel => file.sticky)
  BY LogAssumption DEF HookInit, FileOK
<1>7. GivenByOne /\ EmittedOnce
  BY <1>2 DEF HookInit, GivenByOne, EmittedOnce, Giving
<1> QED BY <1>4, <1>5, <1>6, <1>7, TypeParts DEF HookInv

LEMMA HookStep == HookInv /\ [HookNext]_hookvars => HookInv'
<1> SUFFICES ASSUME HookInv, [HookNext]_hookvars PROVE HookInv'
  OBVIOUS
<1>1. CASE UNCHANGED hookvars
  <2>1. /\ log' = log /\ made' = made /\ file' = file /\ hook' = hook
        /\ printed' = printed /\ known' = known
    BY <1>1 DEF hookvars
  <2>2. log' = log /\ Busy' = Busy /\ \A r : HookOK(r)' = HookOK(r)
    BY <2>1 DEF Busy, HookOK
  <2>3. Logs' = Logs /\ \A x : Giving(x)' = Giving(x)
    BY <2>1, <2>2 DEF Logs, Giving
  <2>4. HookTypeOK'
    BY <2>1, <2>2, <2>3 DEF HookInv, HookTypeOK, Idle
  <2>5. EmittedOnce' /\ OnePlace' /\ PlaceMarked' /\ GivenByOne'
    BY <2>1, <2>3 DEF HookInv, EmittedOnce, OnePlace, PlaceMarked, GivenByOne
  <2> QED BY <2>1, <2>4, <2>5 DEF HookInv
<1>2. CASE HookNext
  <2>1. /\ made \in 0 .. MaxMade /\ LogFits /\ AreSequences /\ FileOK /\ PrintedOK /\ HooksOK
        /\ OnePlace /\ PlaceMarked /\ GivenByOne /\ EmittedOnce
        /\ known.cancel => file.sticky
    BY TypeParts DEF HookInv
  <2>2. Sequence(log)
    BY <2>1 DEF AreSequences, Logs
  <2>3. LogFits' /\ ((QueueCommand \/ BreakerMoves) => Grows)
    BY <1>2, <2>1, <2>2, LogFitsStep
  <2>4. /\ made' \in 0 .. MaxMade /\ made' \in Nat /\ made' <= MaxMade
        /\ made \in Nat /\ MaxMade \in Nat
    BY <1>2, <2>1, MadeStep, HookAssumption
  <2>5. AreSequences' /\ OnePlace'
    BY <1>2, <2>1, <2>3, <2>4, AreSequencesStep, OnePlaceStep
  <2>6. PlaceMarked'
    BY <1>2, <2>1, <2>3, <2>4, <2>5, PlaceMarkedStep
  <2>7. GivenByOne' /\ EmittedOnce'
    BY <1>2, <2>1, <2>4, GivenByOneStep, EmittedOnceStep
  <2>8. FileOK' /\ (known'.cancel => file'.sticky) /\ PrintedOK' /\ HooksOK'
    BY <1>2, <2>1, FileStep, PrintedStep, HooksStep
  <2>9. HookTypeOK'
    BY <2>3, <2>4, <2>5, <2>8 DEF HookTypeOK, LogFits, AreSequences, Sequence, FileOK, PrintedOK, HooksOK
  <2> QED BY <2>5, <2>6, <2>7, <2>8, <2>9 DEF HookInv
<1> QED BY <1>1, <1>2

\* The agent is given a command's text at most once (HookBridge!HookInv): hooks
\* run at the same time and are killed between any two of their steps, and the
\* log may be lost and begun again while a hook still holds the old one
\* (evaluate_hook_event).
THEOREM HookInvariance == HookSpec => []HookInv
<1>1. HookInit => HookInv
  BY HookStart
<1>2. HookInv /\ [HookNext]_hookvars => HookInv'
  BY HookStep
<1> QED BY <1>1, <1>2, PTL DEF HookSpec

\* The mark that a cancel leaves in the state file denies every later call.
LEMMA CancelDenies ==
  ASSUME HookInv, HookNext, known.cancel, NEW h \in Hooks,
         hook[h].pc = "read", hook'[h].pc = "decided", hook[h].event = "PreToolUse"
  PROVE  hook'[h].answer # ""
<1>1. HooksOK /\ file.sticky
  BY TypeParts DEF HookInv
<1>2. Idle.pc = "idle"
  BY DEF Idle
<1>3. ASSUME NEW g \in Hooks, Read(g) \/ Answer(g) \/ Kill(g) PROVE FALSE
  <2>1. CASE g = h
    BY <1>1, <1>2, <1>3, <2>1, ReadFacts, EndFacts
  <2>2. CASE g # h
    BY <1>1, <1>3, <2>2, ReadFacts, EndFacts
  <2> QED BY <2>1, <2>2
<1>4. ASSUME QueueCommand \/ BreakerMoves \/ Lose PROVE FALSE
  BY <1>4 DEF QueueCommand, BreakerMoves, Lose
<1>5. PICK g \in Hooks : Evaluate(g)
  BY <1>3, <1>4 DEF HookNext
<1>6. g = h
  BY <1>1, <1>5, EvaluateFacts
<1>7. hook'[h].answer = Denial(h, file)
  BY <1>1, <1>5, <1>6, EvaluateFacts
<1>8. Denial(h, file) = IF hook[h].snap.max < file.high THEN "rollback" ELSE "stopped"
  BY <1>1 DEF Denial
<1> QED BY <1>7, <1>8

\* A cancel sticks (HookBridge!CancelSticks), although the log that held it may
\* have been lost.
THEOREM CancelledForGood == HookSpec => CancelSticks
<1>1. HookInv /\ [HookNext]_hookvars =>
        [\A h \in Hooks :
          (/\ known.cancel
           /\ hook[h].pc = "read" /\ hook'[h].pc = "decided"
           /\ hook[h].event = "PreToolUse")
            => hook'[h].answer # ""]_hookvars
  BY CancelDenies
<1> QED BY <1>1, HookInvariance, PTL DEF HookSpec, CancelSticks

-----------------------------------------------------------------------------
(* The jobs.  Logs: the places of commands, and what a longer log says. *)

\* Log l begins with the commands of k.
Begins(k, l) == Len(k) <= Len(l) /\ \A i \in DOMAIN k : k[i] = l[i]

LEMMA NumberInduction ==
  ASSUME NEW G \in SUBSET Nat, 0 \in G, \A n \in G : n + 1 \in G
  PROVE  \A n \in Nat : n \in G
<1> SUFFICES ASSUME Nat \ G # {} PROVE FALSE
  OBVIOUS
<1>1. PICK n \in Nat \ G : \A k \in Nat \ G : ~ (<<k, n>> \in OpToRel(<, Nat))
  <2>1. Nat \ G \subseteq Nat
    OBVIOUS
  <2> QED BY <2>1, NatLessThanWellFounded, WFMin
<1>2. \A k \in Nat \ G : ~ (k < n)
  BY <1>1 DEF OpToRel
<1>3. n \in Nat /\ n \notin G /\ n # 0
  BY <1>1
<1>4. n - 1 \in Nat /\ n - 1 < n
  BY <1>3
<1>5. n - 1 \in G
  BY <1>2, <1>4
<1> QED BY <1>3, <1>4, <1>5

LEMMA LogFacts ==
  ASSUME NEW l \in Seq(CommandType)
  PROVE  /\ Len(l) \in Nat /\ DOMAIN l = 1 .. Len(l)
         /\ \A i \in 1 .. Len(l) :
              /\ l[i] \in CommandType
              /\ l[i].action \in Actions /\ l[i].from \in Levels /\ l[i].to \in Levels
              /\ l[i].at \in Nat /\ l[i].id \in Nat
         /\ l = << >> <=> Len(l) = 0
         /\ Breakers(l) \subseteq 1 .. Len(l)
<1>1. Len(l) \in Nat /\ DOMAIN l = 1 .. Len(l) /\ l \in [1 .. Len(l) -> CommandType]
  BY LenProperties
<1>2. \A i \in 1 .. Len(l) : l[i] \in CommandType
  BY ElementOfSeq
<1>3. l = << >> <=> Len(l) = 0
  BY EmptySeq
<1> QED BY <1>1, <1>2, <1>3 DEF CommandType, Breakers

LEMMA NoLogFacts ==
  /\ << >> \in Seq(CommandType) /\ Len(<< >>) = 0 /\ DOMAIN << >> = {} /\ Breakers(<< >>) = {}
  /\ \A a : ~Has(<< >>, a)
<1>1. DOMAIN << >> = {} /\ Len(<< >>) = 0
  BY EmptyFacts
<1>2. << >> \in Seq(CommandType)
  BY EmptySeq
<1> QED BY <1>1, <1>2 DEF Breakers, Has

LEMMA Appended ==
  ASSUME NEW l \in Seq(CommandType), NEW c \in CommandType
  PROVE  /\ Append(l, c) \in Seq(CommandType)
         /\ Len(Append(l, c)) = Len(l) + 1
         /\ Append(l, c)[Len(l) + 1] = c
         /\ \A i \in 1 .. Len(l) : Append(l, c)[i] = l[i]
         /\ Begins(l, Append(l, c))
<1>1. /\ Append(l, c) \in Seq(CommandType)
      /\ Len(Append(l, c)) = Len(l) + 1
      /\ Append(l, c)[Len(l) + 1] = c
      /\ \A i \in 1 .. Len(l) : Append(l, c)[i] = l[i]
  BY AppendProperties
<1> QED BY <1>1, LogFacts DEF Begins

LEMMA BeginsItself ==
  ASSUME NEW l \in Seq(CommandType)
  PROVE  Begins(l, l) /\ Begins(<< >>, l)
BY LogFacts, NoLogFacts DEF Begins

LEMMA BeginsLonger ==
  ASSUME NEW k \in Seq(CommandType), NEW l \in Seq(CommandType), NEW m \in Seq(CommandType),
         Begins(k, l), Begins(l, m)
  PROVE  Begins(k, m)
<1>1. DOMAIN k = 1 .. Len(k) /\ DOMAIN l = 1 .. Len(l) /\ Len(k) \in Nat /\ Len(l) \in Nat /\ Len(m) \in Nat
  BY LogFacts
<1>2. Len(k) <= Len(l) /\ Len(l) <= Len(m)
  BY DEF Begins
<1>3. ASSUME NEW i \in DOMAIN k PROVE k[i] = m[i]
  <2>1. i \in DOMAIN l
    BY <1>1, <1>2
  <2> QED BY <2>1 DEF Begins
<1> QED BY <1>1, <1>2, <1>3 DEF Begins

\* A log that begins with k and is no longer is k.
LEMMA BeginsSame ==
  ASSUME NEW k \in Seq(CommandType), NEW l \in Seq(CommandType),
         Begins(k, l), Len(l) <= Len(k)
  PROVE  k = l
<1>1. Len(k) = Len(l)
  BY LogFacts DEF Begins
<1>2. \A i \in 1 .. Len(k) : k[i] = l[i]
  BY LogFacts DEF Begins
<1> QED BY <1>1, <1>2, SeqEqual

LEMMA BeginsFacts ==
  ASSUME NEW k \in Seq(CommandType), NEW l \in Seq(CommandType), Begins(k, l)
  PROVE  /\ Breakers(k) = {i \in Breakers(l) : i <= Len(k)}
         /\ \A i \in 1 .. Len(k) : i \in 1 .. Len(l) /\ k[i] = l[i]
         /\ \A a : Has(k, a) => Has(l, a)
         /\ StopAsked(k) => StopAsked(l)
<1>1. \A i \in 1 .. Len(k) : i \in 1 .. Len(l) /\ k[i] = l[i]
  BY LogFacts DEF Begins
<1>2. DOMAIN k = 1 .. Len(k) /\ DOMAIN l = 1 .. Len(l) /\ Len(k) \in Nat
  BY LogFacts
<1>3. Breakers(k) = {i \in Breakers(l) : i <= Len(k)}
  BY <1>1, <1>2 DEF Breakers
<1>4. \A a : Has(k, a) => Has(l, a)
  BY <1>1, <1>2 DEF Has
<1>5. StopAsked(k) => StopAsked(l)
  BY <1>1, <1>2, <1>3 DEF StopAsked, Breakers
<1> QED BY <1>1, <1>3, <1>4, <1>5

\* A set of places has a last one.
LEMMA LastPlace ==
  ASSUME NEW n \in Nat, NEW S \in SUBSET (1 .. n), S # {}
  PROVE  Max(S) \in S /\ \A x \in S : x <= Max(S)
<1> DEFINE G == {m \in Nat : \A T \in SUBSET (1 .. m) :
                               T # {} => \E x \in T : \A y \in T : x >= y}
<1>1. 0 \in G
  <2>1. 1 .. 0 = {}
    OBVIOUS
  <2> QED BY <2>1
<1>2. ASSUME NEW m \in G PROVE m + 1 \in G
  <2> SUFFICES ASSUME NEW T \in SUBSET (1 .. (m + 1)), T # {}
               PROVE  \E x \in T : \A y \in T : x >= y
    OBVIOUS
  <2>1. CASE m + 1 \in T
    <3>1. \A y \in T : m + 1 >= y
      OBVIOUS
    <3> QED BY <2>1, <3>1
  <2>2. CASE m + 1 \notin T
    <3>1. T \in SUBSET (1 .. m)
      BY <2>2
    <3> QED BY <3>1
  <2> QED BY <2>1, <2>2
<1>3. G \in SUBSET Nat
  OBVIOUS
<1> HIDE DEF G
<1>4. n \in G
  BY <1>1, <1>2, <1>3, NumberInduction
<1>5. \E x \in S : \A y \in S : x >= y
  BY <1>4 DEF G
<1>6. Max(S) \in S /\ \A y \in S : Max(S) >= y
  BY <1>5 DEF Max
<1> QED BY <1>6

\* The level after n commands is where the last breaker command among them went.
LEMMA LevelFacts ==
  ASSUME NEW l \in Seq(CommandType), NEW n \in Nat
  PROVE  /\ LevelAt(l, n) \in Levels
         /\ (\A i \in Breakers(l) : ~(i <= n)) => LevelAt(l, n) = Healthy
         /\ \A i \in Breakers(l) :
              (i <= n /\ \A j \in Breakers(l) : j <= n => j <= i) => LevelAt(l, n) = l[i].to
         /\ (\E i \in Breakers(l) : i <= n) =>
              \E i \in Breakers(l) : /\ i <= n /\ LevelAt(l, n) = l[i].to
                                     /\ \A j \in Breakers(l) : j <= n => j <= i
<1> DEFINE B == {i \in Breakers(l) : i <= n}
<1>0. Len(l) \in Nat /\ Breakers(l) \subseteq 1 .. Len(l)
      /\ \A i \in Breakers(l) : l[i].to \in Levels
  BY LogFacts
<1>1. LevelAt(l, n) = IF B = {} THEN Healthy ELSE l[Max(B)].to
  BY DEF LevelAt
<1>2. B \in SUBSET (1 .. Len(l))
  BY <1>0
<1>3. B # {} => Max(B) \in B /\ \A x \in B : x <= Max(B)
  BY <1>0, <1>2, LastPlace
<1>4. Healthy \in Levels
  BY DEF Healthy, Levels, Stopped
<1>5. ASSUME NEW i \in Breakers(l), i <= n, \A j \in Breakers(l) : j <= n => j <= i
      PROVE  LevelAt(l, n) = l[i].to
  <2>1. i \in B
    BY <1>5
  <2>2. Max(B) \in B /\ i <= Max(B) /\ Max(B) <= i
    BY <1>3, <1>5, <2>1
  <2>3. Max(B) = i
    BY <1>0, <2>1, <2>2
  <2> QED BY <1>1, <2>1, <2>3
<1>6. ASSUME \E i \in Breakers(l) : i <= n
      PROVE  \E i \in Breakers(l) : /\ i <= n /\ LevelAt(l, n) = l[i].to
                                    /\ \A j \in Breakers(l) : j <= n => j <= i
  <2>1. B # {}
    BY <1>6
  <2>2. Max(B) \in B /\ \A x \in B : x <= Max(B)
    BY <1>3, <2>1
  <2>3. LevelAt(l, n) = l[Max(B)].to
    BY <1>1, <2>1
  <2> QED BY <2>2, <2>3
<1>7. (\A i \in Breakers(l) : ~(i <= n)) => LevelAt(l, n) = Healthy
  BY <1>1
<1>8. LevelAt(l, n) \in Levels
  BY <1>0, <1>1, <1>3, <1>4
<1> QED BY <1>5, <1>6, <1>7, <1>8

LEMMA LevelStep ==
  ASSUME NEW l \in Seq(CommandType), NEW n \in 0 .. Len(l) - 1
  PROVE  LevelAt(l, n + 1) = IF l[n + 1].action = "breaker" THEN l[n + 1].to ELSE LevelAt(l, n)
<1>0. Len(l) \in Nat /\ Breakers(l) \subseteq 1 .. Len(l) /\ DOMAIN l = 1 .. Len(l)
  BY LogFacts
<1>1. n \in Nat /\ n + 1 \in Nat /\ n + 1 \in DOMAIN l
  BY <1>0
<1>2. CASE l[n + 1].action = "breaker"
  <2>1. n + 1 \in Breakers(l) /\ \A j \in Breakers(l) : j <= n + 1 => j <= n + 1
    BY <1>1, <1>2 DEF Breakers
  <2> QED BY <1>1, <1>2, <2>1, LevelFacts
<1>3. CASE l[n + 1].action # "breaker"
  <2>1. n + 1 \notin Breakers(l)
    BY <1>3 DEF Breakers
  <2>2. \A j \in Breakers(l) : j <= n + 1 <=> j <= n
    BY <1>0, <1>1, <2>1
  <2>3. {i \in Breakers(l) : i <= n + 1} = {i \in Breakers(l) : i <= n}
    BY <2>2
  <2> QED BY <1>3, <2>3 DEF LevelAt
<1> QED BY <1>2, <1>3

\* Commands that are not the breaker's leave the level alone.
LEMMA LevelLater ==
  ASSUME NEW l \in Seq(CommandType), NEW m \in Nat, NEW n \in Nat, m <= n,
         \A i \in Breakers(l) : i <= n => i <= m
  PROVE  LevelAt(l, n) = LevelAt(l, m)
<1>1. \A i \in Breakers(l) : i <= n <=> i <= m
  BY LogFacts
<1>2. {i \in Breakers(l) : i <= n} = {i \in Breakers(l) : i <= m}
  BY <1>1
<1> QED BY <1>2 DEF LevelAt

LEMMA LevelBegins ==
  ASSUME NEW k \in Seq(CommandType), NEW l \in Seq(CommandType), Begins(k, l),
         NEW n \in Nat, n <= Len(k)
  PROVE  LevelAt(k, n) = LevelAt(l, n)
<1> DEFINE B == {i \in Breakers(k) : i <= n}
<1>1. Breakers(k) = {i \in Breakers(l) : i <= Len(k)} /\ Breakers(l) \subseteq 1 .. Len(l)
      /\ Len(k) \in Nat /\ Len(l) \in Nat /\ Breakers(k) \subseteq 1 .. Len(k)
  BY BeginsFacts, LogFacts
<1>2. B = {i \in Breakers(l) : i <= n}
  BY <1>1
<1>3. B # {} => Max(B) \in B
  BY <1>1, LastPlace
<1>4. B # {} => k[Max(B)] = l[Max(B)]
  BY <1>1, <1>3, BeginsFacts
<1>5. LevelAt(k, n) = IF B = {} THEN Healthy ELSE k[Max(B)].to
  BY DEF LevelAt
<1>6. LevelAt(l, n) = IF B = {} THEN Healthy ELSE l[Max(B)].to
  BY <1>2 DEF LevelAt
<1> QED BY <1>4, <1>5, <1>6

-----------------------------------------------------------------------------
(* What a log comes to: deadlines and containment. *)

\* The hard deadline after n commands.
HardAfter(l) ==
  LET hard[n \in 0 .. Len(l)] ==
        IF n = 0 THEN Budget
        ELSE IF l[n].action = "extend" /\ l[n].at <= hard[n - 1]
          THEN hard[n - 1] + AtMost(Extension, MaxExtension - hard[n - 1])
        ELSE hard[n - 1]
  IN  hard

Later(l, n, h) ==
  IF l[n].action = "extend" /\ l[n].at <= h
    THEN h + AtMost(Extension, MaxExtension - h) ELSE h

LEMMA LaterFacts ==
  ASSUME NEW l, NEW n, NEW h \in Budget .. MaxExtension
  PROVE  Later(l, n, h) \in h .. MaxExtension /\ Later(l, n, h) \in Budget .. MaxExtension
BY JobAssumption DEF Later, AtMost

LEMMA HardDefined ==
  ASSUME NEW l \in Seq(CommandType)
  PROVE  /\ HardAfter(l)[0] = Budget
         /\ \A n \in 1 .. Len(l) : HardAfter(l)[n] = Later(l, n, HardAfter(l)[n - 1])
         /\ \A n \in 0 .. Len(l) : HardAfter(l)[n] \in Budget .. MaxExtension
<1> DEFINE D == 0 .. Len(l)
           V == Budget .. MaxExtension
           Step(f, n) == IF n = 0 THEN Budget ELSE Later(l, n, f[n - 1])
           G == {m \in Nat : m <= Len(l) =>
                   \E f \in [D -> V] : \A n \in 0 .. m : f[n] = Step(f, n)}
<1>0. Len(l) \in Nat /\ Budget \in V
  BY LogFacts, JobAssumption
<1>1. 0 \in G
  <2> DEFINE f == [n \in D |-> Budget]
  <2>1. f \in [D -> V] /\ f[0] = Budget
    BY <1>0
  <2> HIDE DEF f
  <2>2. \A n \in 0 .. 0 : f[n] = Step(f, n)
    BY <2>1
  <2>3. \E g \in [D -> V] : \A n \in 0 .. 0 : g[n] = Step(g, n)
    BY <2>1, <2>2
  <2> QED BY <2>3
<1>2. ASSUME NEW m \in G PROVE m + 1 \in G
  <2> SUFFICES ASSUME m + 1 <= Len(l)
               PROVE  \E f \in [D -> V] : \A n \in 0 .. (m + 1) : f[n] = Step(f, n)
    OBVIOUS
  <2>1. PICK f \in [D -> V] : \A n \in 0 .. m : f[n] = Step(f, n)
    BY <1>0
  <2> DEFINE v == Later(l, m + 1, f[m])
             g == [f EXCEPT ![m + 1] = v]
  <2>2. f[m] \in V /\ m + 1 \in D /\ m \in D
    <3>1. m \in Nat
      OBVIOUS
    <3> HIDE DEF G, Step
    <3>2. m + 1 \in D /\ m \in D
      BY <1>0, <3>1
    <3> HIDE DEF D, V
    <3> QED BY <3>2
  <2>3. v \in V
    <3> HIDE DEF G, D, Step
    <3> QED BY ONLY <2>2, LaterFacts
  <2> HIDE DEF v, V
  <2>4. g \in [D -> V] /\ g[m + 1] = v /\ \A n \in 0 .. m : g[n] = f[n]
    BY <2>2, <2>3
  <2>5. g[m + 1] = Step(g, m + 1)
    BY <2>4 DEF v
  <2>6. \A n \in 0 .. m : g[n] = Step(g, n)
    <3> TAKE n \in 0 .. m
    <3>1. n # 0 => n - 1 \in 0 .. m
      OBVIOUS
    <3> QED BY <2>1, <2>4, <3>1
  <2>7. \A n \in 0 .. (m + 1) : g[n] = Step(g, n)
    BY <2>5, <2>6
  <2> QED BY <2>4, <2>7
<1>3. G \in SUBSET Nat
  OBVIOUS
<1>4. Len(l) \in G
  <2> HIDE DEF G
  <2> QED BY <1>0, <1>1, <1>2, <1>3, NumberInduction
<1>5. PICK f \in [D -> V] : \A n \in D : f[n] = Step(f, n)
  BY <1>0, <1>4
<1>6. f = [n \in D |-> Step(f, n)]
  BY <1>5
<1>7. HardAfter(l) = CHOOSE g : g = [n \in D |-> Step(g, n)]
  BY DEF HardAfter, Later
<1>8. HardAfter(l) = [n \in D |-> Step(HardAfter(l), n)]
  <2> DEFINE P(g) == g = [n \in D |-> Step(g, n)]
  <2>1. P(f)
    BY <1>6
  <2>2. HardAfter(l) = CHOOSE g : P(g)
    BY <1>7
  <2> HIDE DEF P
  <2>3. P(HardAfter(l))
    BY <2>1, <2>2
  <2> QED BY <2>3 DEF P
<1>9. \A n \in D : HardAfter(l)[n] = Step(HardAfter(l), n)
  BY <1>8
<1> DEFINE H == {m \in Nat : m <= Len(l) => HardAfter(l)[m] \in V}
<1>10. 0 \in H
  BY <1>0, <1>9
<1>11. ASSUME NEW m \in H PROVE m + 1 \in H
  <2> SUFFICES ASSUME m + 1 <= Len(l) PROVE HardAfter(l)[m + 1] \in V
    OBVIOUS
  <2>1. HardAfter(l)[m] \in V /\ m + 1 \in D /\ m + 1 # 0 /\ (m + 1) - 1 = m
    BY <1>0
  <2>2. HardAfter(l)[m + 1] = Later(l, m + 1, HardAfter(l)[m])
    BY <1>9, <2>1
  <2> QED BY <2>1, <2>2, LaterFacts
<1>12. \A m \in Nat : m \in H
  <2> H \in SUBSET Nat
    OBVIOUS
  <2> HIDE DEF H
  <2> QED BY <1>10, <1>11, NumberInduction
<1>13. \A n \in D : HardAfter(l)[n] \in V
  BY <1>0, <1>12
<1>14. 0 \in D /\ \A n \in 1 .. Len(l) : n \in D /\ n # 0
  BY <1>0
<1> QED BY <1>9, <1>13, <1>14

-----------------------------------------------------------------------------
(* Replaying a log: what every single command preserves, the replay does. *)

LEMMA ReplayRule ==
  ASSUME NEW l \in Seq(CommandType), NEW r, r.gen \in 0 .. Len(l),
         NEW G, r \in G,
         \A s \in G : s.gen \in 0 .. Len(l) - 1 =>
           Applied(l[s.gen + 1], s) \in G /\ Applied(l[s.gen + 1], s).gen = s.gen + 1
  PROVE  Replayed(l, r) \in G /\ Replayed(l, r).gen = Len(l)
<1> DEFINE D == r.gen .. Len(l)
           Step(f, n) == IF n = r.gen THEN r ELSE Applied(l[n], f[n - 1])
           M == {m \in Nat : r.gen + m <= Len(l) =>
                   \E f \in [D -> G] : \A n \in r.gen .. (r.gen + m) :
                      f[n] = Step(f, n) /\ f[n].gen = n}
<1>0. Len(l) \in Nat /\ r.gen \in Nat
  BY LogFacts
<1>1. 0 \in M
  <2> DEFINE f == [n \in D |-> r]
  <2>1. f \in [D -> G] /\ f[r.gen] = r
    BY <1>0
  <2> HIDE DEF f
  <2>2. \A n \in r.gen .. (r.gen + 0) : f[n] = Step(f, n) /\ f[n].gen = n
    BY <1>0, <2>1
  <2>3. \E g \in [D -> G] : \A n \in r.gen .. (r.gen + 0) : g[n] = Step(g, n) /\ g[n].gen = n
    BY <2>1, <2>2
  <2> QED BY <2>3
<1>2. ASSUME NEW m \in M PROVE m + 1 \in M
  <2> SUFFICES ASSUME r.gen + (m + 1) <= Len(l)
               PROVE  \E f \in [D -> G] : \A n \in r.gen .. (r.gen + (m + 1)) :
                         f[n] = Step(f, n) /\ f[n].gen = n
    OBVIOUS
  <2> DEFINE p == r.gen + m
  <2>1. PICK f \in [D -> G] : \A n \in r.gen .. p : f[n] = Step(f, n) /\ f[n].gen = n
    BY <1>0
  <2>2. p \in D /\ p + 1 \in D /\ p \in r.gen .. p /\ p \in 0 .. Len(l) - 1 /\ p + 1 # r.gen
        /\ p + 1 = r.gen + (m + 1) /\ (p + 1) - 1 = p /\ p \in Nat
    <3> DEFINE a == r.gen
               z == Len(l)
    <3>1. a \in Nat /\ z \in Nat /\ m \in Nat /\ a + (m + 1) <= z
      BY <1>0
    <3> HIDE DEF M, Step, D, a, z
    <3>2. a + m \in Nat /\ a <= a + m /\ (a + m) + 1 <= z
      BY ONLY <3>1
    <3>3. a + m \in a .. z /\ (a + m) + 1 \in a .. z /\ a + m \in a .. (a + m)
      BY ONLY <3>1, <3>2
    <3>4. a + m \in 0 .. z - 1 /\ (a + m) + 1 # a
      BY ONLY <3>1, <3>2
    <3>5. (a + m) + 1 = a + (m + 1) /\ ((a + m) + 1) - 1 = a + m
      BY ONLY <3>1
    <3> QED BY ONLY <3>2, <3>3, <3>4, <3>5 DEF D, p, a, z
  <2> HIDE DEF p
  <2> DEFINE v == Applied(l[p + 1], f[p])
             g == [f EXCEPT ![p + 1] = v]
  <2>3. f[p] \in G /\ f[p].gen = p
    BY <2>1, <2>2
  <2>4. v \in G /\ v.gen = p + 1
    BY <2>2, <2>3
  <2> HIDE DEF v
  <2>5. g \in [D -> G] /\ g[p + 1] = v /\ \A n \in r.gen .. p : g[n] = f[n]
    BY <2>2, <2>4, <1>0
  <2> HIDE DEF g
  <2>6. g[p + 1] = Step(g, p + 1) /\ g[p + 1].gen = p + 1
    BY <2>2, <2>4, <2>5 DEF v
  <2>7. \A n \in r.gen .. p : g[n] = Step(g, n) /\ g[n].gen = n
    <3> TAKE n \in r.gen .. p
    <3>1. n # r.gen => n - 1 \in r.gen .. p
      BY <1>0, <2>2
    <3> QED BY <2>1, <2>5, <3>1
  <2>8. \A n \in r.gen .. (p + 1) : g[n] = Step(g, n) /\ g[n].gen = n
    <3> HIDE DEF Step
    <3> TAKE n \in r.gen .. (p + 1)
    <3>1. CASE n = p + 1
      BY ONLY <3>1, <2>6
    <3>2. CASE n # p + 1
      <4>1. n \in r.gen .. p
        BY <1>0, <2>2, <3>2
      <4> QED BY ONLY <4>1, <2>7
    <3> QED BY ONLY <3>1, <3>2
  <2> HIDE DEF Step, D
  <2>9. \A n \in r.gen .. (r.gen + (m + 1)) : g[n] = Step(g, n) /\ g[n].gen = n
    <3>1. p + 1 = r.gen + (m + 1)
      BY <2>2
    <3> QED BY ONLY <3>1, <2>8
  <2> QED BY <2>5, <2>9, Zenon
<1>3. M \in SUBSET Nat
  OBVIOUS
<1>4. Len(l) - r.gen \in M
  <2> HIDE DEF M
  <2>1. Len(l) - r.gen \in Nat
    BY <1>0
  <2> QED BY <1>1, <1>2, <1>3, <2>1, NumberInduction
<1>5. PICK f \in [D -> G] : \A n \in D : f[n] = Step(f, n) /\ f[n].gen = n
  <2>1. r.gen + (Len(l) - r.gen) = Len(l)
    BY <1>0
  <2> HIDE DEF Step
  <2> QED BY <1>4, <2>1, <1>0
<1>6. f = [n \in D |-> Step(f, n)]
  BY <1>5
<1> DEFINE Q(g) == g = [n \in D |-> Step(g, n)]
           after == CHOOSE g : Q(g)
<1>7. Replayed(l, r) = after[Len(l)]
  BY DEF Replayed
<1>8. Q(after)
  <2> Q(f)
    BY <1>6
  <2> HIDE DEF Q
  <2> QED OBVIOUS
<1>9. \A n \in D : after[n] = Step(after, n)
  <2> HIDE DEF after
  <2> QED BY <1>8
<1> HIDE DEF after
<1> DEFINE H == {m \in Nat : r.gen + m <= Len(l) =>
                   after[r.gen + m] \in G /\ after[r.gen + m].gen = r.gen + m}
<1>10. 0 \in H
  BY <1>0, <1>9
<1>11. ASSUME NEW m \in H PROVE m + 1 \in H
  <2> SUFFICES ASSUME r.gen + (m + 1) <= Len(l)
               PROVE  /\ after[r.gen + (m + 1)] \in G
                      /\ after[r.gen + (m + 1)].gen = r.gen + (m + 1)
    OBVIOUS
  <2> DEFINE p == r.gen + m
  <2>0. m \in Nat /\ (r.gen + m <= Len(l) => after[p] \in G /\ after[p].gen = p)
    OBVIOUS
  <2>1. p \in D /\ p + 1 \in D /\ p \in 0 .. Len(l) - 1 /\ p + 1 # r.gen
        /\ p + 1 = r.gen + (m + 1) /\ (p + 1) - 1 = p /\ p <= Len(l)
    <3> DEFINE a == r.gen
               z == Len(l)
    <3>1. a \in Nat /\ z \in Nat /\ m \in Nat /\ a + (m + 1) <= z
      BY <1>0
    <3> HIDE DEF H, M, Q, Step, D, a, z
    <3>2. a + m \in Nat /\ a <= a + m /\ (a + m) + 1 <= z /\ a + m <= z
      BY ONLY <3>1
    <3>3. a + m \in a .. z /\ (a + m) + 1 \in a .. z
      BY ONLY <3>1, <3>2
    <3>4. a + m \in 0 .. z - 1 /\ (a + m) + 1 # a
      BY ONLY <3>1, <3>2
    <3>5. (a + m) + 1 = a + (m + 1) /\ ((a + m) + 1) - 1 = a + m
      BY ONLY <3>1
    <3> QED BY ONLY <3>2, <3>3, <3>4, <3>5 DEF D, p, a, z
  <2>2. after[p] \in G /\ after[p].gen = p
    BY ONLY <2>0, <2>1 DEF p
  <2> HIDE DEF p
  <2>3. after[p + 1] = Applied(l[p + 1], after[p])
    BY <1>9, <2>1
  <2> DEFINE s == after[p]
  <2>4. s \in G /\ s.gen = p /\ s.gen \in 0 .. Len(l) - 1
    BY <2>1, <2>2
  <2> HIDE DEF s
  <2>5. Applied(l[s.gen + 1], s) \in G /\ Applied(l[s.gen + 1], s).gen = s.gen + 1
    BY <2>4
  <2>6. Applied(l[p + 1], s) \in G /\ Applied(l[p + 1], s).gen = p + 1
    BY <2>4, <2>5
  <2>7. after[p + 1] = Applied(l[p + 1], s)
    BY <2>3 DEF s
  <2> QED BY <2>1, <2>6, <2>7
<1>12. \A m \in Nat : m \in H
  <2> H \in SUBSET Nat
    OBVIOUS
  <2> HIDE DEF H
  <2> QED BY <1>10, <1>11, NumberInduction
<1>13. Len(l) - r.gen \in Nat /\ r.gen + (Len(l) - r.gen) = Len(l)
  BY <1>0
<1>14. Len(l) - r.gen \in H
  <2> HIDE DEF H
  <2> QED BY <1>12, <1>13
<1>15. after[Len(l)] \in G /\ after[Len(l)].gen = Len(l)
  <2>1. r.gen + (Len(l) - r.gen) <= Len(l) =>
          /\ after[r.gen + (Len(l) - r.gen)] \in G
          /\ after[r.gen + (Len(l) - r.gen)].gen = r.gen + (Len(l) - r.gen)
    BY <1>14
  <2>2. Len(l) <= Len(l)
    BY <1>0
  <2> QED BY ONLY <1>13, <2>1, <2>2
<1> QED BY <1>7, <1>15

\* The hard deadline after n commands depends on these commands alone, and
\* commands never bring it forward.
LEMMA HardBegins ==
  ASSUME NEW k \in Seq(CommandType), NEW l \in Seq(CommandType), Begins(k, l)
  PROVE  \A n \in 0 .. Len(k) : HardAfter(k)[n] = HardAfter(l)[n]
<1> DEFINE G == {n \in Nat : n <= Len(k) => HardAfter(k)[n] = HardAfter(l)[n]}
<1>0. Len(k) \in Nat /\ Len(l) \in Nat /\ Len(k) <= Len(l)
      /\ \A i \in 1 .. Len(k) : i \in 1 .. Len(l) /\ k[i] = l[i]
  BY LogFacts, BeginsFacts DEF Begins
<1>1. 0 \in G
  BY HardDefined
<1>2. ASSUME NEW n \in G PROVE n + 1 \in G
  <2> SUFFICES ASSUME n + 1 <= Len(k) PROVE HardAfter(k)[n + 1] = HardAfter(l)[n + 1]
    OBVIOUS
  <2>1. n \in Nat /\ n + 1 \in 1 .. Len(k) /\ n + 1 \in 1 .. Len(l) /\ (n + 1) - 1 = n
    BY <1>0
  <2>2. HardAfter(k)[n] = HardAfter(l)[n]
    BY <1>0
  <2> HIDE DEF G
  <2>3. HardAfter(k)[n + 1] = Later(k, n + 1, HardAfter(k)[n])
    BY <2>1, HardDefined
  <2>4. HardAfter(l)[n + 1] = Later(l, n + 1, HardAfter(l)[n])
    BY <2>1, HardDefined
  <2> QED BY <1>0, <2>1, <2>2, <2>3, <2>4 DEF Later
<1>3. \A n \in Nat : n \in G
  <2> G \in SUBSET Nat
    OBVIOUS
  <2> HIDE DEF G
  <2> QED BY <1>1, <1>2, NumberInduction
<1> QED BY <1>0, <1>3

LEMMA HardGrows ==
  ASSUME NEW l \in Seq(CommandType), NEW m \in 0 .. Len(l), NEW n \in 0 .. Len(l), m <= n
  PROVE  HardAfter(l)[m] <= HardAfter(l)[n]
<1> DEFINE G == {d \in Nat : m + d <= Len(l) => HardAfter(l)[m] <= HardAfter(l)[m + d]}
<1>0. Len(l) \in Nat /\ m \in Nat /\ Budget \in Nat /\ MaxExtension \in Nat
  BY LogFacts, JobAssumption
<1>1. 0 \in G
  <2>1. HardAfter(l)[m] \in Budget .. MaxExtension /\ m + 0 = m
    BY <1>0, HardDefined
  <2> QED BY <1>0, <2>1
<1>2. ASSUME NEW d \in G PROVE d + 1 \in G
  <2> SUFFICES ASSUME m + (d + 1) <= Len(l)
               PROVE  HardAfter(l)[m] <= HardAfter(l)[m + (d + 1)]
    OBVIOUS
  <2>1. d \in Nat /\ (m + d <= Len(l) => HardAfter(l)[m] <= HardAfter(l)[m + d])
    OBVIOUS
  <2>2. /\ m + d <= Len(l) /\ m + d \in 0 .. Len(l) /\ m + (d + 1) \in 1 .. Len(l)
        /\ (m + (d + 1)) - 1 = m + d
    BY ONLY <1>0, <2>1, m + (d + 1) <= Len(l)
  <2> HIDE DEF G
  <2>3. HardAfter(l)[m + (d + 1)] = Later(l, m + (d + 1), HardAfter(l)[m + d])
    BY <2>2, HardDefined
  <2>4. HardAfter(l)[m + d] \in Budget .. MaxExtension /\ HardAfter(l)[m] \in Budget .. MaxExtension
    BY <2>2, HardDefined
  <2>5. Later(l, m + (d + 1), HardAfter(l)[m + d]) \in HardAfter(l)[m + d] .. MaxExtension
    BY <2>4, LaterFacts
  <2> QED BY <1>0, <2>1, <2>2, <2>3, <2>4, <2>5
<1>3. \A d \in Nat : d \in G
  <2> G \in SUBSET Nat
    OBVIOUS
  <2> HIDE DEF G
  <2> QED BY <1>1, <1>2, NumberInduction
<1>4. n - m \in Nat /\ m + (n - m) = n
  BY <1>0
<1> QED BY <1>3, <1>4

\* The breaker was constrained by one of the first n commands, and none of them
\* took it back to healthy.
ContainedAt(l, n) ==
  \E i \in Breakers(l) : /\ i <= n /\ l[i].to = Constrained
                         /\ \A j \in Breakers(l) : (i < j /\ j <= n) => l[j].to # Healthy

\* Some command constrains the breaker, and none of the first n takes it back.
Upheld(l, n) ==
  \E i \in Breakers(l) : /\ l[i].to = Constrained
                         /\ \A j \in Breakers(l) : (i < j /\ j <= n) => l[j].to # Healthy

LEMMA UpheldStep ==
  ASSUME NEW l \in Seq(CommandType), NEW n \in 0 .. Len(l) - 1
  PROVE  /\ (l[n + 1].action # "breaker" \/ l[n + 1].to # Healthy) =>
              (Upheld(l, n) => Upheld(l, n + 1))
         /\ (l[n + 1].action = "breaker" /\ l[n + 1].to = Constrained) => Upheld(l, n + 1)
         /\ (l[n + 1].action # "breaker" \/ l[n + 1].to # Constrained) =>
              (ContainedAt(l, n + 1) => ContainedAt(l, n))
         /\ (l[n + 1].action = "breaker" /\ l[n + 1].to = Healthy) => ~ContainedAt(l, n + 1)
<1>0. Len(l) \in Nat /\ Breakers(l) \subseteq 1 .. Len(l) /\ n \in Nat /\ n + 1 \in DOMAIN l
      /\ (l[n + 1].action = "breaker" => n + 1 \in Breakers(l))
      /\ \A i \in Breakers(l) : l[i].action = "breaker"
  BY LogFacts DEF Breakers
<1>1. \A j \in Breakers(l) : j <= n + 1 => j <= n \/ j = n + 1
  BY <1>0
<1>2. \A j \in Breakers(l) : j <= n => j <= n + 1 /\ j # n + 1
  BY <1>0
<1>3. ASSUME l[n + 1].action # "breaker" \/ l[n + 1].to # Healthy, Upheld(l, n)
      PROVE  Upheld(l, n + 1)
  BY <1>0, <1>1, <1>3 DEF Upheld
<1>4. ASSUME l[n + 1].action = "breaker", l[n + 1].to = Constrained PROVE Upheld(l, n + 1)
  <2>1. \A j \in Breakers(l) : ~(n + 1 < j /\ j <= n + 1)
    BY <1>0
  <2>2. n + 1 \in Breakers(l) /\ l[n + 1].to = Constrained
    BY <1>0, <1>4
  <2> QED BY ONLY <2>1, <2>2 DEF Upheld
<1>5. ASSUME l[n + 1].action # "breaker" \/ l[n + 1].to # Constrained, ContainedAt(l, n + 1)
      PROVE  ContainedAt(l, n)
  BY <1>0, <1>1, <1>2, <1>5 DEF ContainedAt
<1>6. ASSUME l[n + 1].action = "breaker", l[n + 1].to = Healthy, ContainedAt(l, n + 1)
      PROVE  FALSE
  <2>1. n + 1 \in Breakers(l) /\ n + 1 <= n + 1
    <3>1. n + 1 <= n + 1
      BY ONLY <1>0
    <3> QED BY ONLY <1>0, <1>6, <3>1
  <2>3. Constrained # Healthy
    BY DEF Constrained, Healthy
  <2>2. \A i \in Breakers(l) : i <= n + 1 => i < n + 1 \/ i = n + 1
    BY <1>0
  <2> QED BY <1>6, <2>1, <2>2, <2>3 DEF ContainedAt
<1> QED BY <1>3, <1>4, <1>5, <1>6

\* When no transition comes after place n, both are what the whole log asks for.
LEMMA UpheldWhole ==
  ASSUME NEW l \in Seq(CommandType), NEW n \in Nat, \A i \in Breakers(l) : i <= n, Enforce
  PROVE  (Contained(l) <=> Upheld(l, n)) /\ (Contained(l) <=> ContainedAt(l, n))
BY LogFacts DEF Contained, Upheld, ContainedAt

LEMMA UpheldBegins ==
  ASSUME NEW k \in Seq(CommandType), NEW l \in Seq(CommandType), Begins(k, l),
         NEW n \in Nat, n <= Len(k)
  PROVE  /\ Upheld(k, n) => Upheld(l, n)
         /\ ContainedAt(l, n) => ContainedAt(k, n)
<1>1. Breakers(k) = {i \in Breakers(l) : i <= Len(k)} /\ Len(k) \in Nat /\ Len(l) \in Nat
      /\ Breakers(k) \subseteq 1 .. Len(k) /\ Breakers(l) \subseteq 1 .. Len(l)
      /\ \A i \in 1 .. Len(k) : k[i] = l[i]
  BY BeginsFacts, LogFacts
<1>2. \A i \in Breakers(l) : i <= n => i \in Breakers(k)
  BY <1>1
<1>3. \A i \in Breakers(k) : i \in Breakers(l) /\ k[i] = l[i]
  BY <1>1
<1>4. Upheld(k, n) => Upheld(l, n)
  <2> SUFFICES ASSUME NEW i \in Breakers(k), k[i].to = Constrained,
                      \A j \in Breakers(k) : (i < j /\ j <= n) => k[j].to # Healthy
               PROVE  Upheld(l, n)
    BY DEF Upheld
  <2>1. i \in Breakers(l) /\ l[i].to = Constrained
    BY <1>3
  <2>2. \A j \in Breakers(l) : (i < j /\ j <= n) => l[j].to # Healthy
    BY <1>2, <1>3
  <2> QED BY <2>1, <2>2 DEF Upheld
<1>5. ContainedAt(l, n) => ContainedAt(k, n)
  <2> SUFFICES ASSUME NEW i \in Breakers(l), i <= n, l[i].to = Constrained,
                      \A j \in Breakers(l) : (i < j /\ j <= n) => l[j].to # Healthy
               PROVE  ContainedAt(k, n)
    BY DEF ContainedAt
  <2>1. i \in Breakers(k) /\ k[i].to = Constrained
    BY <1>2, <1>3
  <2>2. \A j \in Breakers(k) : (i < j /\ j <= n) => k[j].to # Healthy
    BY <1>3
  <2> QED BY <2>1, <2>2 DEF ContainedAt
<1> QED BY <1>4, <1>5

\* A log that grows by no transition asks for the same containment.
LEMMA ContainedBegins ==
  ASSUME NEW k \in Seq(CommandType), NEW l \in Seq(CommandType), Begins(k, l),
         \A i \in Breakers(l) : i <= Len(k), Contained(k)
  PROVE  Contained(l)
<1>1. Enforce /\ Len(k) \in Nat /\ \A i \in Breakers(k) : i <= Len(k)
  BY LogFacts DEF Contained
<1>2. Upheld(k, Len(k))
  BY <1>1, UpheldWhole
<1>3. Upheld(l, Len(k))
  BY <1>1, <1>2, UpheldBegins
<1> QED BY <1>1, <1>3, UpheldWhole

\* What a command leaves of each part of the runtime control.
LEMMA AppliedFacts ==
  ASSUME NEW c \in CommandType, NEW r \in RuntimeType, r.hard \in Budget .. MaxExtension
  PROVE  LET a == Applied(c, r) IN
         /\ a \in RuntimeType
         /\ a.gen = r.gen + 1
         /\ a.known = IF Len(r.known) < r.gen + 1 THEN Append(r.known, c) ELSE r.known
         /\ a.sealed = r.sealed /\ a.untrusted = r.untrusted /\ a.decision = r.decision
         /\ a.cancel = (r.cancel \/ c.action = "cancel")
         /\ a.hard = IF c.action = "extend" THEN r.hard + ExtendBy(r, c) ELSE r.hard
         /\ a.soft = IF c.action = "extend" THEN r.soft + ExtendBy(r, c) ELSE r.soft
         /\ a.level = IF c.action = "breaker" THEN c.to ELSE r.level
         /\ a.constrained = IF c.action # "breaker" \/ ~Enforce THEN r.constrained
                            ELSE IF c.to = Constrained THEN TRUE
                            ELSE IF c.to = Healthy THEN FALSE ELSE r.constrained
         /\ a.stopped = (r.stopped \/ (c.action = "breaker" /\ Enforce /\ c.to = Stopped))
<1> DEFINE a == Applied(c, r)
           n == IF Len(r.known) < r.gen + 1 THEN Append(r.known, c) ELSE r.known
           e == ExtendBy(r, c)
           b == IF ~Enforce THEN r.constrained
                ELSE CASE c.to = Constrained -> TRUE
                       [] c.to = Healthy     -> FALSE
                       [] OTHER              -> r.constrained
           t == r.stopped \/ (Enforce /\ c.to = Stopped)
           s == [r EXCEPT !.gen = r.gen + 1, !.known = n]
<1>1. c.action \in Actions /\ c.to \in Levels
  BY DEF CommandType
<1>2. n \in Seq(CommandType)
  BY Appended DEF RuntimeType
<1>3. e \in Nat
  BY JobAssumption DEF ExtendBy, AtMost, RuntimeType, CommandType
<1>4. b \in BOOLEAN /\ t \in BOOLEAN
  BY DEF RuntimeType
<1>5. b = IF ~Enforce THEN r.constrained ELSE IF c.to = Constrained THEN TRUE
          ELSE IF c.to = Healthy THEN FALSE ELSE r.constrained
  <2>1. Constrained # Healthy
    BY DEF Constrained, Healthy
  <2>2. CASE ~Enforce
    BY <2>2
  <2>3. CASE Enforce /\ c.to = Constrained
    BY <2>1, <2>3
  <2>4. CASE Enforce /\ c.to = Healthy
    BY <2>1, <2>4
  <2>5. CASE Enforce /\ c.to # Constrained /\ c.to # Healthy
    BY <2>5
  <2> QED BY <2>2, <2>3, <2>4, <2>5
<1>6. a = CASE c.action = "cancel"  -> [s EXCEPT !.cancel = TRUE]
            [] c.action = "extend"  -> [s EXCEPT !.hard = @ + e, !.soft = @ + e,
                                                 !.attention = @ /\ e = 0]
            [] c.action = "handoff" -> [s EXCEPT !.handoff = TRUE]
            [] c.action = "breaker" -> [s EXCEPT !.level = c.to, !.constrained = b,
                                                 !.stopped = t]
            [] OTHER -> s
  <2>1. s.constrained = r.constrained /\ s.stopped = r.stopped
    BY DEF RuntimeType
  <2> QED BY <2>1 DEF Applied
<1> HIDE DEF a, n, e, b, t
<1>7. s \in RuntimeType /\ s.gen = r.gen + 1 /\ s.known = n
      /\ s.sealed = r.sealed /\ s.untrusted = r.untrusted /\ s.decision = r.decision
      /\ s.cancel = r.cancel /\ s.hard = r.hard /\ s.soft = r.soft /\ s.level = r.level
      /\ s.constrained = r.constrained /\ s.stopped = r.stopped
  <2>1. r.gen + 1 \in Nat
    BY DEF RuntimeType
  <2>2. s \in RuntimeType
    BY <1>2, <2>1 DEF RuntimeType
  <2>3. s.gen = r.gen + 1 /\ s.known = n
    BY DEF RuntimeType
  <2>4. s.sealed = r.sealed /\ s.untrusted = r.untrusted /\ s.decision = r.decision
        /\ s.cancel = r.cancel /\ s.hard = r.hard /\ s.soft = r.soft /\ s.level = r.level
    BY DEF RuntimeType
  <2>5. s.constrained = r.constrained /\ s.stopped = r.stopped
    BY DEF RuntimeType
  <2> QED BY <2>2, <2>3, <2>4, <2>5
<1> HIDE DEF s
<1> USE <1>1, <1>3, <1>4, <1>6, <1>7
<1>8. CASE c.action = "cancel"
  <2>1. a = [s EXCEPT !.cancel = TRUE]
    BY <1>8
  <2>2. a \in RuntimeType /\ a.cancel = TRUE /\ a.gen = s.gen /\ a.known = s.known
        /\ a.sealed = s.sealed /\ a.untrusted = s.untrusted /\ a.decision = s.decision
        /\ a.hard = s.hard /\ a.soft = s.soft /\ a.level = s.level
        /\ a.constrained = s.constrained /\ a.stopped = s.stopped
    BY <2>1 DEF RuntimeType
  <2> QED BY <1>8, <2>2 DEF a, n, RuntimeType
<1>9. CASE c.action = "extend"
  <2> DEFINE f == s.attention /\ e = 0
  <2>0. f \in BOOLEAN
    OBVIOUS
  <2>1. a = [s EXCEPT !.hard = s.hard + e, !.soft = s.soft + e, !.attention = f]
    <3>1. a = [s EXCEPT !.hard = @ + e, !.soft = @ + e, !.attention = @ /\ e = 0]
      BY <1>9
    <3> QED BY <3>1 DEF RuntimeType
  <2> HIDE DEF f
  <2>2. a \in RuntimeType /\ a.cancel = s.cancel /\ a.gen = s.gen /\ a.known = s.known
        /\ a.sealed = s.sealed /\ a.untrusted = s.untrusted /\ a.decision = s.decision
        /\ a.hard = s.hard + e /\ a.soft = s.soft + e /\ a.level = s.level
        /\ a.constrained = s.constrained /\ a.stopped = s.stopped
    <3>1. s.hard + e \in Nat /\ s.soft + e \in Nat
      BY DEF RuntimeType
    <3>2. a \in RuntimeType
      BY <2>0, <2>1, <3>1 DEF RuntimeType
    <3>3. a.cancel = s.cancel /\ a.gen = s.gen /\ a.known = s.known
          /\ a.sealed = s.sealed /\ a.untrusted = s.untrusted /\ a.decision = s.decision
      BY <2>1 DEF RuntimeType
    <3>4. a.hard = s.hard + e /\ a.soft = s.soft + e /\ a.level = s.level
      BY <2>1 DEF RuntimeType
    <3>5. a.constrained = s.constrained /\ a.stopped = s.stopped
      BY <2>1 DEF RuntimeType
    <3> QED BY <3>2, <3>3, <3>4, <3>5
  <2> QED BY <1>9, <2>2 DEF a, n, e, RuntimeType
<1>10. CASE c.action = "handoff"
  <2>1. a = [s EXCEPT !.handoff = TRUE]
    BY <1>10
  <2>2. a \in RuntimeType /\ a.cancel = s.cancel /\ a.gen = s.gen /\ a.known = s.known
        /\ a.sealed = s.sealed /\ a.untrusted = s.untrusted /\ a.decision = s.decision
        /\ a.hard = s.hard /\ a.soft = s.soft /\ a.level = s.level
        /\ a.constrained = s.constrained /\ a.stopped = s.stopped
    BY <2>1 DEF RuntimeType
  <2> QED BY <1>10, <2>2 DEF a, n, RuntimeType
<1>11. CASE c.action = "breaker"
  <2>1. a = [s EXCEPT !.level = c.to, !.constrained = b, !.stopped = t]
    BY <1>11
  <2>2. a \in RuntimeType /\ a.cancel = s.cancel /\ a.gen = s.gen /\ a.known = s.known
        /\ a.sealed = s.sealed /\ a.untrusted = s.untrusted /\ a.decision = s.decision
        /\ a.hard = s.hard /\ a.soft = s.soft /\ a.level = c.to
        /\ a.constrained = b /\ a.stopped = t
    BY <2>1 DEF RuntimeType
  <2> QED BY <1>5, <1>11, <2>2 DEF a, n, t, RuntimeType
<1>12. CASE c.action = "steer"
  <2>1. a = s
    BY <1>12
  <2> QED BY <1>12, <2>1 DEF a, n, RuntimeType
<1> QED BY <1>8, <1>9, <1>10, <1>11, <1>12 DEF Actions

-----------------------------------------------------------------------------
(* Types. *)

\* Log l fits, with identities up to n.
LogTo(l, n) ==
  /\ l \in Seq(CommandType) /\ Len(l) <= MaxCommands
  /\ \A i \in DOMAIN l : l[i].id <= n

RuntimeFits(r, n) ==
  /\ r \in RuntimeType
  /\ LogTo(r.known, n) /\ r.gen <= MaxCommands
  /\ r.soft <= r.hard /\ r.hard \in Budget .. MaxExtension
  /\ ~r.untrusted => r.gen <= Len(r.known)

LEMMA LogToMore ==
  ASSUME NEW m \in Nat, NEW n \in Nat, m <= n
  PROVE  /\ \A l : LogTo(l, m) => LogTo(l, n)
         /\ \A r : RuntimeFits(r, m) => RuntimeFits(r, n)
<1>1. ASSUME NEW l, LogTo(l, m) PROVE LogTo(l, n)
  <2>1. \A i \in DOMAIN l : l[i].id \in Nat
    BY <1>1, LogFacts DEF LogTo
  <2> QED BY <1>1, <2>1 DEF LogTo
<1> QED BY <1>1 DEF RuntimeFits

LEMMA LogToAppended ==
  ASSUME NEW n \in Nat, NEW l, LogTo(l, n), Len(l) < MaxCommands,
         NEW c \in CommandType, c.id <= n
  PROVE  LogTo(Append(l, c), n)
<1>1. /\ l \in Seq(CommandType) /\ Append(l, c) \in Seq(CommandType)
      /\ Len(Append(l, c)) = Len(l) + 1 /\ Len(l) \in Nat
      /\ Append(l, c)[Len(l) + 1] = c /\ DOMAIN l = 1 .. Len(l)
      /\ DOMAIN Append(l, c) = 1 .. Len(Append(l, c))
      /\ \A i \in 1 .. Len(l) : Append(l, c)[i] = l[i]
  BY Appended, LogFacts DEF LogTo
<1>2. \A i \in DOMAIN Append(l, c) : i \in 1 .. Len(l) \/ i = Len(l) + 1
  BY <1>1
<1>3. Len(Append(l, c)) <= MaxCommands
  BY <1>1, LogAssumption
<1>4. ASSUME NEW i \in DOMAIN Append(l, c) PROVE Append(l, c)[i].id <= n
  <2>1. CASE i \in 1 .. Len(l)
    BY <1>1, <2>1 DEF LogTo
  <2>2. CASE i = Len(l) + 1
    BY <1>1, <2>2
  <2> QED BY <1>2, <2>1, <2>2
<1> QED BY <1>1, <1>3, <1>4 DEF LogTo

\* The first commands of a log.
LEMMA FirstCommands ==
  ASSUME NEW l \in Seq(CommandType), NEW n \in 0 .. Len(l)
  PROVE  /\ SubSeq(l, 1, n) \in Seq(CommandType) /\ Len(SubSeq(l, 1, n)) = n
         /\ \A i \in 1 .. n : SubSeq(l, 1, n)[i] = l[i]
         /\ Begins(SubSeq(l, 1, n), l)
<1>0. Len(l) \in Nat /\ n \in Nat /\ n <= Len(l)
  BY LogFacts
<1> DEFINE s == SubSeq(l, 1, n)
<1>1. s \in Seq(CommandType) /\ Len(s) = n /\ \A i \in 1 .. n : s[i] = l[i]
  <2>1. CASE n = 0
    <3>1. s = << >>
      BY <2>1, <1>0, SubSeqProperties
    <3> QED BY <2>1, <3>1, NoLogFacts
  <2>2. CASE n # 0
    <3>1. 1 \in 1 .. Len(l) + 1 /\ n \in 0 .. Len(l)
      BY <1>0
    <3>2. Len(s) = (IF 1 <= n THEN n - 1 + 1 ELSE 0) /\ s \in Seq(CommandType)
          /\ \A i \in 1 .. n - 1 + 1 : s[i] = l[1 + i - 1]
      BY <3>1, SubSeqProperties
    <3>3. 1 <= n /\ n - 1 + 1 = n /\ \A i \in 1 .. n : 1 + i - 1 = i
      BY <1>0, <2>2
    <3> QED BY <3>2, <3>3
  <2> QED BY <2>1, <2>2
<1>2. DOMAIN s = 1 .. n
  BY <1>1, LogFacts
<1> QED BY <1>0, <1>1, <1>2 DEF Begins

LEMMA AppliedFits ==
  ASSUME NEW n \in Nat, NEW l, LogTo(l, n), NEW r, RuntimeFits(r, n), r.gen \in 0 .. Len(l) - 1
  PROVE  /\ RuntimeFits(Applied(l[r.gen + 1], r), n)
         /\ Applied(l[r.gen + 1], r).gen = r.gen + 1
         /\ Applied(l[r.gen + 1], r).hard >= r.hard
<1> DEFINE c == l[r.gen + 1]
           a == Applied(c, r)
<1>0. /\ l \in Seq(CommandType) /\ Len(l) \in Nat /\ Len(l) <= MaxCommands
      /\ r \in RuntimeType /\ r.gen \in Nat /\ r.hard \in Budget .. MaxExtension
      /\ r.known \in Seq(CommandType) /\ r.soft \in Nat /\ r.soft <= r.hard
      /\ Len(r.known) \in Nat /\ Budget \in Nat /\ MaxExtension \in Nat /\ MaxCommands \in Nat
  BY LogFacts, JobAssumption, LogAssumption DEF LogTo, RuntimeFits, RuntimeType
<1>1. c \in CommandType /\ c.id <= n
  <2>1. r.gen + 1 \in 1 .. Len(l) /\ r.gen + 1 \in DOMAIN l
    BY <1>0, LogFacts
  <2>2. c \in CommandType
    BY <2>1, <1>0, LogFacts
  <2>3. c.id <= n
    BY <2>1 DEF LogTo
  <2> QED BY ONLY <2>2, <2>3
<1>2. ExtendBy(r, c) \in Nat /\ r.hard + ExtendBy(r, c) <= MaxExtension
  <2>1. c.at \in Nat /\ Extension \in Nat
    BY <1>1, JobAssumption DEF CommandType
  <2> DEFINE h == r.hard
             e == c.at
  <2>2. h \in Nat /\ h <= MaxExtension /\ MaxExtension \in Nat /\ e \in Nat /\ Extension \in Nat
    BY <1>0, <2>1
  <2>3. ExtendBy(r, c) = IF e <= h THEN AtMost(Extension, MaxExtension - h) ELSE 0
    BY DEF ExtendBy
  <2> HIDE DEF c, a, h, e
  <2> QED BY ONLY <2>2, <2>3 DEF AtMost, h
<1>3. /\ a \in RuntimeType
      /\ a.gen = r.gen + 1
      /\ a.known = IF Len(r.known) < r.gen + 1 THEN Append(r.known, c) ELSE r.known
      /\ a.untrusted = r.untrusted
      /\ a.hard = IF c.action = "extend" THEN r.hard + ExtendBy(r, c) ELSE r.hard
      /\ a.soft = IF c.action = "extend" THEN r.soft + ExtendBy(r, c) ELSE r.soft
  BY <1>0, <1>1, AppliedFacts
<1> HIDE DEF a, c
<1>4. a.hard \in Budget .. MaxExtension /\ a.soft <= a.hard /\ a.hard >= r.hard
  <2>1. CASE c.action = "extend"
    <3> DEFINE x == ExtendBy(r, c)
    <3>1. x \in Nat /\ r.hard + x <= MaxExtension /\ a.hard = r.hard + x /\ a.soft = r.soft + x
      BY <1>2, <1>3, <2>1
    <3> HIDE DEF x
    <3> QED BY ONLY <1>0, <3>1
  <2>2. CASE c.action # "extend"
    <3>1. a.hard = r.hard /\ a.soft = r.soft
      BY <1>3, <2>2
    <3> QED BY ONLY <1>0, <3>1
  <2> QED BY ONLY <2>1, <2>2
<1>5. a.gen <= MaxCommands
  BY <1>0, <1>3
<1>6. LogTo(a.known, n)
  <2>1. CASE Len(r.known) < r.gen + 1
    <3>1. Len(r.known) < MaxCommands
      BY <1>0, <2>1
    <3>2. LogTo(r.known, n)
      BY DEF RuntimeFits
    <3> QED BY <1>1, <1>3, <2>1, <3>1, <3>2, LogToAppended
  <2>2. CASE ~(Len(r.known) < r.gen + 1)
    BY <1>3, <2>2 DEF RuntimeFits
  <2> QED BY <2>1, <2>2
<1>7. ~a.untrusted => a.gen <= Len(a.known)
  <2> SUFFICES ASSUME ~a.untrusted PROVE a.gen <= Len(a.known)
    OBVIOUS
  <2>1. r.gen <= Len(r.known)
    BY <1>3 DEF RuntimeFits
  <2>2. CASE Len(r.known) < r.gen + 1
    <3>1. a.known = Append(r.known, c)
      BY <1>3, <2>2
    <3>2. Len(a.known) = Len(r.known) + 1
      BY <3>1, <1>0, <1>1, Appended
    <3> QED BY <1>0, <1>3, <2>1, <3>2
  <2>3. CASE ~(Len(r.known) < r.gen + 1)
    BY <1>0, <1>3, <2>3
  <2> QED BY <2>2, <2>3
<1>8. RuntimeFits(a, n)
  BY <1>3, <1>4, <1>5, <1>6, <1>7 DEF RuntimeFits
<1> QED BY <1>3, <1>4, <1>8 DEF a, c

\* A refresh either finds that the log is not to be trusted, or has applied all of it.
LEMMA RefreshFits ==
  ASSUME NEW n \in Nat, NEW l, LogTo(l, n), NEW r, RuntimeFits(r, n)
  PROVE  LET s == Refreshed(l, r) IN
         /\ RuntimeFits(s, n)
         /\ s.hard >= r.hard /\ s.hard \in Nat
         /\ (r.untrusted \/ ~Trusted(l, r)) => s.untrusted
         /\ (~r.untrusted /\ Trusted(l, r)) => s = Replayed(l, r) /\ ~s.untrusted /\ s.gen = Len(l)
         /\ ~s.untrusted => ~r.untrusted /\ Trusted(l, r)
<1>0. /\ l \in Seq(CommandType) /\ Len(l) \in Nat /\ Len(l) <= MaxCommands
      /\ r \in RuntimeType /\ r.gen \in Nat /\ r.hard \in Nat
  BY LogFacts, JobAssumption DEF LogTo, RuntimeFits, RuntimeType
<1>1. CASE r.untrusted
  <2>1. Refreshed(l, r) = r
    BY <1>1 DEF Refreshed
  <2> QED BY <1>0, <1>1, <2>1
<1>2. CASE ~r.untrusted /\ ~Trusted(l, r)
  <2> DEFINE s == [r EXCEPT !.untrusted = TRUE]
  <2>1. Refreshed(l, r) = s
    BY <1>2 DEF Refreshed
  <2>2. s \in RuntimeType /\ s.known = r.known /\ s.gen = r.gen /\ s.soft = r.soft
        /\ s.hard = r.hard /\ s.untrusted = TRUE
    BY <1>0 DEF RuntimeType
  <2> HIDE DEF s
  <2>3. RuntimeFits(s, n)
    BY <2>2 DEF RuntimeFits
  <2> QED BY <1>0, <1>2, <2>1, <2>2, <2>3
<1>3. CASE ~r.untrusted /\ Trusted(l, r)
  <2>1. Refreshed(l, r) = Replayed(l, r)
    BY <1>3 DEF Refreshed
  <2>2. r.gen \in 0 .. Len(l)
    BY <1>0, <1>3 DEF Trusted
  <2> DEFINE G == {s \in RuntimeType : RuntimeFits(s, n) /\ ~s.untrusted /\ s.hard >= r.hard}
  <2>3. r \in G
    BY <1>0, <1>3
  <2>4. ASSUME NEW s \in G, s.gen \in 0 .. Len(l) - 1
        PROVE  Applied(l[s.gen + 1], s) \in G /\ Applied(l[s.gen + 1], s).gen = s.gen + 1
    <3> DEFINE a == Applied(l[s.gen + 1], s)
    <3>1. RuntimeFits(a, n) /\ a.gen = s.gen + 1 /\ a.hard >= s.hard
      BY <2>4, AppliedFits
    <3>2. a \in RuntimeType /\ a.hard \in Nat /\ s.hard \in Nat
      BY <3>1 DEF RuntimeFits, RuntimeType
    <3>3. a.untrusted = s.untrusted
      <4>1. l[s.gen + 1] \in CommandType
        BY <1>0, <2>4, LogFacts
      <4>2. s.hard \in Budget .. MaxExtension
        BY DEF RuntimeFits
      <4> QED BY <4>1, <4>2, AppliedFacts
    <3> HIDE DEF a
    <3>4. a.hard >= r.hard
      BY <1>0, <3>1, <3>2
    <3> QED BY <3>1, <3>2, <3>3, <3>4 DEF a
  <2> HIDE DEF G
  <2>5. Replayed(l, r) \in G /\ Replayed(l, r).gen = Len(l)
    BY <1>0, <2>2, <2>3, <2>4, ReplayRule
  <2>6. RuntimeFits(Replayed(l, r), n) /\ ~Replayed(l, r).untrusted
        /\ Replayed(l, r).hard >= r.hard /\ Replayed(l, r).hard \in Nat
    BY <2>5 DEF G, RuntimeType
  <2> QED BY <1>3, <2>1, <2>5, <2>6
<1> QED BY <1>1, <1>2, <1>3

LEMMA SealFits ==
  ASSUME NEW n \in Nat, NEW r, RuntimeFits(r, n), ~r.untrusted
  PROVE  /\ SealOf(r) \in SealType /\ LogTo(SealOf(r).known, n)
         /\ SealOf(r).known \in Seq(CommandType)
         /\ Len(SealOf(r).known) = r.gen /\ \A i \in 1 .. r.gen : SealOf(r).known[i] = r.known[i]
         /\ Begins(SealOf(r).known, r.known)
<1> DEFINE k == SubSeq(r.known, 1, r.gen)
<1>1. r \in RuntimeType /\ r.known \in Seq(CommandType) /\ r.gen \in Nat
      /\ r.gen <= Len(r.known) /\ Len(r.known) \in Nat /\ Len(r.known) <= MaxCommands
      /\ MaxCommands \in Nat
  BY LogFacts, LogAssumption DEF RuntimeFits, LogTo, RuntimeType
<1>2. r.gen \in 0 .. Len(r.known)
  BY <1>1
<1>3. k \in Seq(CommandType) /\ Len(k) = r.gen /\ Begins(k, r.known)
      /\ \A i \in 1 .. r.gen : k[i] = r.known[i]
  BY <1>1, <1>2, FirstCommands
<1> HIDE DEF k
<1>4. SealOf(r) \in SealType /\ SealOf(r).known = k
  BY <1>1, <1>3 DEF SealOf, SealType, RuntimeType, k
<1>5. LogTo(k, n)
  <2>1. Len(k) <= MaxCommands
    BY <1>1, <1>3
  <2>2. ASSUME NEW i \in DOMAIN k PROVE k[i].id <= n
    <3>1. i \in 1 .. r.gen /\ i \in DOMAIN r.known
      BY <1>1, <1>3, LogFacts
    <3> QED BY <1>3, <3>1 DEF RuntimeFits, LogTo
  <2> QED BY <1>3, <2>1, <2>2 DEF LogTo
<1> QED BY <1>3, <1>4, <1>5

FilesFit(n) ==
  /\ seal \in SealType \cup {NoSeal, Damaged}
  /\ seal \in SealType => LogTo(seal.known, n)
  /\ faults \in 0 .. MaxFaults
  /\ promised \in Budget .. MaxExtension

\* What a refresh stores has its type.
LEMMA StoreFits ==
  ASSUME NEW n \in Nat, NEW l, LogTo(l, n), NEW r, RuntimeFits(r, n), FilesFit(n),
         StoreRefresh(l, r)
  PROVE  /\ RuntimeFits(rt', n) /\ rt' # NoRuntime /\ rt'.hard <= promised'
         /\ promised' >= promised /\ FilesFit(n)'
<1> DEFINE s == Refreshed(l, r)
<1>1. RuntimeFits(s, n) /\ s.hard \in Nat /\ s \in RuntimeType /\ s.hard \in Budget .. MaxExtension
  BY RefreshFits DEF RuntimeFits
<1>2. promised' = IF s.hard > promised THEN s.hard ELSE promised
  BY DEF StoreRefresh
<1>3. IF ~s.untrusted /\ s.gen > s.sealed
        THEN \/ seal' = SealOf(s) /\ rt' = [s EXCEPT !.sealed = s.gen] /\ faults' = faults
             \/ faults < MaxFaults /\ faults' = faults + 1 /\ rt' = s /\ seal' = seal
        ELSE rt' = s /\ seal' = seal /\ faults' = faults
  BY DEF StoreRefresh
<1> HIDE DEF s
<1>4. promised' \in Budget .. MaxExtension /\ promised' >= promised /\ s.hard <= promised'
  BY <1>1, <1>2, JobAssumption DEF FilesFit
<1> DEFINE t == [s EXCEPT !.sealed = s.gen]
<1>5. t \in RuntimeType /\ t.known = s.known /\ t.gen = s.gen /\ t.soft = s.soft
      /\ t.hard = s.hard /\ t.untrusted = s.untrusted
  BY <1>1 DEF RuntimeType
<1>6. rt' \in {s, t}
  BY <1>3
<1> HIDE DEF t
<1>7. RuntimeFits(t, n)
  BY <1>1, <1>5 DEF RuntimeFits
<1>8. RuntimeFits(rt', n) /\ rt'.hard <= promised'
  BY <1>1, <1>4, <1>5, <1>6, <1>7
<1>9. rt' # NoRuntime
  BY <1>8, NullAssumption DEF RuntimeFits
<1>10. faults' \in 0 .. MaxFaults
  BY <1>3, JobAssumption DEF FilesFit
<1>11. seal' \in SealType \cup {NoSeal, Damaged} /\ (seal' \in SealType => LogTo(seal'.known, n))
  <2>1. CASE seal' = seal
    BY <2>1 DEF FilesFit
  <2>2. CASE ~s.untrusted /\ seal' = SealOf(s)
    BY <1>1, <2>2, SealFits
  <2> QED BY <1>3, <2>1, <2>2
<1>12. FilesFit(n)'
  BY <1>4, <1>10, <1>11 DEF FilesFit
<1> QED BY <1>4, <1>8, <1>9, <1>12

-----------------------------------------------------------------------------
(* What an attempt begins with. *)

\* The seal, and the heartbeat, as an attempt reads them.
Kept ==
  IF seal \in SealType THEN seal
  ELSE [known |-> << >>, constrained |-> FALSE, stopped |-> FALSE, cancel |-> FALSE,
        level |-> Healthy]

Shown ==
  IF beat \in BeatType THEN beat
  ELSE [gen |-> 0, cancel |-> FALSE, untrusted |-> FALSE, decision |-> Decision(Healthy, Healthy)]

LEMMA DecisionFacts ==
  ASSUME NEW from \in Levels, NEW to \in Levels
  PROVE  /\ Decision(from, to) \in DecisionType
         /\ Decision(from, to).level = to
         /\ Decision(from, to).enforced <=> (Enforce /\ from # to)
BY DEF Decision, DecisionType

LEMMA KeptFacts ==
  /\ Kept \in SealType /\ Shown \in BeatType
  /\ Kept.known \in Seq(CommandType) /\ Kept.constrained \in BOOLEAN /\ Kept.stopped \in BOOLEAN
  /\ Kept.cancel \in BOOLEAN /\ Kept.level \in Levels
  /\ Shown.gen \in Nat /\ Shown.cancel \in BOOLEAN /\ Shown.untrusted \in BOOLEAN
  /\ Shown.decision \in DecisionType /\ Shown.decision.level \in Levels
  /\ Shown.decision.enforced \in BOOLEAN
<1>1. Healthy \in Levels
  BY DEF Healthy, Levels, Stopped
<1>2. Kept \in SealType
  BY <1>1, NoLogFacts DEF Kept, SealType
<1>3. Decision(Healthy, Healthy) \in DecisionType
  BY <1>1, DecisionFacts
<1>4. Shown \in BeatType
  BY <1>3 DEF Shown, BeatType
<1> QED BY <1>2, <1>4 DEF SealType, BeatType, DecisionType

LEMMA FreshFacts ==
  ASSUME now \in Nat
  PROVE  /\ Fresh \in RuntimeType
         /\ Fresh.gen = 0 /\ Fresh.sealed = 0 /\ Fresh.known = << >> /\ Fresh.cancel = FALSE
         /\ Fresh.untrusted = FALSE /\ Fresh.level = Healthy /\ Fresh.constrained = FALSE
         /\ Fresh.stopped = FALSE /\ Fresh.hard = Budget /\ Fresh.soft <= Budget
         /\ Fresh.decision = Decision(Healthy, Healthy)
<1>1. Healthy \in Levels
  BY DEF Healthy, Levels, Stopped
<1>2. Decision(Healthy, Healthy) \in DecisionType
  BY <1>1, DecisionFacts
<1>3. Budget \in Nat /\ AtMost(now + Checkpoint, Budget) \in Nat
      /\ AtMost(now + Checkpoint, Budget) <= Budget
  BY JobAssumption DEF AtMost
<1>4. << >> \in Seq(CommandType)
  BY NoLogFacts
<1> QED BY <1>1, <1>2, <1>3, <1>4 DEF Fresh, RuntimeType

LEMMA FromSealFacts ==
  ASSUME now \in Nat, seal \in SealType \cup {NoSeal, Damaged}
  PROVE  LET a == FromSeal(Fresh) IN
         /\ a \in RuntimeType /\ a.gen = 0 /\ a.sealed = Len(Kept.known) /\ a.known = Kept.known
         /\ a.hard = Budget /\ a.soft <= Budget /\ a.decision = Decision(Healthy, Healthy)
         /\ a.untrusted <=> seal = Damaged
         /\ a.cancel = Kept.cancel /\ a.constrained = Kept.constrained
         /\ a.stopped = Kept.stopped /\ a.level = Kept.level
<1>0. NoSeal \notin SealType /\ Damaged \notin SealType /\ Damaged # NoSeal
  BY NullAssumption
<1>1. CASE seal = NoSeal
  <2>1. FromSeal(Fresh) = Fresh
    BY <1>1 DEF FromSeal
  <2>2. Kept.known = << >> /\ Kept.cancel = FALSE /\ Kept.constrained = FALSE
        /\ Kept.stopped = FALSE /\ Kept.level = Healthy
    BY <1>0, <1>1 DEF Kept
  <2> QED BY <1>0, <1>1, <2>1, <2>2, FreshFacts, NoLogFacts
<1>2. CASE seal = Damaged
  <2> DEFINE a == [Fresh EXCEPT !.untrusted = TRUE]
  <2>1. FromSeal(Fresh) = a
    BY <1>0, <1>2 DEF FromSeal
  <2>2. Kept.known = << >> /\ Kept.cancel = FALSE /\ Kept.constrained = FALSE
        /\ Kept.stopped = FALSE /\ Kept.level = Healthy
    BY <1>0, <1>2 DEF Kept
  <2>3. a \in RuntimeType /\ a.untrusted = TRUE /\ a.gen = Fresh.gen /\ a.sealed = Fresh.sealed
        /\ a.known = Fresh.known /\ a.hard = Fresh.hard /\ a.soft = Fresh.soft
        /\ a.decision = Fresh.decision /\ a.cancel = Fresh.cancel
        /\ a.constrained = Fresh.constrained /\ a.stopped = Fresh.stopped /\ a.level = Fresh.level
    <3> HIDE DEF Fresh
    <3> QED BY FreshFacts DEF RuntimeType
  <2> HIDE DEF a
  <2> QED BY <1>2, <2>1, <2>2, <2>3, FreshFacts, NoLogFacts
<1>3. CASE seal \in SealType
  <2> DEFINE a == [Fresh EXCEPT !.sealed = Len(seal.known), !.known = seal.known,
                   !.constrained = seal.constrained, !.stopped = seal.stopped,
                   !.cancel = seal.cancel, !.level = seal.level]
  <2>1. FromSeal(Fresh) = a
    BY <1>0, <1>3 DEF FromSeal
  <2>2. Kept = seal
    BY <1>3 DEF Kept
  <2>3. seal.known \in Seq(CommandType) /\ Len(seal.known) \in Nat /\ seal.constrained \in BOOLEAN
        /\ seal.stopped \in BOOLEAN /\ seal.cancel \in BOOLEAN /\ seal.level \in Levels
    BY <2>2, KeptFacts, LogFacts
  <2>4. a \in RuntimeType
    <3> HIDE DEF Fresh
    <3> QED BY <2>3, FreshFacts DEF RuntimeType
  <2>5. a.untrusted = Fresh.untrusted /\ a.gen = Fresh.gen /\ a.sealed = Len(seal.known)
        /\ a.known = seal.known /\ a.hard = Fresh.hard /\ a.soft = Fresh.soft
        /\ a.decision = Fresh.decision
    <3> HIDE DEF Fresh
    <3> QED BY FreshFacts DEF RuntimeType
  <2>6. a.cancel = seal.cancel /\ a.constrained = seal.constrained
        /\ a.stopped = seal.stopped /\ a.level = seal.level
    <3> HIDE DEF Fresh
    <3> QED BY FreshFacts DEF RuntimeType
  <2> HIDE DEF a
  <2> QED BY <1>0, <1>3, <2>1, <2>2, <2>4, <2>5, <2>6, FreshFacts
<1> QED BY <1>1, <1>2, <1>3

LEMMA FromBeatFacts ==
  ASSUME beat \in BeatType \cup {NoBeat, Damaged}, NEW a \in RuntimeType
  PROVE  LET b == FromBeat(a) IN
         /\ b \in RuntimeType /\ b.gen = a.gen /\ b.known = a.known
         /\ b.hard = a.hard /\ b.soft = a.soft /\ b.decision = a.decision
         /\ b.sealed = IF Shown.gen > a.sealed THEN Shown.gen ELSE a.sealed
         /\ b.untrusted <=> (a.untrusted \/ beat = Damaged \/ Shown.untrusted)
         /\ b.cancel <=> (a.cancel \/ Shown.cancel)
         /\ b.constrained <=> (a.constrained
              \/ (Shown.decision.enforced /\ Shown.decision.level = Constrained))
         /\ b.stopped <=> (a.stopped
              \/ (Shown.decision.enforced /\ Shown.decision.level = Stopped))
         /\ b.level = IF Shown.decision.enforced /\ Shown.decision.level > a.level
                        THEN Shown.decision.level ELSE a.level
<1>0. NoBeat \notin BeatType /\ Damaged \notin BeatType /\ Damaged # NoBeat
  BY NullAssumption
<1>00. /\ a.sealed \in Nat /\ a.level \in Levels /\ a.untrusted \in BOOLEAN /\ a.cancel \in BOOLEAN
       /\ a.constrained \in BOOLEAN /\ a.stopped \in BOOLEAN
  BY DEF RuntimeType
<1>1. CASE beat \in {NoBeat, Damaged}
  <2>1. Shown.gen = 0 /\ Shown.cancel = FALSE /\ Shown.untrusted = FALSE
        /\ Shown.decision.enforced = FALSE
    BY <1>0, <1>1 DEF Shown, Decision
  <2>2. CASE beat = NoBeat
    <3>1. FromBeat(a) = a
      BY <2>2 DEF FromBeat
    <3> QED BY <1>0, <1>00, <2>1, <2>2, <3>1
  <2>3. CASE beat = Damaged
    <3> DEFINE b == [a EXCEPT !.untrusted = TRUE]
    <3>1. FromBeat(a) = b
      BY <1>0, <2>3 DEF FromBeat
    <3>2. b \in RuntimeType /\ b.untrusted = TRUE /\ b.gen = a.gen /\ b.sealed = a.sealed
          /\ b.known = a.known /\ b.hard = a.hard /\ b.soft = a.soft
          /\ b.decision = a.decision /\ b.cancel = a.cancel
          /\ b.constrained = a.constrained /\ b.stopped = a.stopped /\ b.level = a.level
      BY DEF RuntimeType
    <3> HIDE DEF b
    <3> QED BY <1>00, <2>1, <2>3, <3>1, <3>2
  <2> QED BY <1>1, <2>2, <2>3
<1>2. CASE beat \in BeatType
  <2> DEFINE d == beat.decision
             h == IF beat.gen > a.sealed THEN beat.gen ELSE a.sealed
             x == a.cancel \/ beat.cancel
             u == a.untrusted \/ beat.untrusted
             k == a.constrained \/ (d.enforced /\ d.level = Constrained)
             t == a.stopped \/ (d.enforced /\ d.level = Stopped)
             v == IF d.enforced /\ d.level > a.level THEN d.level ELSE a.level
             b == [a EXCEPT !.sealed = h, !.cancel = x, !.untrusted = u, !.constrained = k,
                            !.stopped = t, !.level = v]
  <2>0. Shown = beat
    BY <1>2 DEF Shown
  <2>1. h \in Nat /\ x \in BOOLEAN /\ u \in BOOLEAN /\ k \in BOOLEAN /\ t \in BOOLEAN /\ v \in Levels
    BY <1>00, <2>0, KeptFacts
  <2>2. FromBeat(a) = b
    <3>1. beat # NoBeat /\ beat # Damaged
      BY <1>0, <1>2
    <3>2. FromBeat(a) = [a EXCEPT !.sealed = IF beat.gen > @ THEN beat.gen ELSE @,
                       !.cancel = @ \/ beat.cancel,
                       !.untrusted = @ \/ beat.untrusted,
                       !.constrained = @ \/ (d.enforced /\ d.level = Constrained),
                       !.stopped = @ \/ (d.enforced /\ d.level = Stopped),
                       !.level = IF d.enforced /\ d.level > @ THEN d.level ELSE @]
      BY <3>1 DEF FromBeat
    <3>3. DOMAIN a = {"gen", "sealed", "known", "cancel", "untrusted", "level", "constrained",
                      "stopped", "handoff", "attention", "hard", "soft", "decision"}
      BY DEF RuntimeType
    <3> QED BY <3>2
  <2> HIDE DEF h, x, u, k, t, v
  <2>3. b \in RuntimeType
    BY <2>1 DEF RuntimeType
  <2>4. b.gen = a.gen /\ b.known = a.known /\ b.hard = a.hard /\ b.soft = a.soft
        /\ b.decision = a.decision /\ b.sealed = h /\ b.level = v
    BY DEF RuntimeType
  <2>5. b.untrusted = u /\ b.cancel = x /\ b.constrained = k /\ b.stopped = t
    BY DEF RuntimeType
  <2> HIDE DEF b
  <2>6. b.sealed = (IF Shown.gen > a.sealed THEN Shown.gen ELSE a.sealed)
        /\ b.level = IF Shown.decision.enforced /\ Shown.decision.level > a.level
                        THEN Shown.decision.level ELSE a.level
    BY <2>0, <2>4 DEF h, v
  <2>7. /\ b.untrusted <=> (a.untrusted \/ beat = Damaged \/ Shown.untrusted)
        /\ b.cancel <=> (a.cancel \/ Shown.cancel)
    BY <1>0, <1>2, <2>0, <2>5 DEF u, x
  <2>8. /\ b.constrained <=> (a.constrained
              \/ (Shown.decision.enforced /\ Shown.decision.level = Constrained))
        /\ b.stopped <=> (a.stopped
              \/ (Shown.decision.enforced /\ Shown.decision.level = Stopped))
    BY <2>0, <2>5 DEF k, t
  <2> QED BY <2>2, <2>3, <2>4, <2>6, <2>7, <2>8
<1> QED BY <1>1, <1>2

LEMMA SalvagedFacts ==
  ASSUME log \in Seq(CommandType), NEW b \in RuntimeType, b.gen = 0
  PROVE  LET s == Salvaged(b)
             intact == b.untrusted /\ ValidCommands(log) IN
         /\ s \in RuntimeType /\ s.known = b.known /\ s.sealed = b.sealed
         /\ s.hard = b.hard /\ s.soft = b.soft /\ s.decision = b.decision
         /\ s.untrusted = b.untrusted
         /\ s.gen \in {0, Len(log)} /\ (~intact => s.gen = 0 /\ s.level = b.level)
         /\ s.cancel <=> (b.cancel \/ (intact /\ Has(log, "cancel")))
         /\ s.constrained <=> (b.constrained \/ (intact /\ Contained(log)))
         /\ s.stopped <=> (b.stopped \/ (intact /\ StopAsked(log)))
<1>0. /\ b.sealed \in Nat /\ b.level \in Levels /\ b.untrusted \in BOOLEAN /\ b.cancel \in BOOLEAN
      /\ b.constrained \in BOOLEAN /\ b.stopped \in BOOLEAN /\ b.handoff \in BOOLEAN
      /\ Len(log) \in Nat /\ LogLevel(log) \in Levels
  BY LogFacts, LevelFacts DEF RuntimeType, LogLevel
<1>1. CASE ~b.untrusted \/ ~ValidCommands(log)
  <2>1. Salvaged(b) = b
    BY <1>1 DEF Salvaged
  <2> QED BY <1>0, <1>1, <2>1
<1>2. CASE b.untrusted /\ ValidCommands(log) /\ log = NoLog
  <2>1. Salvaged(b) = b
    BY <1>2 DEF Salvaged
  <2>2. log = << >> /\ ~Has(log, "cancel")
    BY <1>2, NoLogFacts DEF NoLog
  <2>3. ~Contained(log) /\ ~StopAsked(log)
    BY <2>2, NoLogFacts DEF Contained, StopAsked
  <2> QED BY <1>0, <1>2, <2>1, <2>2, <2>3
<1>3. CASE b.untrusted /\ ValidCommands(log) /\ log # NoLog
  <2> DEFINE g == IF Len(log) > b.gen THEN Len(log) ELSE b.gen
             x == b.cancel \/ Has(log, "cancel")
             h == b.handoff \/ Has(log, "handoff")
             k == b.constrained \/ Contained(log)
             t == b.stopped \/ StopAsked(log)
             v == IF Len(log) >= b.sealed \/ LogLevel(log) > b.level
                    THEN LogLevel(log) ELSE b.level
             s == [b EXCEPT !.gen = g, !.cancel = x, !.handoff = h, !.constrained = k,
                            !.stopped = t, !.level = v]
  <2>1. g \in Nat /\ x \in BOOLEAN /\ h \in BOOLEAN /\ k \in BOOLEAN /\ t \in BOOLEAN /\ v \in Levels
        /\ g \in {0, Len(log)}
    BY <1>0
  <2>2. Salvaged(b) = s
    <3>1. Salvaged(b) =
            [b EXCEPT !.gen = IF Len(log) > @ THEN Len(log) ELSE @,
                   !.cancel = @ \/ Has(log, "cancel"),
                   !.handoff = @ \/ Has(log, "handoff"),
                   !.constrained = @ \/ Contained(log),
                   !.stopped = @ \/ StopAsked(log),
                   !.level = IF Len(log) >= b.sealed \/ LogLevel(log) > @
                               THEN LogLevel(log) ELSE @]
      BY <1>3 DEF Salvaged
    <3> QED BY <3>1
  <2> HIDE DEF g, x, h, k, t, v
  <2>3. s \in RuntimeType
    BY <2>1 DEF RuntimeType
  <2>4. s.known = b.known /\ s.sealed = b.sealed /\ s.hard = b.hard /\ s.soft = b.soft
        /\ s.decision = b.decision /\ s.gen = g /\ s.untrusted = b.untrusted
    BY DEF RuntimeType
  <2>5. s.cancel = x /\ s.constrained = k /\ s.stopped = t
    BY DEF RuntimeType
  <2> HIDE DEF s
  <2>6. /\ s.cancel <=> (b.cancel \/ Has(log, "cancel"))
        /\ s.constrained <=> (b.constrained \/ Contained(log))
        /\ s.stopped <=> (b.stopped \/ StopAsked(log))
    BY <2>5 DEF x, k, t
  <2> QED BY <1>3, <2>1, <2>2, <2>3, <2>4, <2>6
<1> QED BY <1>1, <1>2, <1>3

LEMMA LoadedFacts ==
  ASSUME now \in Nat, seal \in SealType \cup {NoSeal, Damaged},
         beat \in BeatType \cup {NoBeat, Damaged}, log \in Seq(CommandType)
  PROVE  LET intact == Loaded.untrusted /\ ValidCommands(log)
             d == Shown.decision IN
         /\ Loaded \in RuntimeType /\ Loaded.known = Kept.known
         /\ Loaded.hard = Budget /\ Loaded.soft <= Budget /\ ~Loaded.decision.enforced
         /\ Loaded.untrusted <=> (seal = Damaged \/ beat = Damaged \/ Shown.untrusted)
         /\ Loaded.gen \in {0, Len(log)} /\ (~Loaded.untrusted => Loaded.gen = 0)
         /\ Loaded.sealed = IF Shown.gen > Len(Kept.known) THEN Shown.gen ELSE Len(Kept.known)
         /\ Loaded.cancel <=> (Kept.cancel \/ Shown.cancel \/ (intact /\ Has(log, "cancel")))
         /\ Loaded.constrained <=> (Kept.constrained \/ (d.enforced /\ d.level = Constrained)
                                    \/ (intact /\ Contained(log)))
         /\ Loaded.stopped <=> (Kept.stopped \/ (d.enforced /\ d.level = Stopped)
                                \/ (intact /\ StopAsked(log)))
         /\ ~Loaded.untrusted => Loaded.level = IF d.enforced /\ d.level > Kept.level
                                                   THEN d.level ELSE Kept.level
<1> DEFINE a == FromSeal(Fresh)
           b == FromBeat(a)
<1>1. /\ a \in RuntimeType /\ a.gen = 0 /\ a.sealed = Len(Kept.known) /\ a.known = Kept.known
      /\ a.hard = Budget /\ a.soft <= Budget /\ a.decision = Decision(Healthy, Healthy)
      /\ a.untrusted <=> seal = Damaged
      /\ a.cancel = Kept.cancel /\ a.constrained = Kept.constrained
      /\ a.stopped = Kept.stopped /\ a.level = Kept.level
  BY FromSealFacts
<1> HIDE DEF a
<1>2. /\ b \in RuntimeType /\ b.gen = a.gen /\ b.known = a.known
      /\ b.hard = a.hard /\ b.soft = a.soft /\ b.decision = a.decision
      /\ b.sealed = IF Shown.gen > a.sealed THEN Shown.gen ELSE a.sealed
      /\ b.untrusted <=> (a.untrusted \/ beat = Damaged \/ Shown.untrusted)
      /\ b.cancel <=> (a.cancel \/ Shown.cancel)
      /\ b.constrained <=> (a.constrained
           \/ (Shown.decision.enforced /\ Shown.decision.level = Constrained))
      /\ b.stopped <=> (a.stopped
           \/ (Shown.decision.enforced /\ Shown.decision.level = Stopped))
      /\ b.level = IF Shown.decision.enforced /\ Shown.decision.level > a.level
                     THEN Shown.decision.level ELSE a.level
  BY <1>1, FromBeatFacts
<1> HIDE DEF b
<1> DEFINE s == Salvaged(b)
<1>3. /\ s \in RuntimeType /\ s.known = b.known /\ s.sealed = b.sealed
      /\ s.hard = b.hard /\ s.soft = b.soft /\ s.decision = b.decision
      /\ s.untrusted = b.untrusted
      /\ s.gen \in {0, Len(log)}
      /\ (~(b.untrusted /\ ValidCommands(log)) => s.gen = 0 /\ s.level = b.level)
      /\ s.cancel <=> (b.cancel \/ (b.untrusted /\ ValidCommands(log) /\ Has(log, "cancel")))
      /\ s.constrained <=> (b.constrained \/ (b.untrusted /\ ValidCommands(log) /\ Contained(log)))
      /\ s.stopped <=> (b.stopped \/ (b.untrusted /\ ValidCommands(log) /\ StopAsked(log)))
  BY <1>1, <1>2, SalvagedFacts
<1>4. Loaded = s
  BY DEF Loaded, a, b
<1> HIDE DEF s
<1>5. ~Decision(Healthy, Healthy).enforced
  BY DEF Decision
<1>6. Loaded.cancel <=> (Kept.cancel \/ Shown.cancel
        \/ (Loaded.untrusted /\ ValidCommands(log) /\ Has(log, "cancel")))
  BY <1>1, <1>2, <1>3, <1>4
<1>7. Loaded.constrained <=> (Kept.constrained
        \/ (Shown.decision.enforced /\ Shown.decision.level = Constrained)
        \/ (Loaded.untrusted /\ ValidCommands(log) /\ Contained(log)))
  BY <1>1, <1>2, <1>3, <1>4
<1>8. Loaded.stopped <=> (Kept.stopped
        \/ (Shown.decision.enforced /\ Shown.decision.level = Stopped)
        \/ (Loaded.untrusted /\ ValidCommands(log) /\ StopAsked(log)))
  BY <1>1, <1>2, <1>3, <1>4
<1>9. Loaded.untrusted <=> (seal = Damaged \/ beat = Damaged \/ Shown.untrusted)
  BY <1>1, <1>2, <1>3, <1>4
<1>10. /\ Loaded \in RuntimeType /\ Loaded.known = Kept.known
       /\ Loaded.hard = Budget /\ Loaded.soft <= Budget /\ ~Loaded.decision.enforced
       /\ Loaded.gen \in {0, Len(log)} /\ (~Loaded.untrusted => Loaded.gen = 0)
       /\ Loaded.sealed = IF Shown.gen > Len(Kept.known) THEN Shown.gen ELSE Len(Kept.known)
  BY <1>1, <1>2, <1>3, <1>4, <1>5
<1>11. ~Loaded.untrusted => Loaded.level = IF Shown.decision.enforced
                                              /\ Shown.decision.level > Kept.level
                                             THEN Shown.decision.level ELSE Kept.level
  BY <1>1, <1>2, <1>3, <1>4
<1> HIDE DEF Loaded
<1> QED BY <1>6, <1>7, <1>8, <1>9, <1>10, <1>11

-----------------------------------------------------------------------------
(* The small changes of a runtime control. *)

\* Runtime controls that know the same and go by the same hard deadline.
Alike(r, s) ==
  /\ s.gen = r.gen /\ s.sealed = r.sealed /\ s.known = r.known /\ s.untrusted = r.untrusted
  /\ s.hard = r.hard /\ s.level = r.level
  /\ s.cancel = r.cancel /\ s.constrained = r.constrained /\ s.stopped = r.stopped

LEMMA AlikeFits ==
  ASSUME NEW n, NEW r, NEW s \in RuntimeType, RuntimeFits(r, n), Alike(r, s), s.soft <= s.hard
  PROVE  RuntimeFits(s, n)
BY DEF RuntimeFits, Alike

\* RuntimeControl.checkpoint moves the soft deadline alone, never beyond the hard one.
LEMMA CheckedFacts ==
  ASSUME now \in Nat, NEW r \in RuntimeType, r.soft <= r.hard, NEW active \in BOOLEAN
  PROVE  LET s == Checked(r, active) IN
         s \in RuntimeType /\ Alike(r, s) /\ s.decision = r.decision /\ s.soft <= s.hard
<1> DEFINE left == IF r.hard > r.soft THEN r.hard - r.soft ELSE 0
<1>0. /\ r.soft \in Nat /\ r.hard \in Nat /\ r.attention \in BOOLEAN /\ r.handoff \in BOOLEAN
      /\ Checkpoint \in Nat /\ Grace \in Nat
  BY JobAssumption DEF RuntimeType
<1>1. left \in Nat /\ r.soft + left <= r.hard
  BY <1>0
<1>2. Checked(r, active) =
        IF ~Due(r) \/ left = 0 THEN r
        ELSE IF active
          THEN [r EXCEPT !.soft = @ + AtMost(Checkpoint, left), !.attention = @ /\ r.handoff]
        ELSE IF r.attention THEN r
        ELSE [r EXCEPT !.soft = @ + AtMost(Grace, left), !.attention = TRUE]
  BY DEF Checked
<1> HIDE DEF left
<1>3. ASSUME NEW x \in Nat, x <= left, NEW b \in BOOLEAN
      PROVE  LET s == [r EXCEPT !.soft = r.soft + x, !.attention = b] IN
             s \in RuntimeType /\ Alike(r, s) /\ s.decision = r.decision /\ s.soft <= s.hard
  <2> DEFINE s == [r EXCEPT !.soft = r.soft + x, !.attention = b]
  <2>1. r.soft + x \in Nat /\ r.soft + x <= r.hard
    BY <1>0, <1>1, <1>3
  <2>2. s \in RuntimeType
    BY <2>1, <1>3 DEF RuntimeType
  <2>3. s.soft = r.soft + x /\ s.hard = r.hard /\ s.decision = r.decision
    BY DEF RuntimeType
  <2>4. s.gen = r.gen /\ s.sealed = r.sealed /\ s.known = r.known /\ s.untrusted = r.untrusted
        /\ s.level = r.level
    BY DEF RuntimeType
  <2>5. s.cancel = r.cancel /\ s.constrained = r.constrained /\ s.stopped = r.stopped
    BY DEF RuntimeType
  <2> HIDE DEF s
  <2>6. Alike(r, s) /\ s.soft <= s.hard
    BY <2>1, <2>3, <2>4, <2>5 DEF Alike
  <2> QED BY <2>2, <2>3, <2>6 DEF s
<1>4. Alike(r, r)
  BY DEF Alike
<1>5. CASE ~Due(r) \/ left = 0 \/ (~active /\ r.attention)
  <2>1. Checked(r, active) = r
    BY <1>2, <1>5
  <2> QED BY <1>4, <2>1
<1>6. CASE Due(r) /\ left # 0 /\ active
  <2> DEFINE x == AtMost(Checkpoint, left)
             b == r.attention /\ r.handoff
  <2>1. x \in Nat /\ x <= left /\ b \in BOOLEAN
    BY <1>0, <1>1 DEF AtMost
  <2>2. Checked(r, active) = [r EXCEPT !.soft = @ + x, !.attention = @ /\ r.handoff]
    BY <1>2, <1>6
  <2>3. Checked(r, active) = [r EXCEPT !.soft = r.soft + x, !.attention = b]
    BY <2>2
  <2> HIDE DEF x, b
  <2> DEFINE s == [r EXCEPT !.soft = r.soft + x, !.attention = b]
  <2>4. s \in RuntimeType /\ Alike(r, s) /\ s.decision = r.decision /\ s.soft <= s.hard
    BY <1>3, <2>1
  <2> HIDE DEF s
  <2> QED BY <2>3, <2>4 DEF s
<1>7. CASE Due(r) /\ left # 0 /\ ~active /\ ~r.attention
  <2> DEFINE x == AtMost(Grace, left)
  <2>1. x \in Nat /\ x <= left
    BY <1>0, <1>1 DEF AtMost
  <2>2. Checked(r, active) = [r EXCEPT !.soft = @ + x, !.attention = TRUE]
    BY <1>2, <1>7
  <2>3. Checked(r, active) = [r EXCEPT !.soft = r.soft + x, !.attention = TRUE]
    BY <2>2
  <2> HIDE DEF x
  <2> DEFINE s == [r EXCEPT !.soft = r.soft + x, !.attention = TRUE]
  <2>4. s \in RuntimeType /\ Alike(r, s) /\ s.decision = r.decision /\ s.soft <= s.hard
    BY <1>3, <2>1
  <2> HIDE DEF s
  <2> QED BY <2>3, <2>4 DEF s
<1> QED BY <1>5, <1>6, <1>7

LEMMA DecidedFacts ==
  ASSUME NEW r \in RuntimeType, NEW d \in DecisionType
  PROVE  LET s == [r EXCEPT !.decision = d] IN
         s \in RuntimeType /\ Alike(r, s) /\ s.decision = d /\ s.soft = r.soft
<1> DEFINE s == [r EXCEPT !.decision = d]
<1>1. s \in RuntimeType /\ s.decision = d /\ s.soft = r.soft
  BY DEF RuntimeType
<1>2. s.gen = r.gen /\ s.sealed = r.sealed /\ s.known = r.known /\ s.untrusted = r.untrusted
      /\ s.hard = r.hard /\ s.level = r.level
  BY DEF RuntimeType
<1>3. s.cancel = r.cancel /\ s.constrained = r.constrained /\ s.stopped = r.stopped
  BY DEF RuntimeType
<1> HIDE DEF s
<1>4. Alike(r, s)
  BY <1>2, <1>3 DEF Alike
<1> QED BY <1>1, <1>4 DEF s

\* Neither the request for attention nor the handoff directive changes more.
LEMMA SteeredFacts ==
  ASSUME NEW r \in RuntimeType
  PROVE  /\ LET s == Steered(r) IN
            /\ s \in RuntimeType /\ Alike(r, s) /\ s.soft = r.soft
            /\ s.decision.level = r.decision.level /\ s.decision.enforced = r.decision.enforced
         /\ LET s == [Steered(r) EXCEPT !.handoff = TRUE, !.attention = TRUE] IN
            /\ s \in RuntimeType /\ Alike(r, s) /\ s.soft = r.soft
            /\ s.decision.level = r.decision.level /\ s.decision.enforced = r.decision.enforced
<1> DEFINE b == r.attention \/ r.decision.steer
           d == [r.decision EXCEPT !.steer = FALSE]
           s == [r EXCEPT !.attention = b, !.decision = d]
           t == [s EXCEPT !.handoff = TRUE, !.attention = TRUE]
<1>1. b \in BOOLEAN /\ r.decision \in DecisionType
  BY DEF RuntimeType, DecisionType
<1>2. d \in DecisionType /\ d.level = r.decision.level /\ d.enforced = r.decision.enforced
  BY <1>1 DEF DecisionType
<1>3. Steered(r) = s
  BY DEF Steered, RuntimeType
<1> HIDE DEF b, d
<1>4. s \in RuntimeType /\ s.soft = r.soft /\ s.decision = d
  BY <1>1, <1>2 DEF RuntimeType
<1>5. s.gen = r.gen /\ s.sealed = r.sealed /\ s.known = r.known /\ s.untrusted = r.untrusted
      /\ s.hard = r.hard /\ s.level = r.level
  BY DEF RuntimeType
<1>6. s.cancel = r.cancel /\ s.constrained = r.constrained /\ s.stopped = r.stopped
  BY DEF RuntimeType
<1> HIDE DEF s
<1>7. t \in RuntimeType /\ t.soft = s.soft /\ t.decision = s.decision
  BY <1>4 DEF RuntimeType
<1>8. t.gen = s.gen /\ t.sealed = s.sealed /\ t.known = s.known /\ t.untrusted = s.untrusted
      /\ t.hard = s.hard /\ t.level = s.level
  BY <1>4 DEF RuntimeType
<1>9. t.cancel = s.cancel /\ t.constrained = s.constrained /\ t.stopped = s.stopped
  BY <1>4 DEF RuntimeType
<1>10. [Steered(r) EXCEPT !.handoff = TRUE, !.attention = TRUE] = t
  BY <1>3
<1> HIDE DEF t
<1>11. Alike(r, s) /\ Alike(r, t)
  BY <1>5, <1>6, <1>8, <1>9 DEF Alike
<1>12. Steered(r) \in RuntimeType /\ Alike(r, Steered(r)) /\ Steered(r).soft = r.soft
       /\ Steered(r).decision.level = r.decision.level
       /\ Steered(r).decision.enforced = r.decision.enforced
  BY <1>2, <1>3, <1>4, <1>11
<1>13. t \in RuntimeType /\ Alike(r, t) /\ t.soft = r.soft
       /\ t.decision.level = r.decision.level /\ t.decision.enforced = r.decision.enforced
  BY <1>2, <1>4, <1>7, <1>11
<1> QED BY <1>10, <1>12, <1>13

\* What record_breaker keeps in memory.
LEMMA RememberedFacts ==
  ASSUME NEW r \in RuntimeType, NEW from \in Levels, NEW to \in Levels
  PROVE  LET s == Remembered(r, from, to)
             e == Enforce /\ from # to IN
         /\ s \in RuntimeType /\ s.soft = r.soft /\ s.decision = Decision(from, to)
         /\ s.gen = r.gen /\ s.sealed = r.sealed /\ s.known = r.known
         /\ s.untrusted = r.untrusted /\ s.hard = r.hard /\ s.level = to /\ s.cancel = r.cancel
         /\ s.constrained <=> IF ~e THEN r.constrained
                              ELSE (to = Constrained \/ (r.constrained /\ to # Healthy))
         /\ s.stopped <=> (r.stopped \/ (e /\ to = Stopped))
<1> DEFINE e == Enforce /\ from # to
           k == IF ~e THEN r.constrained
                ELSE (to = Constrained \/ (r.constrained /\ to # Healthy))
           t == r.stopped \/ (e /\ to = Stopped)
           d == Decision(from, to)
           s == [r EXCEPT !.decision = d, !.level = to, !.constrained = k, !.stopped = t]
<1>1. k \in BOOLEAN /\ t \in BOOLEAN /\ d \in DecisionType
  BY DecisionFacts DEF RuntimeType
<1>2. Remembered(r, from, to) = s
  BY DEF Remembered, RuntimeType
<1> HIDE DEF k, t, d
<1>3. s \in RuntimeType
  BY <1>1 DEF RuntimeType
<1>4. s.soft = r.soft /\ s.decision = d /\ s.gen = r.gen /\ s.sealed = r.sealed
      /\ s.known = r.known /\ s.untrusted = r.untrusted /\ s.hard = r.hard
      /\ s.level = to
  BY DEF RuntimeType
<1>5. s.cancel = r.cancel /\ s.constrained = k /\ s.stopped = t
  BY DEF RuntimeType
<1> HIDE DEF s
<1>6. s.constrained <=> IF ~e THEN r.constrained
                        ELSE (to = Constrained \/ (r.constrained /\ to # Healthy))
  BY <1>5 DEF k
<1>7. s.stopped <=> (r.stopped \/ (e /\ to = Stopped))
  BY <1>5 DEF t
<1>8. s.decision = Decision(from, to)
  BY <1>4 DEF d
<1> QED BY <1>2, <1>3, <1>4, <1>5, <1>6, <1>7, <1>8

-----------------------------------------------------------------------------
(* The types of the state. *)

Between == {"ready", "launched", "repair", "over"}

Places == Between \cup {"polling", "acting", "handing", "deciding", "closed", "closing"}

RuntimeIn ==
  /\ (rt = NoRuntime) <=> (pc \in Between)
  /\ rt # NoRuntime => RuntimeFits(rt, made) /\ rt.hard <= promised

AttemptsIn ==
  /\ attempt \in Nat /\ repaired \in BOOLEAN
  /\ attempt <= Retries + (IF pc = "ready" THEN 0 ELSE 1) + (IF repaired THEN 1 ELSE 0)

RestIn ==
  /\ beat \in BeatType \cup {NoBeat, Damaged}
  /\ now \in 0 .. Horizon
  /\ provider \in {"none", "running", "reported"}
  /\ breaker \in Levels
  /\ seen \subseteq {"cancel", "containment"}

JobTypes ==
  /\ made \in Nat /\ LogTo(log, made) /\ FilesFit(made)
  /\ pc \in Places
  /\ RuntimeIn /\ AttemptsIn /\ RestIn

LEMMA JobTypesOK ==
  ASSUME JobTypes
  PROVE  TypeOK
<1>1. IsLog(log) /\ (seal \in SealType => IsLog(seal.known))
  BY DEF JobTypes, FilesFit, LogTo, IsLog
<1>2. rt \in RuntimeType \cup {NoRuntime}
  BY DEF JobTypes, RuntimeIn, RuntimeFits
<1>3. rt # NoRuntime => /\ IsLog(rt.known) /\ rt.gen <= MaxCommands
                        /\ rt.soft <= rt.hard /\ rt.hard <= MaxExtension
  BY DEF JobTypes, RuntimeIn, RuntimeFits, LogTo, IsLog
<1>4. attempt \in 0 .. Retries + 2
  BY JobAssumption DEF JobTypes, AttemptsIn
<1> QED BY <1>1, <1>2, <1>3, <1>4
  DEF TypeOK, JobTypes, FilesFit, RuntimeIn, AttemptsIn, RestIn, Places, Between

\* The end of an attempt.
LEMMA EndTypes ==
  ASSUME JobTypes, NEW how \in {"contained", "cancelled", "timeout", "error", "success"},
         EndAttempt(how),
         UNCHANGED <<log, seal, now, attempt, repaired, breaker, made, faults, promised>>,
         beat' \in BeatType \cup {NoBeat, Damaged}, pc # "ready"
  PROVE  JobTypes'
<1>1. pc' \in {"over", "repair", "ready"} /\ (pc' = "ready" => attempt <= Retries)
  BY DEF EndAttempt
<1>2. AttemptsIn'
  BY <1>1, JobAssumption DEF JobTypes, AttemptsIn
<1>3. RuntimeIn'
  BY <1>1 DEF EndAttempt, RuntimeIn, Between
<1>4. RestIn'
  BY DEF JobTypes, RestIn, EndAttempt
<1>5. pc' \in Places
  BY <1>1 DEF Places, Between
<1>6. made' \in Nat /\ LogTo(log, made)' /\ FilesFit(made)'
  BY DEF JobTypes, FilesFit
<1> QED BY <1>2, <1>3, <1>4, <1>5, <1>6 DEF JobTypes

\* Steps of an attempt that leave the files and the runtime control alone.
LEMMA CalmTypes ==
  ASSUME JobTypes,
         UNCHANGED <<log, seal, attempt, repaired, rt, breaker, made, faults, promised, seen>>,
         beat' \in BeatType \cup {NoBeat, Damaged}, now' \in 0 .. Horizon,
         provider' \in {"none", "running", "reported"},
         pc' \in Places, pc' = pc \/ (pc \notin Between /\ pc' \notin Between)
  PROVE  JobTypes'
<1>1. AttemptsIn'
  <2>1. pc' = "ready" <=> pc = "ready"
    BY DEF Between
  <2> QED BY <2>1 DEF JobTypes, AttemptsIn
<1>2. RuntimeIn'
  BY DEF JobTypes, RuntimeIn, RuntimeFits
<1>3. RestIn'
  BY DEF JobTypes, RestIn
<1>4. made' \in Nat /\ LogTo(log, made)' /\ FilesFit(made)'
  BY DEF JobTypes, FilesFit
<1> QED BY <1>1, <1>2, <1>3, <1>4 DEF JobTypes

LEMMA StartTypes == JobTypes /\ Start => JobTypes'
<1> SUFFICES ASSUME JobTypes, Start PROVE JobTypes'
  OBVIOUS
<1>1. /\ UNCHANGED <<log, seal, beat, now, repaired, rt, breaker, made, faults, seen, promised>>
      /\ pc = "ready" /\ pc' \in {"over", "launched"}
      /\ attempt' = attempt \/ attempt' = attempt + 1
      /\ provider' \in {provider, "running"}
  BY DEF Start, files
<1>2. AttemptsIn'
  BY <1>1, JobAssumption DEF JobTypes, AttemptsIn
<1>3. RuntimeIn'
  BY <1>1 DEF JobTypes, RuntimeIn, Between
<1>4. RestIn'
  BY <1>1 DEF JobTypes, RestIn
<1>5. pc' \in Places
  BY <1>1 DEF Places, Between
<1>6. made' \in Nat /\ LogTo(log, made)' /\ FilesFit(made)'
  BY <1>1 DEF JobTypes, FilesFit
<1> QED BY <1>2, <1>3, <1>4, <1>5, <1>6 DEF JobTypes

LEMMA LoadTypes == JobTypes /\ Load => JobTypes'
<1> SUFFICES ASSUME JobTypes, Load PROVE JobTypes'
  OBVIOUS
<1>1. /\ UNCHANGED <<log, seal, beat, now, provider, attempt, repaired, made, faults, seen, promised>>
      /\ pc = "launched" /\ pc' = "polling" /\ rt' = Loaded /\ breaker' = Healthy
  BY DEF Load, files
<1>2. /\ now \in Nat /\ seal \in SealType \cup {NoSeal, Damaged}
      /\ beat \in BeatType \cup {NoBeat, Damaged} /\ log \in Seq(CommandType)
      /\ promised \in Budget .. MaxExtension
  BY JobAssumption DEF JobTypes, FilesFit, RestIn, LogTo
<1>3. /\ Loaded \in RuntimeType /\ Loaded.known = Kept.known
      /\ Loaded.hard = Budget /\ Loaded.soft <= Budget
      /\ Loaded.gen \in {0, Len(log)} /\ (~Loaded.untrusted => Loaded.gen = 0)
  BY <1>2, LoadedFacts
<1>4. LogTo(Kept.known, made)
  <2>1. CASE seal \in SealType
    BY <2>1 DEF Kept, JobTypes, FilesFit
  <2>2. CASE seal \notin SealType
    <3>1. Kept.known = << >>
      BY <2>2 DEF Kept
    <3> QED BY <3>1, NoLogFacts, LogAssumption DEF LogTo
  <2> QED BY <2>1, <2>2
<1>5. Kept.known \in Seq(CommandType) /\ Len(Kept.known) \in Nat
  BY KeptFacts, LogFacts
<1>6. Len(log) \in Nat /\ Len(log) <= MaxCommands /\ MaxCommands \in Nat
      /\ Budget \in Nat /\ MaxExtension \in Nat /\ Budget <= MaxExtension
  BY <1>2, LogFacts, LogAssumption, JobAssumption DEF JobTypes, LogTo
<1>7. RuntimeFits(Loaded, made)
  <2> HIDE DEF Loaded
  <2>1. Loaded.gen <= MaxCommands /\ (~Loaded.untrusted => Loaded.gen <= Len(Loaded.known))
    BY <1>3, <1>5, <1>6
  <2> QED BY <1>3, <1>4, <1>6, <2>1 DEF RuntimeFits
<1>8. Loaded # NoRuntime /\ Loaded.hard <= promised
  BY <1>2, <1>3, <1>6, NullAssumption
<1>9. RuntimeIn'
  BY <1>1, <1>7, <1>8 DEF RuntimeIn, Between
<1>10. AttemptsIn'
  BY <1>1 DEF JobTypes, AttemptsIn
<1>11. RestIn'
  <2>1. Healthy \in Levels
    BY DEF Healthy, Levels, Stopped
  <2> QED BY <1>1, <2>1 DEF JobTypes, RestIn
<1>12. pc' \in Places /\ made' \in Nat /\ LogTo(log, made)' /\ FilesFit(made)'
  BY <1>1 DEF JobTypes, FilesFit, Places
<1> QED BY <1>9, <1>10, <1>11, <1>12 DEF JobTypes

\* A step in which the attempt looks at the log, which may have grown.
LEMMA LookTypes ==
  ASSUME JobTypes, NEW l, NEW r, StoreRefresh(l, r),
         made' \in Nat, made <= made', LogTo(l, made'), RuntimeFits(r, made'), log' = l,
         UNCHANGED <<beat, now, attempt, repaired, provider>>,
         breaker' \in Levels, seen' \subseteq {"cancel", "containment"},
         pc \notin Between, pc' \in Places, pc' \notin Between
  PROVE  JobTypes'
<1>1. made \in Nat /\ FilesFit(made')
  BY LogToMore DEF JobTypes, FilesFit
<1>2. RuntimeFits(rt', made') /\ rt' # NoRuntime /\ rt'.hard <= promised' /\ FilesFit(made)'
  <2>1. ASSUME NEW n \in Nat, n = made'
        PROVE  RuntimeFits(rt', n) /\ rt' # NoRuntime /\ rt'.hard <= promised' /\ FilesFit(n)'
    <3>1. LogTo(l, n) /\ RuntimeFits(r, n) /\ FilesFit(n)
      BY <1>1, <2>1
    <3> QED BY <3>1, StoreFits
  <2> QED BY <2>1 DEF FilesFit
<1>3. RuntimeIn'
  BY <1>2 DEF RuntimeIn
<1>4. AttemptsIn'
  <2>1. pc # "ready" /\ pc' # "ready"
    BY DEF Between
  <2> QED BY <2>1 DEF JobTypes, AttemptsIn
<1>5. RestIn'
  BY DEF JobTypes, RestIn
<1>6. made' \in Nat /\ LogTo(log, made)'
  OBVIOUS
<1> QED BY <1>2, <1>3, <1>4, <1>5, <1>6 DEF JobTypes

LEMMA RefreshTypes == JobTypes /\ Refresh => JobTypes'
<1> SUFFICES ASSUME JobTypes, Refresh PROVE JobTypes'
  OBVIOUS
<1>1. /\ pc \in {"polling", "closed"} /\ pc' \in {"acting", "closing"}
      /\ StoreRefresh(log, rt) /\ breaker' = rt'.level
      /\ UNCHANGED <<log, beat, now, provider, attempt, repaired, made, seen, refused>>
  BY DEF Refresh
<1>2. pc \notin Between /\ pc' \notin Between /\ pc' \in Places
  BY <1>1 DEF Between, Places
<1>3. made \in Nat /\ LogTo(log, made) /\ FilesFit(made) /\ RuntimeFits(rt, made)
  BY <1>2 DEF JobTypes, RuntimeIn
<1>4. rt' \in RuntimeType
  BY <1>1, <1>3, StoreFits DEF RuntimeFits
<1>5. breaker' \in Levels
  BY <1>1, <1>4 DEF RuntimeType
<1>6. seen' \subseteq {"cancel", "containment"} /\ made <= made'
  BY <1>1, <1>3 DEF JobTypes, RestIn
<1> QED BY <1>1, <1>2, <1>3, <1>5, <1>6, LookTypes

\* GraduatedBreaker.evaluate moves by one level at most.
LEMMA NextLevelFacts ==
  ASSUME NEW n \in Levels, NEW triggered \in BOOLEAN
  PROVE  NextLevel(n, triggered) \in Levels
BY LogAssumption DEF NextLevel, Levels, AtMost, Healthy, Steering, Constrained, Stopped

\* The four ways in which record_breaker ends.
LEMMA RecordWays ==
  ASSUME NEW r, NEW triggered, RecordBreaker(r, triggered)
  PROVE  LET to  == NextLevel(breaker, triggered)
             cmd == Command("breaker", breaker, to, now, made + 1)
             why == BreakerRefusal(log, breaker, to, cmd) IN
         \/ /\ to = breaker \/ r.untrusted \/ ~Enforce
            /\ rt' = Remembered(r, breaker, to) /\ breaker' = to
            /\ UNCHANGED <<log, made, seal, faults, promised>>
         \/ /\ rt' = r /\ breaker' = breaker /\ ~r.untrusted
            /\ UNCHANGED <<log, made, seal, promised>>
            /\ faults' = faults \/ (faults < MaxFaults /\ faults' = faults + 1)
         \/ /\ to # breaker /\ ~r.untrusted /\ why = ""
            /\ log' = Append(log, cmd) /\ made' = made + 1 /\ breaker' = to
            /\ StoreRefresh(Append(log, cmd), [r EXCEPT !.decision = Decision(breaker, to)])
BY DEF RecordBreaker, KeepFiles

LEMMA RefusalFacts ==
  ASSUME NEW l, NEW from, NEW to, NEW c, BreakerRefusal(l, from, to, c) = ""
  PROVE  ValidCommands(l) /\ ~(Len(l) >= MaxCommands) /\ ValidCommands(Append(l, c))
BY DEF BreakerRefusal

LEMMA CommandFacts ==
  ASSUME NEW action \in Actions, NEW from \in Levels, NEW to \in Levels, NEW at \in Nat,
         NEW id \in Nat \ {0}
  PROVE  LET c == Command(action, from, to, at, id) IN
         c \in CommandType /\ c.action = action /\ c.from = from /\ c.to = to /\ c.id = id
BY DEF Command, CommandType

LEMMA CheckpointTypes == JobTypes /\ CheckpointStep => JobTypes'
<1> SUFFICES ASSUME JobTypes, CheckpointStep PROVE JobTypes'
  OBVIOUS
<1>1. /\ pc = "acting" /\ pc' \in {"deciding", "handing"} /\ seen' \subseteq seen
      /\ UNCHANGED <<beat, now, provider, attempt, repaired, refused>>
  BY DEF CheckpointStep
<1>2. pc \notin Between /\ pc' \notin Between /\ pc' \in Places /\ seen' \subseteq {"cancel", "containment"}
  BY <1>1 DEF Between, Places, JobTypes, RestIn
<1>3. made \in Nat /\ LogTo(log, made) /\ FilesFit(made) /\ RuntimeFits(rt, made)
      /\ rt \in RuntimeType /\ now \in Nat /\ breaker \in Levels /\ rt.soft <= rt.hard
  BY <1>2, JobAssumption DEF JobTypes, RuntimeIn, RestIn, RuntimeFits
\* Without an append.
<1>4. ASSUME UNCHANGED <<log, made, seal, promised>>, breaker' \in Levels,
             faults' \in 0 .. MaxFaults, RuntimeFits(rt', made), rt'.hard = rt.hard
      PROVE  JobTypes'
  <2>1. FilesFit(made)' /\ LogTo(log, made)' /\ made' \in Nat
    BY <1>3, <1>4 DEF FilesFit
  <2>2. RuntimeIn'
    <3>1. rt' # NoRuntime
      BY <1>4, NullAssumption DEF RuntimeFits
    <3>2. rt.hard <= promised
      BY <1>2 DEF JobTypes, RuntimeIn
    <3> QED BY <1>2, <1>4, <3>1, <3>2 DEF RuntimeIn
  <2>3. AttemptsIn'
    <3>1. pc # "ready" /\ pc' # "ready"
      BY <1>1
    <3> QED BY <1>1, <3>1 DEF JobTypes, AttemptsIn
  <2>4. RestIn'
    BY <1>1, <1>2, <1>4 DEF JobTypes, RestIn
  <2> QED BY <1>2, <2>1, <2>2, <2>3, <2>4 DEF JobTypes
<1>5. CASE UNCHANGED <<breaker, rt>> /\ KeepFiles
  BY <1>3, <1>4, <1>5 DEF KeepFiles, FilesFit
<1>6. ASSUME NEW active \in BOOLEAN, NEW triggered \in BOOLEAN,
             RecordBreaker(Checked(rt, active), triggered)
      PROVE  JobTypes'
  <2> DEFINE r == Checked(rt, active)
             to == NextLevel(breaker, triggered)
             cmd == Command("breaker", breaker, to, now, made + 1)
             new == Append(log, cmd)
             d == Decision(breaker, to)
  <2>1. r \in RuntimeType /\ Alike(rt, r) /\ r.soft <= r.hard
    BY <1>3, CheckedFacts
  <2>2. RuntimeFits(r, made) /\ r.hard = rt.hard
    BY <1>3, <2>1, AlikeFits DEF Alike
  <2>3. to \in Levels
    BY <1>3, NextLevelFacts
  <2>4. RecordBreaker(r, triggered)
    BY <1>6
  <2> HIDE DEF r
  <2>5. CASE rt' = Remembered(r, breaker, to) /\ breaker' = to
             /\ UNCHANGED <<log, made, seal, faults, promised>>
    <3> DEFINE s == Remembered(r, breaker, to)
    <3>1. /\ s \in RuntimeType /\ s.soft = r.soft /\ s.gen = r.gen /\ s.known = r.known
          /\ s.untrusted = r.untrusted /\ s.hard = r.hard
      BY <1>3, <2>1, <2>3, RememberedFacts
    <3> HIDE DEF s
    <3>2. RuntimeFits(s, made)
      BY <2>2, <3>1 DEF RuntimeFits
    <3>3. rt' = s
      BY <2>5 DEF s
    <3> QED BY <1>3, <1>4, <2>2, <2>3, <2>5, <3>1, <3>2, <3>3 DEF FilesFit
  <2>6. CASE rt' = r /\ breaker' = breaker /\ UNCHANGED <<log, made, seal, promised>>
             /\ (faults' = faults \/ (faults < MaxFaults /\ faults' = faults + 1))
    <3>1. faults' \in 0 .. MaxFaults
      BY <1>3, <2>6, JobAssumption DEF FilesFit
    <3> QED BY <1>3, <1>4, <2>2, <2>6, <3>1
  <2>7. CASE to # breaker /\ BreakerRefusal(log, breaker, to, cmd) = ""
             /\ log' = new /\ made' = made + 1 /\ breaker' = to
             /\ StoreRefresh(new, [r EXCEPT !.decision = d])
    <3> DEFINE s == [r EXCEPT !.decision = d]
    <3>1. s \in RuntimeType /\ Alike(r, s) /\ s.soft = r.soft
      BY <1>3, <2>1, <2>3, DecidedFacts, DecisionFacts
    <3>2. StoreRefresh(new, s)
      BY <2>7
    <3> HIDE DEF s
    <3>3. RuntimeFits(s, made)
      BY <2>1, <2>2, <3>1, AlikeFits DEF Alike
    <3>0. made' = made + 1 /\ log' = new /\ breaker' = to
      BY <2>7
    <3>4. made' \in Nat /\ made <= made' /\ made + 1 \in Nat \ {0}
      BY ONLY <1>3, <3>0
    <3>5. RuntimeFits(s, made')
      BY <1>3, <3>3, <3>4, LogToMore
    <3>6. cmd \in CommandType /\ cmd.id = made'
      BY <1>3, <2>3, <3>0, <3>4, CommandFacts DEF Actions
    <3>7. LogTo(new, made')
      <4>1. LogTo(log, made')
        BY <1>3, <3>4, LogToMore
      <4>2. Len(log) < MaxCommands
        <5> HIDE DEF cmd, to
        <5>1. BreakerRefusal(log, breaker, to, cmd) = ""
          BY <2>7
        <5>2. ~(Len(log) >= MaxCommands)
          BY <5>1, RefusalFacts
        <5>3. Len(log) \in Nat /\ MaxCommands \in Nat
          BY <1>3, LogFacts, LogAssumption DEF LogTo
        <5> QED BY ONLY <5>2, <5>3
      <4>3. cmd \in CommandType /\ cmd.id <= made'
        <5> HIDE DEF cmd
        <5> QED BY ONLY <3>4, <3>6
      <4> HIDE DEF cmd
      <4> QED BY <3>4, <4>1, <4>2, <4>3, LogToAppended
    <3> HIDE DEF new
    <3> QED BY <1>1, <1>2, <2>3, <2>7, <3>2, <3>4, <3>5, <3>7, LookTypes
  <2> QED BY <2>4, <2>5, <2>6, <2>7, RecordWays
<1>7. (UNCHANGED <<breaker, rt>> /\ KeepFiles)
      \/ \E active, triggered \in BOOLEAN : RecordBreaker(Checked(rt, active), triggered)
  BY DEF CheckpointStep
<1> QED BY <1>5, <1>6, <1>7

LEMMA HandoffTypes == JobTypes /\ HandoffStep => JobTypes'
<1> SUFFICES ASSUME JobTypes, HandoffStep PROVE JobTypes'
  OBVIOUS
<1>1. /\ pc = "handing" /\ pc' = "deciding"
      /\ UNCHANGED <<beat, now, attempt, repaired, breaker, refused, provider, seen>>
  BY DEF HandoffStep, KeepAttempt
<1>2. pc \notin Between /\ pc' \notin Between /\ pc' \in Places /\ seen' \subseteq {"cancel", "containment"}
      /\ breaker' \in Levels
  BY <1>1 DEF Between, Places, JobTypes, RestIn
<1>3. made \in Nat /\ LogTo(log, made) /\ FilesFit(made) /\ RuntimeFits(rt, made)
      /\ rt \in RuntimeType /\ now \in Nat /\ rt.soft <= rt.hard /\ rt.hard <= promised
  BY <1>2, JobAssumption DEF JobTypes, RuntimeIn, RestIn, RuntimeFits
<1>4. CASE rt' = Steered(rt) /\ KeepFiles
  <2>1. rt' \in RuntimeType /\ Alike(rt, rt') /\ rt'.soft = rt.soft
    BY <1>3, <1>4, SteeredFacts
  <2>2. RuntimeFits(rt', made) /\ rt'.hard = rt.hard
    BY <1>3, <2>1, AlikeFits DEF Alike
  <2>3. rt' # NoRuntime
    BY <2>1, NullAssumption
  <2>4. UNCHANGED <<log, made, seal, faults, promised>>
    BY <1>4 DEF KeepFiles
  <2>5. RuntimeIn'
    BY <1>2, <1>3, <2>2, <2>3, <2>4 DEF RuntimeIn
  <2>6. AttemptsIn' /\ RestIn'
    BY <1>1, <1>2 DEF JobTypes, AttemptsIn, RestIn
  <2>7. made' \in Nat /\ LogTo(log, made)' /\ FilesFit(made)'
    BY <1>3, <2>4 DEF FilesFit
  <2> QED BY <1>2, <2>5, <2>6, <2>7 DEF JobTypes
<1>5. CASE /\ HandoffFits(log)
           /\ LET new == Append(log, Command("handoff", 0, 0, now, made + 1))
              IN  /\ log' = new
                  /\ made' = made + 1
                  /\ StoreRefresh(new, [Steered(rt) EXCEPT !.handoff = TRUE, !.attention = TRUE])
  <2> DEFINE cmd == Command("handoff", 0, 0, now, made + 1)
             s == [Steered(rt) EXCEPT !.handoff = TRUE, !.attention = TRUE]
  <2>1. log' = Append(log, cmd) /\ made' = made + 1 /\ StoreRefresh(Append(log, cmd), s)
    BY <1>5
  <2>2. s \in RuntimeType /\ Alike(rt, s) /\ s.soft = rt.soft
    BY <1>3, SteeredFacts
  <2> HIDE DEF s
  <2>3. RuntimeFits(s, made)
    BY <1>3, <2>2, AlikeFits DEF Alike
  <2>4. made' \in Nat /\ made <= made' /\ made + 1 \in Nat \ {0}
    BY ONLY <1>3, <2>1
  <2>5. RuntimeFits(s, made') /\ LogTo(log, made')
    BY <1>3, <2>3, <2>4, LogToMore
  <2>6. 0 \in Levels
    BY DEF Levels, Healthy, Stopped
  <2>7. cmd \in CommandType /\ cmd.id = made + 1
    BY <1>3, <2>4, <2>6, CommandFacts DEF Actions
  <2> HIDE DEF cmd
  <2>8. cmd.id <= made'
    BY ONLY <2>1, <2>4, <2>7
  <2>9. Len(log) < MaxCommands
    BY <1>5 DEF HandoffFits, QueueFits
  <2>10. LogTo(Append(log, cmd), made')
    BY <2>4, <2>5, <2>7, <2>8, <2>9, LogToAppended
  <2> QED BY <1>1, <1>2, <2>1, <2>4, <2>5, <2>10, LookTypes
<1> QED BY <1>4, <1>5 DEF HandoffStep

LEMMA PublishedFacts ==
  ASSUME NEW r \in RuntimeType
  PROVE  /\ Published(r) \in BeatType /\ Published(r).gen = r.gen
         /\ Published(r).cancel = r.cancel /\ Published(r).untrusted = r.untrusted
         /\ Published(r).decision = r.decision
BY DEF Published, BeatType, RuntimeType

LEMMA PublishTypes ==
  ASSUME JobTypes, Publish, rt # NoRuntime
  PROVE  beat' \in BeatType \cup {NoBeat, Damaged}
BY PublishedFacts DEF Publish, JobTypes, RuntimeIn, RuntimeFits, RestIn

LEMMA DecideTypes == JobTypes /\ (Decide \/ DecideClosed) => JobTypes'
<1> SUFFICES ASSUME JobTypes, Decide \/ DecideClosed PROVE JobTypes'
  OBVIOUS
<1>1. /\ pc \in {"deciding", "closing"} /\ Publish
      /\ UNCHANGED <<log, seal, now, attempt, repaired, breaker, made, faults, promised, refused>>
  BY DEF Decide, DecideClosed
<1>2. pc \notin Between /\ rt # NoRuntime /\ pc # "ready"
  BY <1>1 DEF JobTypes, RuntimeIn, Between
<1>3. beat' \in BeatType \cup {NoBeat, Damaged}
  BY <1>1, <1>2, PublishTypes
<1>4. \/ pc' \in {"polling", "closed"} /\ UNCHANGED <<rt, provider, seen>>
      \/ \E how \in {"contained", "cancelled", "timeout", "error", "success"} : EndAttempt(how)
  <2>1. CASE Decide
    BY <2>1 DEF Decide, KeepAttempt
  <2>2. CASE DecideClosed
    BY <2>2 DEF DecideClosed, KeepAttempt
  <2> QED BY <2>1, <2>2
<1>5. CASE pc' \in {"polling", "closed"} /\ UNCHANGED <<rt, provider, seen>>
  <2>1. pc' \in Places /\ pc' \notin Between
    BY <1>5 DEF Places, Between
  <2>2. now' \in 0 .. Horizon /\ provider' \in {"none", "running", "reported"}
    BY <1>1, <1>5 DEF JobTypes, RestIn
  <2> QED BY <1>1, <1>2, <1>3, <1>5, <2>1, <2>2, CalmTypes
<1>6. ASSUME NEW how \in {"contained", "cancelled", "timeout", "error", "success"}, EndAttempt(how)
      PROVE  JobTypes'
  BY <1>1, <1>2, <1>3, <1>6, EndTypes
<1> QED BY <1>4, <1>5, <1>6

LEMMA LeaveTypes == JobTypes /\ (Reap \/ Exit) => JobTypes'
<1> SUFFICES ASSUME JobTypes, Reap \/ Exit PROVE JobTypes'
  OBVIOUS
<1>1. /\ pc # "ready"
      /\ UNCHANGED <<log, seal, beat, now, attempt, repaired, breaker, made, faults, promised>>
      /\ EndAttempt("success") \/ EndAttempt("error")
  BY DEF Reap, Exit, files
<1>2. beat' \in BeatType \cup {NoBeat, Damaged}
  BY <1>1 DEF JobTypes, RestIn
<1> QED BY <1>1, <1>2, EndTypes

LEMMA ProviderTypes == JobTypes /\ (Report \/ CloseOutput \/ Tick) => JobTypes'
<1> SUFFICES ASSUME JobTypes, Report \/ CloseOutput \/ Tick PROVE JobTypes'
  OBVIOUS
<1>1. /\ UNCHANGED <<log, seal, beat, attempt, repaired, rt, breaker, made, faults, promised, seen>>
      /\ pc' = pc \/ (pc = "polling" /\ pc' = "closed")
      /\ provider' \in {provider, "reported"}
      /\ now' = now \/ (now < Horizon /\ now' = now + 1)
  BY DEF Report, CloseOutput, Tick, files
<1>2. now' \in 0 .. Horizon
  BY <1>1, JobAssumption DEF JobTypes, RestIn
<1>3. pc' \in Places /\ (pc' = pc \/ (pc \notin Between /\ pc' \notin Between))
  BY <1>1 DEF JobTypes, Places, Between
<1>4. provider' \in {"none", "running", "reported"} /\ beat' \in BeatType \cup {NoBeat, Damaged}
  BY <1>1 DEF JobTypes, RestIn
<1> QED BY <1>1, <1>2, <1>3, <1>4, CalmTypes

LEMMA RepairTypes == JobTypes /\ Repair => JobTypes'
<1> SUFFICES ASSUME JobTypes, Repair PROVE JobTypes'
  OBVIOUS
<1>1. /\ UNCHANGED <<log, seal, beat, now, provider, attempt, rt, breaker, made, faults, seen, promised>>
      /\ pc = "repair"
      /\ \/ pc' = "over" /\ repaired' = repaired
         \/ ~repaired /\ pc' = "ready" /\ repaired' = TRUE
  BY DEF Repair, files
<1>2. AttemptsIn'
  <2>1. attempt \in Nat /\ repaired \in BOOLEAN /\ Retries \in Nat
        /\ attempt <= Retries + 1 + (IF repaired THEN 1 ELSE 0)
    BY <1>1, JobAssumption DEF JobTypes, AttemptsIn
  <2>2. attempt' = attempt
    BY <1>1
  <2>3. CASE pc' = "over" /\ repaired' = repaired
    <3>1. attempt' <= Retries + (IF pc' = "ready" THEN 0 ELSE 1) + (IF repaired' THEN 1 ELSE 0)
      BY <2>1, <2>2, <2>3
    <3> QED BY <2>1, <2>2, <2>3, <3>1 DEF AttemptsIn
  <2>4. CASE ~repaired /\ pc' = "ready" /\ repaired' = TRUE
    <3>1. attempt' <= Retries + (IF pc' = "ready" THEN 0 ELSE 1) + (IF repaired' THEN 1 ELSE 0)
      BY <2>1, <2>2, <2>4
    <3> QED BY <2>1, <2>2, <2>4, <3>1 DEF AttemptsIn
  <2> QED BY <1>1, <2>3, <2>4
<1>3. RuntimeIn'
  BY <1>1 DEF JobTypes, RuntimeIn, Between
<1>4. RestIn'
  BY <1>1 DEF JobTypes, RestIn
<1>5. pc' \in Places /\ made' \in Nat /\ LogTo(log, made)' /\ FilesFit(made)'
  BY <1>1 DEF JobTypes, FilesFit, Places, Between
<1> QED BY <1>2, <1>3, <1>4, <1>5 DEF JobTypes

\* Steps from outside: only the files change.
LEMMA OutsideTypes ==
  ASSUME JobTypes, UNCHANGED <<now, pc, provider, attempt, repaired, rt, breaker, seen, promised>>,
         made' \in Nat, made <= made', LogTo(log, made)', FilesFit(made)',
         beat' \in BeatType \cup {NoBeat, Damaged}
  PROVE  JobTypes'
<1>1. rt # NoRuntime => RuntimeFits(rt, made')
  BY LogToMore DEF JobTypes, RuntimeIn
<1>2. RuntimeIn'
  BY <1>1 DEF JobTypes, RuntimeIn
<1>3. AttemptsIn' /\ RestIn'
  BY DEF JobTypes, AttemptsIn, RestIn
<1> QED BY <1>2, <1>3 DEF JobTypes

LEMMA QueueTypes == JobTypes /\ Queue => JobTypes'
<1> SUFFICES ASSUME JobTypes, Queue PROVE JobTypes'
  OBVIOUS
<1>1. PICK action \in Operator : log' = Append(log, Command(action, 0, 0, now, made + 1))
  BY DEF Queue
<1>2. /\ UNCHANGED <<seal, beat, now, pc, provider, attempt, repaired, rt, breaker, faults, seen, promised>>
      /\ made' = made + 1 /\ Len(log) < MaxCommands
  BY DEF Queue, QueueFits
<1>3. made \in Nat /\ LogTo(log, made) /\ FilesFit(made) /\ now \in Nat
  BY JobAssumption DEF JobTypes, RestIn
<1> DEFINE cmd == Command(action, 0, 0, now, made + 1)
<1>4. made' \in Nat /\ made <= made' /\ made + 1 \in Nat \ {0}
  BY <1>2, <1>3
<1>5. action \in Actions /\ 0 \in Levels
  BY JobAssumption DEF Actions, Levels, Healthy, Stopped
<1>6. cmd \in CommandType /\ cmd.id = made + 1
  BY <1>3, <1>4, <1>5, CommandFacts
<1> HIDE DEF cmd
<1>7. cmd.id <= made'
  BY <1>2, <1>4, <1>6
<1>8. LogTo(log, made')
  BY <1>3, <1>4, LogToMore
<1>9. LogTo(Append(log, cmd), made')
  BY <1>2, <1>4, <1>6, <1>7, <1>8, LogToAppended
<1>10. LogTo(log, made)'
  BY <1>1, <1>9 DEF cmd
<1>11. FilesFit(made)'
  BY <1>2, <1>3, <1>4, LogToMore DEF FilesFit
<1>12. beat' \in BeatType \cup {NoBeat, Damaged}
  BY <1>2 DEF JobTypes, RestIn
<1> QED BY <1>2, <1>4, <1>10, <1>11, <1>12, OutsideTypes

LEMMA DamageTypes == JobTypes /\ Damage => JobTypes'
<1> SUFFICES ASSUME JobTypes, Damage PROVE JobTypes'
  OBVIOUS
<1>1. /\ faults < MaxFaults /\ faults' = faults + 1
      /\ \/ log' = << >> /\ UNCHANGED <<seal, beat>>
         \/ seal' = Damaged /\ UNCHANGED <<log, beat>>
         \/ beat' = Damaged /\ UNCHANGED <<log, seal>>
      /\ UNCHANGED <<now, pc, provider, attempt, repaired, rt, breaker, made, seen, promised>>
  BY DEF Damage, NoLog
<1>2. made \in Nat /\ LogTo(log, made) /\ FilesFit(made) /\ made' \in Nat /\ made <= made'
  BY <1>1 DEF JobTypes
<1>3. LogTo(<< >>, made)
  BY NoLogFacts, LogAssumption DEF LogTo
<1>4. LogTo(log, made)'
  BY <1>1, <1>2, <1>3
<1>5. faults' \in 0 .. MaxFaults
  BY <1>1, <1>2, JobAssumption DEF FilesFit
<1>6. FilesFit(made)'
  BY <1>1, <1>2, <1>5, NullAssumption DEF FilesFit
<1>7. beat' \in BeatType \cup {NoBeat, Damaged}
  BY <1>1 DEF JobTypes, RestIn
<1> QED BY <1>1, <1>2, <1>4, <1>6, <1>7, OutsideTypes

LEMMA JobTypesInit == Init => JobTypes
<1> SUFFICES ASSUME Init PROVE JobTypes
  OBVIOUS
<1>1. LogTo(log, made) /\ made \in Nat
  BY NoLogFacts, LogAssumption DEF Init, LogTo, NoLog
<1>2. FilesFit(made)
  BY NullAssumption, JobAssumption DEF Init, FilesFit
<1>3. RuntimeIn /\ AttemptsIn /\ pc \in Places
  <2>1. Retries \in Nat
    BY JobAssumption
  <2>2. RuntimeIn /\ pc \in Places
    BY DEF Init, RuntimeIn, Places, Between
  <2>3. AttemptsIn
    <3>1. attempt = 0 /\ repaired = FALSE /\ pc = "ready"
      BY DEF Init
    <3>2. (IF pc = "ready" THEN 0 ELSE 1) = 0
      BY ONLY <3>1
    <3>3. (IF repaired THEN 1 ELSE 0) = 0
      BY ONLY <3>1
    <3>4. Retries + 0 + 0 = Retries /\ 0 <= Retries
      BY ONLY <2>1
    <3>5. attempt \in Nat /\ repaired \in BOOLEAN
      BY ONLY <3>1
    <3>6. attempt <= Retries + (IF pc = "ready" THEN 0 ELSE 1) + (IF repaired THEN 1 ELSE 0)
      BY ONLY <3>1, <3>2, <3>3, <3>4
    <3> QED BY ONLY <3>5, <3>6 DEF AttemptsIn
  <2> QED BY <2>2, <2>3
<1>4. RestIn
  BY JobAssumption DEF Init, RestIn, Levels, Healthy, Stopped
<1> QED BY <1>1, <1>2, <1>3, <1>4 DEF JobTypes

LEMMA JobTypesStep == JobTypes /\ [Next]_vars => JobTypes'
<1>1. ASSUME JobTypes, UNCHANGED vars PROVE JobTypes'
  BY <1>1 DEF JobTypes, FilesFit, RuntimeIn, AttemptsIn, RestIn, vars
<1> QED BY <1>1, StartTypes, LoadTypes, RefreshTypes, CheckpointTypes, HandoffTypes, DecideTypes,
           LeaveTypes, ProviderTypes, RepairTypes, QueueTypes, DamageTypes
        DEF Next, JobStep, Ended

LEMMA JobTypesAlways == Spec => []JobTypes
BY JobTypesInit, JobTypesStep, PTL DEF Spec

\* The state of a job has its type; in particular no deadline lies beyond the
\* longest runtime, however often it is extended, replayed and salvaged
\* (_refresh_locked, _load_prior_high_water).
THEOREM JobTypeCorrect == Spec => []TypeOK
<1>1. JobTypes => TypeOK
  BY JobTypesOK
<1> QED BY <1>1, JobTypesAlways, PTL

-----------------------------------------------------------------------------
(* Valid logs. *)

LEMMA AppendedBreakers ==
  ASSUME NEW l \in Seq(CommandType), NEW c \in CommandType
  PROVE  /\ c.action # "breaker" => Breakers(Append(l, c)) = Breakers(l)
         /\ c.action = "breaker" => Breakers(Append(l, c)) = Breakers(l) \cup {Len(l) + 1}
         /\ \A a : Has(Append(l, c), a) <=> (Has(l, a) \/ c.action = a)
<1>1. /\ Append(l, c) \in Seq(CommandType)
      /\ Len(Append(l, c)) = Len(l) + 1 /\ Len(l) \in Nat
      /\ Append(l, c)[Len(l) + 1] = c /\ DOMAIN l = 1 .. Len(l)
      /\ DOMAIN Append(l, c) = 1 .. Len(Append(l, c))
      /\ \A i \in 1 .. Len(l) : Append(l, c)[i] = l[i]
  BY Appended, LogFacts
<1>2. /\ \A i \in DOMAIN Append(l, c) : i \in DOMAIN l \/ i = Len(l) + 1
      /\ \A i \in DOMAIN l : i \in DOMAIN Append(l, c) /\ Append(l, c)[i] = l[i]
      /\ Len(l) + 1 \in DOMAIN Append(l, c)
  BY <1>1
<1>3. c.action # "breaker" => Breakers(Append(l, c)) = Breakers(l)
  BY <1>1, <1>2 DEF Breakers
<1>4. c.action = "breaker" => Breakers(Append(l, c)) = Breakers(l) \cup {Len(l) + 1}
  BY <1>1, <1>2 DEF Breakers
<1>5. ASSUME NEW a PROVE Has(Append(l, c), a) <=> (Has(l, a) \/ c.action = a)
  BY <1>1, <1>2 DEF Has
<1> QED BY <1>3, <1>4, <1>5

LEMMA ValidAppended ==
  ASSUME NEW l \in Seq(CommandType), ValidCommands(l), Len(l) < MaxCommands,
         NEW c \in CommandType, c.action # "breaker"
  PROVE  ValidCommands(Append(l, c))
<1> DEFINE m == Append(l, c)
<1>1. /\ m \in Seq(CommandType) /\ Len(m) = Len(l) + 1 /\ Len(l) \in Nat /\ Begins(l, m)
      /\ \A i \in 1 .. Len(l) : m[i] = l[i]
  BY Appended, LogFacts
<1>2. Breakers(m) = Breakers(l) /\ Breakers(l) \subseteq 1 .. Len(l)
  BY AppendedBreakers, LogFacts
<1> HIDE DEF m
<1>3. Len(m) <= MaxCommands
  BY <1>1, LogAssumption
<1>4. ASSUME NEW i \in Breakers(m)
      PROVE  /\ m[i].from = LevelAt(m, i - 1) /\ m[i].from # Stopped
             /\ m[i].to \in {m[i].from - 1, m[i].from + 1}
             /\ m[i].to = Stopped => AllowStop
  <2>1. i \in Breakers(l) /\ i \in 1 .. Len(l) /\ i - 1 \in Nat /\ i - 1 <= Len(l)
    BY <1>1, <1>2
  <2>2. m[i] = l[i] /\ LevelAt(m, i - 1) = LevelAt(l, i - 1)
    BY <1>1, <2>1, LevelBegins
  <2> QED BY <2>1, <2>2 DEF ValidCommands
<1> QED BY <1>3, <1>4 DEF ValidCommands, m

LEMMA NoLogValid == ValidCommands(<< >>)
BY NoLogFacts, LogAssumption DEF ValidCommands

-----------------------------------------------------------------------------
(* A runtime control that goes by the log. *)

\* What r read is the beginning of l, and its deadline is what it applied of it.
ReadFrom(r, l) ==
  /\ Begins(r.known, l) /\ r.gen <= Len(r.known) /\ r.sealed <= Len(l)
  /\ r.hard = HardAfter(l)[r.gen]

CancelFrom(r, l) ==
  /\ r.cancel => Has(l, "cancel")
  /\ \A i \in 1 .. r.gen : l[i].action = "cancel" => r.cancel

StopFrom(r, l) ==
  /\ r.stopped => StopAsked(l)
  /\ \A i \in Breakers(l) : (Enforce /\ i <= r.gen /\ l[i].to = Stopped) => r.stopped

HoldFrom(r, l) ==
  /\ r.constrained => Enforce /\ Upheld(l, r.gen)
  /\ (Enforce /\ ContainedAt(l, r.gen)) => r.constrained

LevelFrom(r, l) ==
  Enforce => /\ (\E i \in Breakers(l) : i <= r.gen) => r.level = LevelAt(l, r.gen)
             /\ Breakers(l) = {} => r.level = Healthy

DecisionFrom(d, l) == d.enforced => Enforce /\ \E i \in Breakers(l) : l[i].to = d.level

Trusts(r, l) ==
  /\ ReadFrom(r, l) /\ CancelFrom(r, l) /\ StopFrom(r, l) /\ HoldFrom(r, l)
  /\ LevelFrom(r, l) /\ DecisionFrom(r.decision, l)

LEMMA DecisionLater ==
  ASSUME NEW d, NEW l \in Seq(CommandType), NEW m \in Seq(CommandType), Begins(l, m),
         DecisionFrom(d, l)
  PROVE  DecisionFrom(d, m)
<1>1. \A i \in Breakers(l) : i \in Breakers(m) /\ m[i] = l[i]
  BY BeginsFacts, LogFacts
<1> QED BY <1>1 DEF DecisionFrom

\* A longer log is as good.
LEMMA TrustsLater ==
  ASSUME NEW l \in Seq(CommandType), NEW m \in Seq(CommandType), Begins(l, m),
         NEW r \in RuntimeType, Trusts(r, l)
  PROVE  Trusts(r, m)
<1>0. /\ r.gen \in Nat /\ r.sealed \in Nat /\ r.known \in Seq(CommandType) /\ Len(l) \in Nat
      /\ Len(m) \in Nat /\ Len(l) <= Len(m) /\ Len(r.known) \in Nat
      /\ Breakers(l) \subseteq 1 .. Len(l)
  BY LogFacts DEF RuntimeType, Begins
<1>1. Begins(r.known, l) /\ r.gen <= Len(r.known) /\ Len(r.known) <= Len(l)
      /\ r.sealed <= Len(l) /\ r.hard = HardAfter(l)[r.gen]
  BY DEF Trusts, ReadFrom, Begins
<1>2. r.gen \in 0 .. Len(l)
  BY <1>0, <1>1
<1>3. ReadFrom(r, m)
  <2>1. Begins(r.known, m)
    BY <1>0, <1>1, BeginsLonger
  <2>2. HardAfter(m)[r.gen] = HardAfter(l)[r.gen]
    BY <1>2, HardBegins
  <2> QED BY <1>0, <1>1, <2>1, <2>2 DEF ReadFrom
<1>4. /\ \A i \in 1 .. Len(l) : m[i] = l[i]
      /\ Breakers(l) = {i \in Breakers(m) : i <= Len(l)}
      /\ Has(l, "cancel") => Has(m, "cancel")
      /\ StopAsked(l) => StopAsked(m)
  BY BeginsFacts
<1>5. \A i \in 1 .. r.gen : i \in 1 .. Len(l)
  BY <1>0, <1>2
<1>6. CancelFrom(r, m)
  BY <1>4, <1>5 DEF Trusts, CancelFrom
<1>7. \A i \in Breakers(m) : i <= r.gen => i \in Breakers(l) /\ m[i] = l[i]
  <2>1. Breakers(m) \subseteq 1 .. Len(m)
    BY LogFacts
  <2> QED BY <1>0, <1>2, <1>4, <2>1
<1>8. StopFrom(r, m)
  BY <1>4, <1>7 DEF Trusts, StopFrom
<1>9. HoldFrom(r, m)
  BY <1>0, <1>2, UpheldBegins DEF Trusts, HoldFrom
<1>10. LevelAt(l, r.gen) = LevelAt(m, r.gen)
  BY <1>0, <1>2, LevelBegins
<1>11. LevelFrom(r, m)
  <2>1. Breakers(m) = {} => Breakers(l) = {}
    BY <1>4
  <2> QED BY <1>7, <1>10, <2>1 DEF Trusts, LevelFrom
<1>12. DecisionFrom(r.decision, m)
  BY DecisionLater DEF Trusts
<1> QED BY <1>3, <1>6, <1>8, <1>9, <1>11, <1>12 DEF Trusts

LEMMA TrustsAlike ==
  ASSUME NEW l, NEW r, NEW s, Trusts(r, l), Alike(r, s), DecisionFrom(s.decision, l)
  PROVE  Trusts(s, l)
BY DEF Trusts, Alike, ReadFrom, CancelFrom, StopFrom, HoldFrom, LevelFrom

LEMMA TrustsTrusted ==
  ASSUME NEW l \in Seq(CommandType), ValidCommands(l), NEW r \in RuntimeType, Trusts(r, l)
  PROVE  Trusted(l, r)
<1>1. /\ r.gen \in Nat /\ r.known \in Seq(CommandType) /\ Len(l) \in Nat /\ Len(r.known) \in Nat
      /\ DOMAIN r.known = 1 .. Len(r.known)
  BY LogFacts DEF RuntimeType
<1>2. Begins(r.known, l) /\ r.gen <= Len(r.known) /\ r.sealed <= Len(l)
  BY DEF Trusts, ReadFrom
<1>3. Len(l) >= r.gen /\ Len(l) >= r.sealed
  BY <1>1, <1>2 DEF Begins, RuntimeType
<1>4. \A i \in DOMAIN r.known : l[i] = r.known[i]
  BY <1>2 DEF Begins
<1> QED BY <1>3, <1>4 DEF Trusted

\* The next command of the log keeps the runtime control true to it.
LEMMA AppliedTrusts ==
  ASSUME NEW l \in Seq(CommandType), NEW r \in RuntimeType, r.hard \in Budget .. MaxExtension,
         Trusts(r, l), r.gen \in 0 .. Len(l) - 1
  PROVE  Trusts(Applied(l[r.gen + 1], r), l)
<1> DEFINE n == r.gen
           c == l[n + 1]
           a == Applied(c, r)
<1>0. /\ n \in Nat /\ n + 1 \in 1 .. Len(l) /\ n + 1 \in DOMAIN l /\ n \in 0 .. Len(l)
      /\ n + 1 \in 0 .. Len(l) /\ (n + 1) - 1 = n
      /\ r.known \in Seq(CommandType) /\ Len(r.known) \in Nat /\ Len(l) \in Nat
      /\ c \in CommandType
  BY LogFacts DEF RuntimeType
<1>1. /\ a.gen = n + 1 /\ a.sealed = r.sealed /\ a.decision = r.decision
      /\ a.known = IF Len(r.known) < n + 1 THEN Append(r.known, c) ELSE r.known
      /\ a.cancel = (r.cancel \/ c.action = "cancel")
      /\ a.hard = IF c.action = "extend" THEN r.hard + ExtendBy(r, c) ELSE r.hard
      /\ a.level = IF c.action = "breaker" THEN c.to ELSE r.level
      /\ a.constrained = IF c.action # "breaker" \/ ~Enforce THEN r.constrained
                         ELSE IF c.to = Constrained THEN TRUE
                         ELSE IF c.to = Healthy THEN FALSE ELSE r.constrained
      /\ a.stopped = (r.stopped \/ (c.action = "breaker" /\ Enforce /\ c.to = Stopped))
  BY <1>0, AppliedFacts
<1>2. Begins(r.known, l) /\ n <= Len(r.known) /\ r.sealed <= Len(l) /\ r.hard = HardAfter(l)[n]
  BY DEF Trusts, ReadFrom
<1> HIDE DEF a
<1>11. a.hard = HardAfter(l)[a.gen]
  <2>1. HardAfter(l)[n + 1] = Later(l, n + 1, HardAfter(l)[(n + 1) - 1])
    BY <1>0, HardDefined
  <2>2. HardAfter(l)[n + 1] = Later(l, n + 1, r.hard)
    BY <1>0, <1>2, <2>1
  <2>3. Later(l, n + 1, r.hard) = IF c.action = "extend" THEN r.hard + ExtendBy(r, c) ELSE r.hard
    <3>1. r.hard + 0 = r.hard
      BY DEF RuntimeType
    <3> QED BY <3>1 DEF Later, ExtendBy
  <2> HIDE DEF n, c
  <2> QED BY <1>1, <2>2, <2>3
<1>3. ReadFrom(a, l)
  <2>1. CASE Len(r.known) < n + 1
    <3>1. Len(r.known) = n
      BY <1>0, <1>2, <2>1
    <3> DEFINE k == Append(r.known, c)
    <3>2. /\ k \in Seq(CommandType) /\ Len(k) = n + 1 /\ k[n + 1] = c
          /\ \A i \in 1 .. n : k[i] = r.known[i]
      BY <1>0, <3>1, Appended
    <3>3. \A i \in 1 .. n : r.known[i] = l[i]
      BY <1>2, <3>1, <1>0, LogFacts DEF Begins
    <3>4. DOMAIN k = 1 .. (n + 1)
      BY <3>2, LogFacts
    <3> HIDE DEF k
    <3>5. \A i \in DOMAIN k : i \in 1 .. n \/ i = n + 1
      BY <1>0, <3>4
    <3>6. Begins(k, l)
      <4>1. \A i \in DOMAIN k : k[i] = l[i]
        BY <3>2, <3>3, <3>5
      <4> QED BY <1>0, <3>2, <4>1 DEF Begins
    <3>7. a.known = k
      BY <1>1, <2>1 DEF k
    <3>8. Begins(a.known, l) /\ a.gen <= Len(a.known)
      <4>1. n + 1 <= n + 1
        BY ONLY <1>0
      <4>2. a.gen = n + 1 /\ Len(a.known) = n + 1
        BY ONLY <1>1, <3>2, <3>7
      <4> QED BY ONLY <3>6, <3>7, <4>1, <4>2
    <3>9. a.sealed <= Len(l)
      BY <1>1, <1>2
    <3> QED BY <1>11, <3>8, <3>9 DEF ReadFrom
  <2>2. CASE ~(Len(r.known) < n + 1)
    <3>1. a.known = r.known /\ n + 1 <= Len(r.known)
      BY <1>0, <1>1, <2>2
    <3> QED BY <1>1, <1>2, <1>11, <3>1 DEF ReadFrom
  <2> QED BY <2>1, <2>2
<1>4. CancelFrom(a, l)
  <2>1. a.cancel <=> (r.cancel \/ c.action = "cancel")
    BY <1>1
  <2>2. \A i \in 1 .. a.gen : i \in 1 .. n \/ i = n + 1
    BY <1>0, <1>1
  <2>3. c.action = "cancel" => Has(l, "cancel")
    BY <1>0 DEF Has
  <2> QED BY <2>1, <2>2, <2>3 DEF Trusts, CancelFrom
<1>5. c.action = "breaker" => n + 1 \in Breakers(l)
  BY <1>0 DEF Breakers
<1>6. \A i \in Breakers(l) : l[i].action = "breaker" /\ i \in Nat
  BY LogFacts DEF Breakers
<1>7. StopFrom(a, l)
  <2>1. a.stopped <=> (r.stopped \/ (c.action = "breaker" /\ Enforce /\ c.to = Stopped))
    BY <1>1
  <2>2. \A i \in Breakers(l) : i <= a.gen => i <= n \/ i = n + 1
    BY <1>0, <1>1, <1>6
  <2>3. (c.action = "breaker" /\ Enforce /\ c.to = Stopped) => StopAsked(l)
    BY <1>5 DEF StopAsked
  <2>4. a.stopped => StopAsked(l)
    BY <2>1, <2>3 DEF Trusts, StopFrom
  <2>5. ASSUME NEW i \in Breakers(l), Enforce, i <= a.gen, l[i].to = Stopped
        PROVE  a.stopped
    <3>1. CASE i <= n
      BY <2>1, <2>5, <3>1 DEF Trusts, StopFrom
    <3>2. CASE i = n + 1
      BY <1>6, <2>1, <2>5, <3>2
    <3> QED BY <2>2, <2>5, <3>1, <3>2
  <2> QED BY <2>4, <2>5 DEF StopFrom
<1>8. HoldFrom(a, l)
  <2>1. /\ (c.action # "breaker" \/ c.to # Healthy) => (Upheld(l, n) => Upheld(l, n + 1))
        /\ (c.action = "breaker" /\ c.to = Constrained) => Upheld(l, n + 1)
        /\ (c.action # "breaker" \/ c.to # Constrained) =>
             (ContainedAt(l, n + 1) => ContainedAt(l, n))
        /\ (c.action = "breaker" /\ c.to = Healthy) => ~ContainedAt(l, n + 1)
    BY <1>0, UpheldStep
  <2>2. /\ r.constrained => Enforce /\ Upheld(l, n)
        /\ (Enforce /\ ContainedAt(l, n)) => r.constrained
    BY DEF Trusts, HoldFrom
  <2>3. Constrained # Healthy
    BY DEF Constrained, Healthy
  <2>4. /\ a.constrained => Enforce /\ Upheld(l, n + 1)
        /\ (Enforce /\ ContainedAt(l, n + 1)) => a.constrained
    <3> HIDE DEF c
    <3>1. CASE c.action # "breaker" \/ ~Enforce
      <4>1. a.constrained = r.constrained
        BY <1>1, <3>1
      <4> QED BY <2>1, <2>2, <3>1, <4>1
    <3>2. CASE c.action = "breaker" /\ Enforce /\ c.to = Constrained
      <4>1. a.constrained
        BY <1>1, <3>2
      <4> QED BY <2>1, <3>2, <4>1
    <3>3. CASE c.action = "breaker" /\ Enforce /\ c.to = Healthy
      <4>1. ~a.constrained
        BY <1>1, <2>3, <3>3
      <4> QED BY <2>1, <3>3, <4>1
    <3>4. CASE c.action = "breaker" /\ Enforce /\ c.to # Healthy /\ c.to # Constrained
      <4>1. a.constrained = r.constrained
        BY <1>1, <3>4
      <4> QED BY <2>1, <2>2, <3>4, <4>1
    <3> QED BY <3>1, <3>2, <3>3, <3>4
  <2> QED BY <1>1, <2>4 DEF HoldFrom
<1>9. LevelFrom(a, l)
  <2> SUFFICES ASSUME Enforce
               PROVE  /\ (\E i \in Breakers(l) : i <= a.gen) => a.level = LevelAt(l, a.gen)
                      /\ Breakers(l) = {} => a.level = Healthy
    BY DEF LevelFrom
  <2>1. LevelAt(l, n + 1) = IF c.action = "breaker" THEN c.to ELSE LevelAt(l, n)
    BY <1>0, LevelStep
  <2>2. /\ (\E i \in Breakers(l) : i <= n) => r.level = LevelAt(l, n)
        /\ Breakers(l) = {} => r.level = Healthy
    BY DEF Trusts, LevelFrom
  <2>3. CASE c.action = "breaker"
    <3>1. a.level = LevelAt(l, a.gen)
      BY <1>1, <2>1, <2>3
    <3> QED BY <1>5, <2>3, <3>1
  <2>4. CASE c.action # "breaker"
    <3>1. a.level = r.level /\ LevelAt(l, a.gen) = LevelAt(l, n)
      BY <1>1, <2>1, <2>4
    <3>2. \A i \in Breakers(l) : i <= a.gen => i <= n
      <4>1. \A i \in Breakers(l) : i # n + 1
        BY <1>6, <2>4
      <4> QED BY <1>0, <1>1, <1>6, <4>1
    <3> QED BY <2>2, <3>1, <3>2
  <2> QED BY <2>3, <2>4
<1>10. DecisionFrom(a.decision, l)
  BY <1>1 DEF Trusts
<1> QED BY <1>3, <1>4, <1>7, <1>8, <1>9, <1>10 DEF Trusts, a

\* A refresh of a runtime control that is true to the log applies all of it.
LEMMA RefreshTrusts ==
  ASSUME NEW n \in Nat, NEW l, LogTo(l, n), ValidCommands(l), NEW r, RuntimeFits(r, n),
         ~r.untrusted, Trusts(r, l)
  PROVE  LET s == Refreshed(l, r) IN
         /\ RuntimeFits(s, n) /\ ~s.untrusted /\ s.gen = Len(l) /\ s.known = l
         /\ Trusts(s, l) /\ s.sealed = r.sealed /\ s.decision = r.decision /\ s.hard >= r.hard
<1>0. /\ l \in Seq(CommandType) /\ r \in RuntimeType /\ r.gen \in Nat /\ Len(l) \in Nat
      /\ r.hard \in Budget .. MaxExtension /\ Len(r.known) \in Nat
      /\ r.known \in Seq(CommandType)
  BY LogFacts DEF LogTo, RuntimeFits, RuntimeType
<1>1. Trusted(l, r)
  BY <1>0, TrustsTrusted
<1> DEFINE s == Refreshed(l, r)
<1>2. RuntimeFits(s, n) /\ s.hard >= r.hard /\ s = Replayed(l, r) /\ ~s.untrusted /\ s.gen = Len(l)
  BY <1>1, RefreshFits
<1> HIDE DEF s
<1> DEFINE G == {x \in RuntimeType : /\ x.hard \in Budget .. MaxExtension /\ Trusts(x, l)
                                     /\ x.sealed = r.sealed /\ x.decision = r.decision}
<1>3. r \in G /\ r.gen \in 0 .. Len(l)
  BY <1>0, <1>1 DEF Trusted
<1>4. ASSUME NEW x \in G, x.gen \in 0 .. Len(l) - 1
      PROVE  Applied(l[x.gen + 1], x) \in G /\ Applied(l[x.gen + 1], x).gen = x.gen + 1
  <2> DEFINE c == l[x.gen + 1]
             a == Applied(c, x)
  <2>1. c \in CommandType
    BY <1>0, <1>4, LogFacts
  <2>2. /\ a \in RuntimeType /\ a.gen = x.gen + 1 /\ a.sealed = x.sealed
        /\ a.decision = x.decision
        /\ a.hard = IF c.action = "extend" THEN x.hard + ExtendBy(x, c) ELSE x.hard
    BY <2>1, AppliedFacts
  <2>3. Trusts(a, l)
    BY <1>0, <1>4, AppliedTrusts
  <2>4. a.hard \in Budget .. MaxExtension
    <3>1. x.gen + 1 \in 0 .. Len(l) /\ a.hard = HardAfter(l)[a.gen]
      BY <1>0, <1>4, <2>3 DEF Trusts, ReadFrom
    <3> HIDE DEF a
    <3> QED BY <1>0, <2>2, <3>1, HardDefined
  <2> HIDE DEF a
  <2> QED BY <2>2, <2>3, <2>4 DEF a
<1> HIDE DEF G
<1>5. s \in G
  <2>1. Replayed(l, r) \in G
    BY <1>0, <1>3, <1>4, ReplayRule
  <2> QED BY <1>2, <2>1
<1>6. Trusts(s, l) /\ s.sealed = r.sealed /\ s.decision = r.decision /\ s \in RuntimeType
  BY <1>5 DEF G
<1>7. s.known = l
  <2>1. Begins(s.known, l) /\ Len(l) <= Len(s.known)
    BY <1>2, <1>6 DEF Trusts, ReadFrom
  <2>2. s.known \in Seq(CommandType)
    BY <1>6 DEF RuntimeType
  <2> QED BY <1>0, <2>1, <2>2, BeginsSame
<1> QED BY <1>2, <1>6, <1>7 DEF s

\* Once all of the log is applied, the runtime control knows what it says.
LEMMA TrustsWhole ==
  ASSUME NEW l \in Seq(CommandType), NEW r \in RuntimeType, Trusts(r, l), r.gen = Len(l)
  PROVE  /\ r.cancel <=> Has(l, "cancel")
         /\ r.stopped <=> StopAsked(l)
         /\ r.constrained <=> Contained(l)
         /\ Enforce => r.level = LogLevel(l)
         /\ r.hard = HardAfter(l)[Len(l)]
         /\ \A i \in Breakers(l) : i <= r.gen
<1>0. /\ Len(l) \in Nat /\ DOMAIN l = 1 .. Len(l) /\ Breakers(l) \subseteq 1 .. Len(l)
      /\ r.stopped \in BOOLEAN /\ r.constrained \in BOOLEAN /\ r.cancel \in BOOLEAN
  BY LogFacts DEF RuntimeType
<1>1. \A i \in Breakers(l) : i <= r.gen
  BY <1>0
<1>2. r.cancel <=> Has(l, "cancel")
  <2>1. Has(l, "cancel") => r.cancel
    BY <1>0 DEF Has, Trusts, CancelFrom
  <2>2. r.cancel => Has(l, "cancel")
    BY DEF Trusts, CancelFrom
  <2> QED BY <2>1, <2>2
<1>3. r.stopped <=> StopAsked(l)
  <2>1. StopAsked(l) => r.stopped
    BY <1>1 DEF StopAsked, Trusts, StopFrom
  <2>2. r.stopped => StopAsked(l)
    BY DEF Trusts, StopFrom
  <2> QED BY <2>1, <2>2
<1>4. r.constrained <=> Contained(l)
  <2>1. CASE Enforce
    <3>1. (Contained(l) <=> Upheld(l, r.gen)) /\ (Contained(l) <=> ContainedAt(l, r.gen))
      BY <1>0, <1>1, <2>1, UpheldWhole
    <3>2. (r.constrained => Upheld(l, r.gen)) /\ (ContainedAt(l, r.gen) => r.constrained)
      BY <2>1 DEF Trusts, HoldFrom
    <3> QED BY <3>1, <3>2
  <2>2. CASE ~Enforce
    <3>1. ~r.constrained
      BY <2>2 DEF Trusts, HoldFrom
    <3>2. ~Contained(l)
      BY <2>2 DEF Contained
    <3> QED BY <3>1, <3>2
  <2> QED BY <2>1, <2>2
<1>5. Enforce => r.level = LogLevel(l)
  <2> SUFFICES ASSUME Enforce PROVE r.level = LogLevel(l)
    OBVIOUS
  <2>1. CASE Breakers(l) = {}
    <3>1. r.level = Healthy
      BY <2>1 DEF Trusts, LevelFrom
    <3>2. LevelAt(l, Len(l)) = Healthy
      BY <1>0, <2>1, LevelFacts
    <3> QED BY <3>1, <3>2 DEF LogLevel
  <2>2. CASE Breakers(l) # {}
    <3>1. \E i \in Breakers(l) : i <= r.gen
      BY <1>1, <2>2
    <3> QED BY <3>1 DEF Trusts, LevelFrom, LogLevel
  <2> QED BY <2>1, <2>2
<1>6. r.hard = HardAfter(l)[Len(l)]
  BY DEF Trusts, ReadFrom
<1> QED BY <1>1, <1>2, <1>3, <1>4, <1>5, <1>6

\* A seal that says what the commands it knows ask for.
SealTrust(s, l) ==
  /\ Begins(s.known, l) /\ s.known # << >>
  /\ s.cancel <=> Has(s.known, "cancel")
  /\ s.stopped <=> StopAsked(s.known)
  /\ s.constrained <=> Contained(s.known)
  /\ Enforce => s.level = LogLevel(s.known)

LEMMA SealTrusts ==
  ASSUME NEW n \in Nat, NEW l, LogTo(l, n), NEW r, RuntimeFits(r, n), ~r.untrusted,
         Trusts(r, l), r.gen = Len(l), r.known = l, l # << >>
  PROVE  SealOf(r) \in SealType /\ SealTrust(SealOf(r), l) /\ SealOf(r).known = l
<1>1. l \in Seq(CommandType) /\ r \in RuntimeType /\ Len(l) \in Nat
  BY LogFacts DEF LogTo, RuntimeFits
<1>2. SealOf(r) \in SealType /\ SealOf(r).known \in Seq(CommandType)
      /\ Len(SealOf(r).known) = Len(l) /\ Begins(SealOf(r).known, l)
  BY SealFits
<1>3. SealOf(r).known = l
  BY <1>1, <1>2, BeginsSame
<1>4. /\ SealOf(r).cancel = r.cancel /\ SealOf(r).stopped = r.stopped
      /\ SealOf(r).constrained = r.constrained /\ SealOf(r).level = r.level
  BY DEF SealOf
<1>5. /\ r.cancel <=> Has(l, "cancel")
      /\ r.stopped <=> StopAsked(l)
      /\ r.constrained <=> Contained(l)
      /\ Enforce => r.level = LogLevel(l)
  BY <1>1, TrustsWhole
<1> QED BY <1>2, <1>3, <1>4, <1>5 DEF SealTrust

-----------------------------------------------------------------------------
(* The inductive invariant: log, seal, heartbeat and runtime control agree. *)

BeatTrust(b, l) ==
  /\ b.cancel => Has(l, "cancel")
  /\ ~b.untrusted => b.gen <= Len(l) /\ DecisionFrom(b.decision, l)

\* What the ended attempts knew, r knows.
Knows(r) ==
  /\ "cancel" \in seen => r.cancel
  /\ "containment" \in seen => Containing(r)

LooksAt == Looked /\ ~rt.untrusted

RuntimeIntact(l) ==
  rt # NoRuntime => IF rt.untrusted THEN rt.cancel => Has(l, "cancel") ELSE Trusts(rt, l)

FilesIntact(l) ==
  /\ seal \in SealType => SealTrust(seal, l)
  /\ beat \in BeatType => BeatTrust(beat, l)

HistoryIntact(l) ==
  /\ "cancel" \in seen => Has(l, "cancel")
  /\ "containment" \in seen => Contained(l) \/ StopAsked(l)
  /\ promised <= HardAfter(l)[Len(l)]

LookIntact(l) ==
  /\ (rt # NoRuntime /\ (Looked \/ rt.untrusted)) => Knows(rt)
  /\ LooksAt => promised <= rt.hard /\ \A i \in Breakers(l) : i <= rt.gen

\* Everything kept goes back to log l.
Intact(l) == RuntimeIntact(l) /\ FilesIntact(l) /\ HistoryIntact(l) /\ LookIntact(l)

LEMMA SealLater ==
  ASSUME NEW l \in Seq(CommandType), NEW m \in Seq(CommandType), Begins(l, m),
         NEW s \in SealType, SealTrust(s, l)
  PROVE  SealTrust(s, m)
<1>1. s.known \in Seq(CommandType)
  BY DEF SealType
<1>2. Begins(s.known, m)
  BY <1>1, BeginsLonger DEF SealTrust
<1> QED BY <1>2 DEF SealTrust

LEMMA BeatLater ==
  ASSUME NEW l \in Seq(CommandType), NEW m \in Seq(CommandType), Begins(l, m),
         NEW b \in BeatType, BeatTrust(b, l)
  PROVE  BeatTrust(b, m)
<1>1. b.gen \in Nat /\ Len(l) \in Nat /\ Len(m) \in Nat /\ Len(l) <= Len(m)
  BY LogFacts DEF BeatType, Begins
<1>2. Has(l, "cancel") => Has(m, "cancel")
  BY BeginsFacts
<1>3. DecisionFrom(b.decision, l) => DecisionFrom(b.decision, m)
  BY DecisionLater
<1> QED BY <1>1, <1>2, <1>3 DEF BeatTrust

\* A log that grows by no transition of the breaker is as good.
LEMMA IntactGrows ==
  ASSUME NEW l \in Seq(CommandType), NEW m \in Seq(CommandType), Begins(l, m),
         \A i \in Breakers(m) : i <= Len(l), Intact(l), JobTypes
  PROVE  Intact(m)
<1>0. Len(l) \in Nat /\ Len(m) \in Nat /\ Len(l) <= Len(m)
  BY LogFacts DEF Begins
<1>1. Has(l, "cancel") => Has(m, "cancel")
  BY BeginsFacts
<1>2. RuntimeIntact(m)
  <2> SUFFICES ASSUME rt # NoRuntime
               PROVE  IF rt.untrusted THEN rt.cancel => Has(m, "cancel") ELSE Trusts(rt, m)
    BY DEF RuntimeIntact
  <2>1. rt \in RuntimeType
    BY DEF JobTypes, RuntimeIn, RuntimeFits
  <2> QED BY <1>1, <2>1, TrustsLater DEF Intact, RuntimeIntact
<1>3. FilesIntact(m)
  BY SealLater, BeatLater DEF Intact, FilesIntact
<1>4. HistoryIntact(m)
  <2>1. Contained(l) \/ StopAsked(l) => Contained(m) \/ StopAsked(m)
    BY ContainedBegins, BeginsFacts
  <2>2. promised <= HardAfter(m)[Len(m)]
    <3>1. HardAfter(l)[Len(l)] = HardAfter(m)[Len(l)]
      BY <1>0, HardBegins
    <3>2. HardAfter(m)[Len(l)] <= HardAfter(m)[Len(m)]
      BY <1>0, HardGrows
    <3>3. HardAfter(m)[Len(l)] \in Nat /\ HardAfter(m)[Len(m)] \in Nat
      BY <1>0, HardDefined, JobAssumption
    <3>4. promised \in Nat /\ promised <= HardAfter(l)[Len(l)]
      BY JobAssumption DEF JobTypes, FilesFit, Intact, HistoryIntact
    <3> QED BY <3>1, <3>2, <3>3, <3>4
  <2> QED BY <1>1, <2>1, <2>2 DEF Intact, HistoryIntact
<1>5. LookIntact(m)
  <2>1. Breakers(m) = Breakers(l)
    <3>1. Breakers(l) = {i \in Breakers(m) : i <= Len(l)}
      BY BeginsFacts
    <3>2. \A i \in Breakers(m) : i <= Len(l)
      OBVIOUS
    <3> QED BY ONLY <3>1, <3>2
  <2> QED BY <2>1 DEF Intact, LookIntact
<1> QED BY <1>2, <1>3, <1>4, <1>5 DEF Intact

LEMMA IntactSame ==
  ASSUME NEW l, Intact(l)'
  PROVE  /\ log' = l => Intact(log)'
BY DEF Intact, RuntimeIntact, FilesIntact, HistoryIntact, LookIntact

LEMMA PublishedTrust ==
  ASSUME NEW l \in Seq(CommandType), Intact(l), JobTypes, rt # NoRuntime
  PROVE  BeatTrust(Published(rt), l)
<1>1. rt \in RuntimeType /\ RuntimeFits(rt, made)
  BY DEF JobTypes, RuntimeIn, RuntimeFits
<1>2. /\ Published(rt).gen = rt.gen /\ Published(rt).cancel = rt.cancel
      /\ Published(rt).untrusted = rt.untrusted /\ Published(rt).decision = rt.decision
  BY <1>1, PublishedFacts
<1>3. IF rt.untrusted THEN rt.cancel => Has(l, "cancel") ELSE Trusts(rt, l)
  BY DEF Intact, RuntimeIntact
<1>4. CASE rt.untrusted
  BY <1>2, <1>3, <1>4 DEF BeatTrust
<1>5. CASE ~rt.untrusted
  <2>1. Begins(rt.known, l) /\ rt.gen <= Len(rt.known) /\ (rt.cancel => Has(l, "cancel"))
        /\ DecisionFrom(rt.decision, l)
    BY <1>3, <1>5 DEF Trusts, ReadFrom, CancelFrom
  <2>2. rt.gen \in Nat /\ Len(rt.known) \in Nat /\ Len(l) \in Nat
    BY <1>1, LogFacts DEF RuntimeType
  <2>3. rt.gen <= Len(l)
    BY <2>1, <2>2 DEF Begins
  <2> QED BY <1>2, <2>1, <2>3 DEF BeatTrust
<1> QED BY <1>4, <1>5

LEMMA PublishIntact ==
  ASSUME NEW l \in Seq(CommandType), Intact(l), JobTypes, rt # NoRuntime, Publish,
         UNCHANGED seal
  PROVE  FilesIntact(l)'
<1>1. beat' \in BeatType => BeatTrust(beat', l)
  BY PublishedTrust DEF Publish, Intact, FilesIntact
<1> QED BY <1>1 DEF Intact, FilesIntact

\* What a trusting attempt contains for, the log asks for.
LEMMA ContainingIntact ==
  ASSUME NEW l \in Seq(CommandType), Intact(l), JobTypes, rt # NoRuntime, LooksAt,
         Containing(rt)
  PROVE  Contained(l) \/ StopAsked(l)
<1>1. Trusts(rt, l) /\ \A i \in Breakers(l) : i <= rt.gen
  BY DEF Intact, RuntimeIntact, LookIntact, LooksAt
<1>2. rt.gen \in Nat
  BY DEF JobTypes, RuntimeIn, RuntimeFits, RuntimeType
<1>3. CASE rt.stopped
  BY <1>1, <1>3 DEF Trusts, StopFrom
<1>4. CASE rt.constrained
  <2>1. Enforce /\ Upheld(l, rt.gen)
    BY <1>1, <1>4 DEF Trusts, HoldFrom
  <2> QED BY <1>1, <1>2, <2>1, UpheldWhole
<1> QED BY <1>3, <1>4 DEF Containing

\* The end of an attempt, whose knowledge becomes history.
LEMMA EndIntact ==
  ASSUME NEW l \in Seq(CommandType), Intact(l), JobTypes, rt # NoRuntime,
         NEW how, EndAttempt(how), how = "contained" => (Looked /\ Containing(rt)),
         FilesIntact(l)', UNCHANGED promised
  PROVE  Intact(l)'
<1>1. /\ rt' = NoRuntime
      /\ "cancel" \in seen' => "cancel" \in seen \/ rt.cancel
      /\ "containment" \in seen' => "containment" \in seen \/ (how = "contained" /\ ~rt.untrusted)
      /\ pc' \in {"over", "repair", "ready"}
  BY DEF EndAttempt
<1>2. RuntimeIntact(l)'
  BY <1>1 DEF RuntimeIntact
<1>3. rt.cancel => Has(l, "cancel")
  BY DEF Intact, RuntimeIntact, Trusts, CancelFrom
<1>4. (how = "contained" /\ ~rt.untrusted) => Contained(l) \/ StopAsked(l)
  BY ContainingIntact DEF LooksAt
<1>5. HistoryIntact(l)'
  BY <1>1, <1>3, <1>4 DEF Intact, HistoryIntact
<1>6. LookIntact(l)'
  BY <1>1 DEF LookIntact, LooksAt, Looked
<1> QED BY <1>2, <1>5, <1>6 DEF Intact

\* What an attempt finds in seal and heartbeat is true to the log, and what it
\* could not find there it finds in the log itself.
LEMMA LoadIntact ==
  ASSUME NEW l \in Seq(CommandType), Intact(l), JobTypes, ValidCommands(log), Load,
         ~Loaded.untrusted \/ l = log
  PROVE  Intact(l)'
<1>1. /\ UNCHANGED <<log, seal, beat, seen, promised>>
      /\ pc' = "polling" /\ rt' = Loaded
  BY DEF Load, files
<1>2. /\ now \in Nat /\ seal \in SealType \cup {NoSeal, Damaged}
      /\ beat \in BeatType \cup {NoBeat, Damaged} /\ log \in Seq(CommandType)
  BY DEF JobTypes, FilesFit, RestIn, LogTo
<1> DEFINE intact == Loaded.untrusted /\ ValidCommands(log)
           d == Shown.decision
<1>3. /\ Loaded \in RuntimeType /\ Loaded.known = Kept.known
      /\ Loaded.hard = Budget /\ ~Loaded.decision.enforced
      /\ ~Loaded.untrusted => Loaded.gen = 0
      /\ Loaded.sealed = IF Shown.gen > Len(Kept.known) THEN Shown.gen ELSE Len(Kept.known)
      /\ Loaded.untrusted <=> (seal = Damaged \/ beat = Damaged \/ Shown.untrusted)
      /\ Loaded.cancel <=> (Kept.cancel \/ Shown.cancel \/ (intact /\ Has(log, "cancel")))
      /\ Loaded.constrained <=> (Kept.constrained \/ (d.enforced /\ d.level = Constrained)
                                 \/ (intact /\ Contained(log)))
      /\ Loaded.stopped <=> (Kept.stopped \/ (d.enforced /\ d.level = Stopped)
                             \/ (intact /\ StopAsked(log)))
      /\ ~Loaded.untrusted => Loaded.level = IF d.enforced /\ d.level > Kept.level
                                                THEN d.level ELSE Kept.level
  BY <1>2, LoadedFacts
<1> HIDE DEF intact, d, Loaded
<1>4. /\ Kept.known \in Seq(CommandType) /\ Kept.level \in Levels /\ Len(Kept.known) \in Nat
      /\ Len(l) \in Nat /\ Shown.gen \in Nat
      /\ Breakers(l) \subseteq 1 .. Len(l)
  BY KeptFacts, LogFacts
\* The seal is true to l.
<1>5. /\ Begins(Kept.known, l)
      /\ Kept.cancel => Has(l, "cancel")
      /\ Kept.stopped => StopAsked(l)
      /\ Kept.constrained => Enforce /\ \E i \in Breakers(l) : l[i].to = Constrained
      /\ (Enforce /\ Breakers(l) = {}) => Kept.level = Healthy
  <2>1. CASE seal \in SealType
    <3>1. Kept = seal /\ SealTrust(seal, l)
      BY <2>1 DEF Kept, Intact, FilesIntact
    <3>2. /\ Begins(Kept.known, l) /\ (Kept.cancel => Has(Kept.known, "cancel"))
          /\ (Kept.stopped => StopAsked(Kept.known)) /\ (Kept.constrained => Contained(Kept.known))
          /\ (Enforce => Kept.level = LogLevel(Kept.known))
      BY <3>1 DEF SealTrust
    <3>3. /\ Breakers(Kept.known) = {i \in Breakers(l) : i <= Len(Kept.known)}
          /\ (\A i \in 1 .. Len(Kept.known) : i \in 1 .. Len(l) /\ Kept.known[i] = l[i])
          /\ (Has(Kept.known, "cancel") => Has(l, "cancel"))
          /\ (StopAsked(Kept.known) => StopAsked(l))
      BY <1>4, <3>2, BeginsFacts
    <3>4. Contained(Kept.known) => Enforce /\ \E i \in Breakers(l) : l[i].to = Constrained
      <4>1. Breakers(Kept.known) \subseteq 1 .. Len(Kept.known)
        BY <1>4, LogFacts
      <4> QED BY <3>3, <4>1 DEF Contained
    <3>5. Breakers(l) = {} => LogLevel(Kept.known) = Healthy
      <4>1. Breakers(l) = {} => Breakers(Kept.known) = {}
        BY <3>3
      <4> QED BY <1>4, <4>1, LevelFacts DEF LogLevel
    <3> QED BY <3>2, <3>3, <3>4, <3>5
  <2>2. CASE seal \notin SealType
    <3>1. Kept.known = << >> /\ Kept.cancel = FALSE /\ Kept.stopped = FALSE
          /\ Kept.constrained = FALSE /\ Kept.level = Healthy
      BY <2>2 DEF Kept
    <3> QED BY <3>1, BeginsItself
  <2> QED BY <2>1, <2>2
\* So is the heartbeat.
<1>6. /\ Shown.cancel => Has(l, "cancel")
      /\ ~Shown.untrusted => Shown.gen <= Len(l) /\ DecisionFrom(d, l)
  <2>1. CASE beat \in BeatType
    <3>1. Shown = beat /\ BeatTrust(beat, l)
      BY <2>1 DEF Shown, Intact, FilesIntact
    <3> QED BY <3>1 DEF BeatTrust, d
  <2>2. CASE beat \notin BeatType
    <3>1. Shown.cancel = FALSE /\ Shown.gen = 0 /\ ~d.enforced
      BY <2>2 DEF Shown, d, Decision
    <3> QED BY <1>4, <3>1 DEF DecisionFrom
  <2> QED BY <2>1, <2>2
<1>7. RuntimeIntact(l)'
  <2>1. CASE Loaded.untrusted
    <3>1. l = log
      BY <2>1
    <3>2. Loaded.cancel => Has(l, "cancel")
      BY <1>3, <1>5, <1>6, <3>1
    <3> QED BY <1>1, <2>1, <3>2 DEF RuntimeIntact
  <2>2. CASE ~Loaded.untrusted
    <3>1. ~Shown.untrusted /\ ~intact /\ Loaded.gen = 0
      BY <1>3, <2>2 DEF intact
    <3>2. ReadFrom(Loaded, l)
      <4>1. Len(Kept.known) <= Len(l)
        BY <1>5 DEF Begins
      <4>2. Loaded.sealed <= Len(l)
        BY <1>3, <1>4, <1>6, <3>1, <4>1
      <4>3. Loaded.gen <= Len(Loaded.known)
        BY <1>3, <1>4, <3>1
      <4> QED BY <1>3, <1>5, <3>1, <4>2, <4>3, HardDefined DEF ReadFrom
    <3>3. CancelFrom(Loaded, l)
      <4>1. 1 .. Loaded.gen = {}
        BY <3>1
      <4> QED BY <1>3, <1>5, <1>6, <3>1, <4>1 DEF CancelFrom
    <3>4. \A i \in Breakers(l) : ~(i <= Loaded.gen)
      BY <1>4, <3>1
    <3>5. d.enforced => Enforce /\ \E i \in Breakers(l) : l[i].to = d.level
      BY <1>6, <3>1 DEF DecisionFrom
    <3>6. StopFrom(Loaded, l)
      BY <1>3, <1>5, <3>1, <3>4, <3>5 DEF StopFrom, StopAsked
    <3>7. HoldFrom(Loaded, l)
      <4>1. (\E i \in Breakers(l) : l[i].to = Constrained) => Upheld(l, Loaded.gen)
        BY <3>4 DEF Upheld
      <4>2. ~ContainedAt(l, Loaded.gen)
        BY <3>4 DEF ContainedAt
      <4> QED BY <1>3, <1>5, <3>1, <3>5, <4>1, <4>2 DEF HoldFrom
    <3>8. LevelFrom(Loaded, l)
      <4>1. ASSUME Enforce, Breakers(l) = {} PROVE Loaded.level = Healthy
        BY <1>3, <1>5, <2>2, <3>5, <4>1
      <4> QED BY <3>4, <4>1 DEF LevelFrom
    <3>9. DecisionFrom(Loaded.decision, l)
      BY <1>3 DEF DecisionFrom
    <3> QED BY <1>1, <2>2, <3>2, <3>3, <3>6, <3>7, <3>8, <3>9 DEF RuntimeIntact, Trusts
  <2> QED BY <2>1, <2>2
<1>8. FilesIntact(l)' /\ HistoryIntact(l)'
  BY <1>1 DEF Intact, FilesIntact, HistoryIntact
<1>9. LookIntact(l)'
  <2>1. ~Looked'
    BY <1>1 DEF Looked
  <2>2. ASSUME Loaded.untrusted PROVE Knows(rt)'
    <3>1. l = log
      BY <2>2
    <3>2. "cancel" \in seen => Loaded.cancel
      BY <1>3, <2>2, <3>1 DEF intact, Intact, HistoryIntact
    <3>3. "containment" \in seen => Containing(Loaded)
      BY <1>3, <2>2, <3>1 DEF intact, Intact, HistoryIntact, Containing, Contained, StopAsked
    <3> QED BY <1>1, <3>2, <3>3 DEF Knows, Containing
  <2> QED BY <1>1, <2>1, <2>2 DEF LookIntact, LooksAt
<1> QED BY <1>7, <1>8, <1>9 DEF Intact

\* A refresh keeps everything true to the log, and brings the attempt up to it.
LEMMA StoreIntact ==
  ASSUME NEW n \in Nat, NEW m, LogTo(m, n), ValidCommands(m), NEW r, RuntimeFits(r, n),
         IF r.untrusted
           THEN /\ r.cancel => Has(m, "cancel")
                /\ "cancel" \in seen' => r.cancel
                /\ "containment" \in seen' => Containing(r)
           ELSE Trusts(r, m),
         FilesIntact(m), UNCHANGED beat,
         "cancel" \in seen' => Has(m, "cancel"),
         "containment" \in seen' => Contained(m) \/ StopAsked(m),
         promised \in Nat, r.hard <= promised, promised <= HardAfter(m)[Len(m)],
         StoreRefresh(m, r)
  PROVE  /\ Intact(m)'
         /\ r.untrusted => rt' = r /\ UNCHANGED <<seal, faults>>
         /\ ~r.untrusted =>
              /\ ~rt'.untrusted /\ rt'.gen = Len(m) /\ rt'.known = m
              /\ Enforce => rt'.level = LogLevel(m)
              /\ \/ seal' \in SealType /\ seal'.known = m /\ rt'.sealed = Len(m)
                    /\ UNCHANGED faults
                 \/ seal' = seal /\ rt'.sealed = r.sealed
                    /\ (UNCHANGED faults => Len(m) <= r.sealed)
                    /\ (faults' = faults \/ faults' = faults + 1)
<1> DEFINE s == Refreshed(m, r)
<1>0. m \in Seq(CommandType) /\ r \in RuntimeType /\ Len(m) \in Nat
  BY LogFacts DEF LogTo, RuntimeFits
<1>1. promised' = IF s.hard > promised THEN s.hard ELSE promised
  BY DEF StoreRefresh
<1>2. IF ~s.untrusted /\ s.gen > s.sealed
        THEN \/ seal' = SealOf(s) /\ rt' = [s EXCEPT !.sealed = s.gen] /\ faults' = faults
             \/ faults' = faults + 1 /\ faults < MaxFaults /\ rt' = s /\ seal' = seal
        ELSE rt' = s /\ seal' = seal /\ faults' = faults
  BY DEF StoreRefresh
<1>3. CASE r.untrusted
  <2>1. s = r
    BY <1>3 DEF Refreshed
  <2> HIDE DEF s
  <2>2. rt' = r /\ seal' = seal /\ faults' = faults
    BY <1>2, <1>3, <2>1
  <2>3. RuntimeIntact(m)'
    BY <1>3, <2>2 DEF RuntimeIntact
  <2>4. FilesIntact(m)'
    BY <2>2 DEF FilesIntact
  <2>5. HistoryIntact(m)'
    <3>1. r.hard \in Nat /\ ~(r.hard > promised)
      BY <1>0 DEF RuntimeType
    <3>2. promised' = promised
      BY <1>1, <2>1, <3>1
    <3> QED BY <3>2 DEF HistoryIntact
  <2>6. LookIntact(m)'
    BY <1>3, <2>2 DEF LookIntact, LooksAt, Knows
  <2> QED BY <1>3, <2>2, <2>3, <2>4, <2>5, <2>6 DEF Intact
<1>4. CASE ~r.untrusted
  <2>1. /\ RuntimeFits(s, n) /\ ~s.untrusted /\ s.gen = Len(m) /\ s.known = m
        /\ Trusts(s, m) /\ s.sealed = r.sealed
    BY <1>4, RefreshTrusts
  <2>2. s \in RuntimeType /\ s.sealed \in Nat
    BY <2>1 DEF RuntimeFits, RuntimeType
  <2> HIDE DEF s
  <2>3. /\ s.cancel <=> Has(m, "cancel")
        /\ s.stopped <=> StopAsked(m)
        /\ s.constrained <=> Contained(m)
        /\ Enforce => s.level = LogLevel(m)
        /\ s.hard = HardAfter(m)[Len(m)]
        /\ \A i \in Breakers(m) : i <= s.gen
    BY <1>0, <2>1, <2>2, TrustsWhole
  <2> DEFINE t == [s EXCEPT !.sealed = s.gen]
  <2>4. /\ t \in RuntimeType /\ t.gen = s.gen /\ t.sealed = s.gen /\ t.known = s.known
        /\ t.untrusted = s.untrusted /\ t.hard = s.hard /\ t.level = s.level
        /\ t.cancel = s.cancel /\ t.constrained = s.constrained /\ t.stopped = s.stopped
        /\ t.decision = s.decision
    BY <2>2 DEF RuntimeType
  <2> HIDE DEF t
  <2>5. Trusts(t, m)
    <3>1. ReadFrom(t, m)
      BY <1>0, <2>1, <2>4 DEF Trusts, ReadFrom
    <3> QED BY <2>1, <2>4, <3>1
        DEF Trusts, CancelFrom, StopFrom, HoldFrom, LevelFrom
  <2>6. rt' \in {s, t}
    BY <1>2 DEF t
  <2>7. /\ Trusts(rt', m) /\ ~rt'.untrusted /\ rt'.gen = Len(m) /\ rt'.known = m
        /\ rt'.hard = s.hard /\ (Enforce => rt'.level = LogLevel(m))
        /\ (rt'.cancel <=> Has(m, "cancel")) /\ (rt'.stopped <=> StopAsked(m))
        /\ (rt'.constrained <=> Contained(m))
    <3>1. CASE rt' = s
      BY <2>1, <2>3, <3>1
    <3>2. CASE rt' = t
      BY <2>1, <2>3, <2>4, <2>5, <3>2
    <3> QED BY <2>6, <3>1, <3>2
  <2>8. \/ seal' \in SealType /\ seal'.known = m /\ rt'.sealed = Len(m) /\ faults' = faults
           /\ SealTrust(seal', m)
        \/ seal' = seal /\ rt'.sealed = r.sealed /\ (faults' = faults => Len(m) <= r.sealed)
           /\ (faults' = faults \/ faults' = faults + 1)
    <3>1. CASE ~s.untrusted /\ s.gen > s.sealed /\ seal' = SealOf(s) /\ rt' = t /\ faults' = faults
      <4>1. m # << >>
        BY <1>0, <2>1, <2>2, <3>1, NoLogFacts
      <4>2. SealOf(s) \in SealType /\ SealTrust(SealOf(s), m) /\ SealOf(s).known = m
        BY <2>1, <4>1, SealTrusts
      <4> QED BY <2>1, <2>4, <3>1, <4>2
    <3>2. CASE faults' = faults + 1 /\ faults < MaxFaults /\ rt' = s /\ seal' = seal
      BY <1>4, <2>1, <3>2
    <3>3. CASE ~(~s.untrusted /\ s.gen > s.sealed) /\ rt' = s /\ seal' = seal /\ faults' = faults
      <4>1. Len(m) <= r.sealed
        BY <1>0, <2>1, <2>2, <3>3
      <4> QED BY <2>1, <3>3, <4>1
    <3> QED BY <1>2, <3>1, <3>2, <3>3 DEF t
  <2>9. RuntimeIntact(m)'
    BY <2>7 DEF RuntimeIntact
  <2>10. FilesIntact(m)'
    BY <2>8 DEF FilesIntact
  <2>11. promised' = s.hard
    <3>1. s.hard \in Nat
      BY <2>2 DEF RuntimeType
    <3> QED BY <1>1, <2>3, <3>1
  <2>12. HistoryIntact(m)' /\ promised' <= rt'.hard
    <3>1. s.hard \in Nat
      BY <2>2 DEF RuntimeType
    <3>2. promised' <= s.hard
      BY <2>11, <3>1
    <3> QED BY <2>3, <2>7, <3>2 DEF HistoryIntact
  <2>13. Knows(rt)'
    BY <2>7 DEF Knows, Containing, Contained, StopAsked
  <2>14. LookIntact(m)'
    BY <2>1, <2>3, <2>7, <2>12, <2>13 DEF LookIntact
  <2> QED BY <1>4, <2>7, <2>8, <2>9, <2>10, <2>12, <2>14 DEF Intact
<1> QED BY <1>3, <1>4

\* An enforcing breaker goes on from the level that the attempt has read.
Levelled ==
  (Enforce /\ LooksAt) => breaker = rt.level /\ rt.level = LevelAt(rt.known, rt.gen)

\* What record_breaker keeps in memory makes no attempt forget.
LEMMA RememberKnows ==
  ASSUME NEW r \in RuntimeType, Alike(rt, r), breaker \in Levels, NEW to \in Levels,
         to = breaker \/ r.untrusted \/ ~Enforce, rt' = Remembered(r, breaker, to),
         seen' = IF breaker # Healthy /\ to = Healthy THEN seen \ {"containment"} ELSE seen
  PROVE  /\ rt' \in RuntimeType
         /\ rt'.gen = rt.gen /\ rt'.sealed = rt.sealed /\ rt'.known = rt.known
         /\ rt'.untrusted = rt.untrusted /\ rt'.hard = rt.hard /\ rt'.level = to
         /\ rt'.cancel = rt.cancel /\ rt'.decision = Decision(breaker, to)
         /\ ~rt.untrusted => /\ rt'.constrained <=> rt.constrained
                             /\ rt'.stopped <=> rt.stopped
         /\ Knows(rt) => Knows(rt)'
<1>1. /\ r.gen = rt.gen /\ r.sealed = rt.sealed /\ r.known = rt.known /\ r.untrusted = rt.untrusted
      /\ r.hard = rt.hard /\ r.cancel = rt.cancel /\ r.constrained = rt.constrained
      /\ r.stopped = rt.stopped
  BY DEF Alike
<1> DEFINE s == Remembered(r, breaker, to)
           e == Enforce /\ breaker # to
<1>2. /\ s \in RuntimeType /\ s.decision = Decision(breaker, to)
      /\ s.gen = r.gen /\ s.sealed = r.sealed /\ s.known = r.known
      /\ s.untrusted = r.untrusted /\ s.hard = r.hard /\ s.level = to /\ s.cancel = r.cancel
      /\ s.constrained <=> IF ~e THEN r.constrained
                           ELSE (to = Constrained \/ (r.constrained /\ to # Healthy))
      /\ s.stopped <=> (r.stopped \/ (e /\ to = Stopped))
  BY RememberedFacts
<1>3. rt' = s
  OBVIOUS
<1> HIDE DEF s
<1>4. ~rt.untrusted => /\ rt'.constrained <=> rt.constrained
                       /\ rt'.stopped <=> rt.stopped
  BY <1>1, <1>2, <1>3
<1>5. ASSUME Knows(rt) PROVE Knows(rt)'
  <2>1. "cancel" \in seen' => rt'.cancel
    BY <1>1, <1>2, <1>3, <1>5 DEF Knows
  <2>2. "containment" \in seen' => Containing(rt')
    <3> SUFFICES ASSUME "containment" \in seen' PROVE Containing(rt')
      OBVIOUS
    <3>1. "containment" \in seen /\ ~(breaker # Healthy /\ to = Healthy)
      OBVIOUS
    <3>2. Enforce /\ (rt.stopped \/ rt.constrained)
      BY <1>5, <3>1 DEF Knows, Containing
    <3>3. CASE rt.stopped
      BY <1>1, <1>2, <1>3, <3>2, <3>3 DEF Containing
    <3>4. CASE rt.constrained
      <4>1. e => to # Healthy
        BY <3>1
      <4>2. s.constrained
        BY <1>1, <1>2, <3>4, <4>1
      <4> QED BY <1>3, <3>2, <4>2 DEF Containing
    <3> QED BY <3>2, <3>3, <3>4
  <2> QED BY <2>1, <2>2 DEF Knows
<1> QED BY <1>1, <1>2, <1>3, <1>4, <1>5

-----------------------------------------------------------------------------
(* What the steps of the job are for the invariant. *)

LEMMA FilesLater ==
  ASSUME NEW l \in Seq(CommandType), NEW m \in Seq(CommandType), Begins(l, m), FilesIntact(l)
  PROVE  FilesIntact(m)
BY SealLater, BeatLater DEF FilesIntact

LEMMA DeadlineLater ==
  ASSUME NEW l \in Seq(CommandType), NEW m \in Seq(CommandType), Begins(l, m),
         NEW p \in Nat, p <= HardAfter(l)[Len(l)]
  PROVE  p <= HardAfter(m)[Len(m)]
<1>0. Len(l) \in Nat /\ Len(m) \in Nat /\ Len(l) <= Len(m)
  BY LogFacts DEF Begins
<1>1. HardAfter(l)[Len(l)] = HardAfter(m)[Len(l)]
  BY <1>0, HardBegins
<1>2. HardAfter(m)[Len(l)] <= HardAfter(m)[Len(m)]
  BY <1>0, HardGrows
<1>3. HardAfter(m)[Len(l)] \in Nat /\ HardAfter(m)[Len(m)] \in Nat
  BY <1>0, HardDefined, JobAssumption
<1> QED BY <1>1, <1>2, <1>3

\* A log that is left as it is, or grows by one new command.
Grown(m) == m = log \/ \E c \in CommandType : c.id = made + 1 /\ m = Append(log, c)

LEMMA GrownFacts ==
  ASSUME made \in Nat, LogTo(log, made), NEW m, Grown(m)
  PROVE  /\ m \in Seq(CommandType) /\ Begins(log, m)
         /\ (log # << >> /\ m # << >>) => m[1] = log[1]
         /\ (log = << >> /\ m # << >>) => m[1].id = made + 1
<1>1. log \in Seq(CommandType) /\ Len(log) \in Nat /\ (log = << >> <=> Len(log) = 0)
  BY LogFacts DEF LogTo
<1>2. CASE m = log
  BY <1>1, <1>2, BeginsItself
<1>3. ASSUME NEW c \in CommandType, c.id = made + 1, m = Append(log, c)
      PROVE  /\ m \in Seq(CommandType) /\ Begins(log, m)
             /\ log # << >> => m[1] = log[1]
             /\ log = << >> => m[1].id = made + 1
  <2>1. /\ m \in Seq(CommandType) /\ Begins(log, m) /\ m[Len(log) + 1] = c
        /\ \A i \in 1 .. Len(log) : m[i] = log[i]
    BY <1>1, <1>3, Appended
  <2>2. log # << >> => 1 \in 1 .. Len(log)
    BY <1>1
  <2>3. log = << >> => m[1] = c
    BY <1>1, <2>1
  <2> QED BY <1>3, <2>1, <2>2, <2>3
<1> QED BY <1>2, <1>3 DEF Grown

\* An iteration reads log m, the command that it made itself included.
Reading(m, r) ==
  /\ rt # NoRuntime /\ Looked'
  /\ Grown(m) /\ log' = m
  /\ made' \in Nat /\ LogTo(m, made') /\ ValidCommands(m)
  /\ RuntimeFits(r, made') /\ Alike(rt, r)
  /\ DecisionFrom(rt.decision, log) => DecisionFrom(r.decision, m)
  /\ rt.untrusted => m = log
  /\ beat' = beat /\ seen' \subseteq seen
  /\ "containment" \in seen' =>
        (Contained(log) \/ StopAsked(log) => Contained(m) \/ StopAsked(m))
  /\ StoreRefresh(m, r)
  /\ \/ breaker' = rt'.level
     \/ breaker' = LogLevel(m)
     \/ breaker' = breaker /\ LogLevel(m) = LogLevel(log) /\ Looked

\* Afterwards all goes back to the log that was read, unless the log was not
\* trusted before.
LEMMA ReadingIntact ==
  ASSUME JobTypes, Intact(log), NEW m, NEW r, Reading(m, r)
  PROVE  /\ Intact(log)' /\ Intact(m)'
         /\ rt.untrusted => rt'.untrusted /\ rt' = r /\ UNCHANGED <<seal, faults>>
         /\ ~rt.untrusted =>
              /\ ~rt'.untrusted /\ rt'.gen = Len(m) /\ rt'.known = m
              /\ Enforce => rt'.level = LogLevel(m)
              /\ \/ seal' \in SealType /\ seal'.known = m /\ rt'.sealed = Len(m)
                    /\ UNCHANGED faults
                 \/ seal' = seal /\ rt'.sealed = rt.sealed
                    /\ (UNCHANGED faults => Len(m) <= rt.sealed)
<1> DEFINE n == made'
<1>0. /\ n \in Nat /\ LogTo(m, n) /\ ValidCommands(m) /\ RuntimeFits(r, n) /\ Alike(rt, r)
      /\ StoreRefresh(m, r) /\ log' = m /\ beat' = beat /\ rt # NoRuntime
      /\ DecisionFrom(rt.decision, log) => DecisionFrom(r.decision, m)
      /\ rt.untrusted => m = log
      /\ seen' \subseteq seen
      /\ "containment" \in seen' =>
            (Contained(log) \/ StopAsked(log) => Contained(m) \/ StopAsked(m))
  BY DEF Reading
<1>1. /\ m \in Seq(CommandType) /\ Begins(log, m) /\ log \in Seq(CommandType)
  BY GrownFacts DEF Reading, JobTypes, LogTo
<1>2. /\ r.untrusted = rt.untrusted /\ r.cancel = rt.cancel /\ r.hard = rt.hard
      /\ r.stopped = rt.stopped /\ r.constrained = rt.constrained /\ r.sealed = rt.sealed
  BY <1>0 DEF Alike
<1>3. rt \in RuntimeType /\ rt.hard <= promised /\ promised \in Nat
  BY <1>0, JobAssumption DEF JobTypes, RuntimeIn, RuntimeFits, FilesFit
<1>4. IF r.untrusted
        THEN /\ r.cancel => Has(m, "cancel")
             /\ "cancel" \in seen' => r.cancel
             /\ "containment" \in seen' => Containing(r)
        ELSE Trusts(r, m)
  <2>1. CASE rt.untrusted
    <3>1. (rt.cancel => Has(log, "cancel")) /\ Knows(rt)
      BY <1>0, <2>1 DEF Intact, RuntimeIntact, LookIntact
    <3> QED BY <1>0, <1>2, <2>1, <3>1 DEF Knows, Containing
  <2>2. CASE ~rt.untrusted
    <3>1. Trusts(rt, log)
      BY <1>0, <2>2 DEF Intact, RuntimeIntact
    <3>2. Trusts(rt, m)
      BY <1>1, <1>3, <3>1, TrustsLater
    <3>3. DecisionFrom(r.decision, m)
      BY <1>0, <3>1 DEF Trusts
    <3> QED BY <1>0, <1>2, <2>2, <3>2, <3>3, TrustsAlike
  <2> QED BY <2>1, <2>2
<1>5. FilesIntact(m)
  BY <1>1, FilesLater DEF Intact
<1>6. "cancel" \in seen' => Has(m, "cancel")
  BY <1>0, <1>1, BeginsFacts DEF Intact, HistoryIntact
<1>7. "containment" \in seen' => Contained(m) \/ StopAsked(m)
  BY <1>0 DEF Intact, HistoryIntact
<1>8. promised <= HardAfter(m)[Len(m)]
  BY <1>1, <1>3, DeadlineLater DEF Intact, HistoryIntact
<1> HIDE DEF n
<1>9. /\ Intact(m)'
      /\ r.untrusted => rt' = r /\ UNCHANGED <<seal, faults>>
      /\ ~r.untrusted =>
              /\ ~rt'.untrusted /\ rt'.gen = Len(m) /\ rt'.known = m
              /\ Enforce => rt'.level = LogLevel(m)
              /\ \/ seal' \in SealType /\ seal'.known = m /\ rt'.sealed = Len(m)
                    /\ UNCHANGED faults
                 \/ seal' = seal /\ rt'.sealed = r.sealed
                    /\ (UNCHANGED faults => Len(m) <= r.sealed)
                    /\ (faults' = faults \/ faults' = faults + 1)
  BY <1>0, <1>2, <1>3, <1>4, <1>5, <1>6, <1>7, <1>8, StoreIntact
<1>10. Intact(log)'
  BY <1>0, <1>9, IntactSame
<1> QED BY <1>2, <1>9, <1>10

LEMMA ReadingLevelled ==
  ASSUME JobTypes, Intact(log), Levelled, NEW m, NEW r, Reading(m, r)
  PROVE  Levelled'
<1>1. CASE rt.untrusted
  BY <1>1, ReadingIntact DEF Levelled, LooksAt
<1>2. CASE ~rt.untrusted
  <2> SUFFICES ASSUME Enforce
               PROVE  breaker' = rt'.level /\ rt'.level = LevelAt(rt'.known, rt'.gen)
    BY DEF Levelled
  <2>1. rt'.gen = Len(m) /\ rt'.known = m /\ rt'.level = LogLevel(m)
    BY <1>2, ReadingIntact
  <2>2. rt'.level = LevelAt(rt'.known, rt'.gen)
    BY <2>1 DEF LogLevel
  <2>3. CASE breaker' = breaker /\ LogLevel(m) = LogLevel(log) /\ Looked
    <3>1. /\ breaker = LevelAt(rt.known, rt.gen) /\ Trusts(rt, log) /\ rt \in RuntimeType
          /\ (\A i \in Breakers(log) : i <= rt.gen) /\ log \in Seq(CommandType)
      BY <1>2, <2>3 DEF Levelled, LooksAt, Intact, RuntimeIntact, LookIntact, Reading,
                        JobTypes, RuntimeIn, RuntimeFits, LogTo
    <3>2. /\ Begins(rt.known, log) /\ rt.gen <= Len(rt.known) /\ rt.gen \in Nat
          /\ rt.known \in Seq(CommandType)
      BY <3>1 DEF Trusts, ReadFrom, RuntimeType
    <3>3. LevelAt(rt.known, rt.gen) = LevelAt(log, rt.gen)
      BY <3>1, <3>2, LevelBegins
    <3>4. rt.gen <= Len(log) /\ Len(log) \in Nat
      BY <3>1, <3>2, LogFacts DEF Begins
    <3>5. LevelAt(log, Len(log)) = LevelAt(log, rt.gen)
      BY <3>1, <3>2, <3>4, LevelLater
    <3> QED BY <2>1, <2>2, <2>3, <3>1, <3>3, <3>5 DEF LogLevel
  <2> QED BY <2>1, <2>2, <2>3 DEF Reading
<1> QED BY <1>1, <1>2

\* The commands that the seal knows.
Sealed == IF seal \in SealType THEN seal.known ELSE << >>

\* While nothing was lost or damaged: everything goes back to the sealed
\* commands, and the log holds no transition beyond them.
NoFault ==
  /\ Intact(Sealed) /\ Begins(Sealed, log)
  /\ seal # Damaged /\ beat # Damaged
  /\ beat # NoBeat => ~beat.untrusted
  /\ rt # NoRuntime => /\ ~rt.untrusted /\ rt.known = Sealed /\ Knows(rt)
                       /\ rt.sealed >= Len(Sealed)
  /\ \A i \in Breakers(log) : i <= Len(Sealed)

\* The cancel is kept where the next attempt finds it.
CancelKept ==
  \/ seal.cancel
  \/ beat \in BeatType /\ (beat.cancel \/ (beat.untrusted /\ Has(log, "cancel")))

\* Once the log was lost although there is a seal, no attempt trusts the log
\* that is begun instead, and seal and heartbeat keep what is to be kept.
Lost ==
  /\ seal \in SealType /\ seal.known # << >> /\ beat # Damaged
  /\ log # << >> => log[1] # seal.known[1]
  /\ rt # NoRuntime =>
        /\ Knows(rt)
        /\ rt.cancel => CancelKept
        /\ ~rt.untrusted => /\ rt.sealed >= 1 /\ rt.known # << >>
                            /\ rt.known[1] = seal.known[1]
  /\ "cancel" \in seen => CancelKept
  /\ "containment" \in seen => Enforce /\ (seal.constrained \/ seal.stopped)
  /\ LooksAt => /\ Containing(rt) => seal.constrained \/ seal.stopped
                /\ promised <= rt.hard

LEMMA SealedFacts ==
  ASSUME JobTypes
  PROVE  Sealed \in Seq(CommandType) /\ Len(Sealed) \in Nat
<1>1. Sealed \in Seq(CommandType)
  BY NoLogFacts DEF Sealed, SealType
<1> QED BY <1>1, LogFacts

LEMMA NoFaultIntact ==
  ASSUME JobTypes, NoFault
  PROVE  Intact(log)
<1>1. Sealed \in Seq(CommandType) /\ log \in Seq(CommandType)
  BY SealedFacts DEF JobTypes, LogTo
<1> QED BY <1>1, IntactGrows DEF NoFault

LEMMA ReadingNoFault ==
  ASSUME JobTypes, JobTypes', NoFault, NEW m, NEW r, Reading(m, r), UNCHANGED faults
  PROVE  NoFault'
<1>1. Intact(log) /\ Sealed \in Seq(CommandType) /\ Len(Sealed) \in Nat /\ log \in Seq(CommandType)
  BY NoFaultIntact, SealedFacts DEF JobTypes, LogTo
<1>2. /\ ~rt.untrusted /\ rt.sealed >= Len(Sealed) /\ rt # NoRuntime /\ Looked'
      /\ Trusts(rt, Sealed) /\ Begins(Sealed, log) /\ log' = m /\ beat' = beat
  BY DEF NoFault, Reading, Intact, RuntimeIntact
<1>3. m \in Seq(CommandType) /\ Begins(log, m)
  BY GrownFacts DEF Reading, JobTypes
<1>4. /\ Intact(m)' /\ ~rt'.untrusted /\ rt'.gen = Len(m) /\ rt'.known = m
      /\ \/ seal' \in SealType /\ seal'.known = m /\ rt'.sealed = Len(m)
         \/ seal' = seal /\ rt'.sealed = rt.sealed /\ Len(m) <= rt.sealed
  BY <1>1, <1>2, ReadingIntact
<1>5. Len(m) \in Nat /\ Breakers(m) \subseteq 1 .. Len(m)
  BY <1>3, LogFacts
<1>6. Sealed' = m /\ rt'.sealed >= Len(m) /\ seal' # Damaged
  <2>1. CASE seal' \in SealType /\ seal'.known = m /\ rt'.sealed = Len(m)
    BY <1>5, <2>1, NullAssumption DEF Sealed
  <2>2. CASE seal' = seal /\ rt'.sealed = rt.sealed /\ Len(m) <= rt.sealed
    <3>1. rt.sealed <= Len(Sealed) /\ rt.sealed \in Nat
      BY <1>2 DEF Trusts, ReadFrom, JobTypes, RuntimeIn, RuntimeFits, RuntimeType
    <3>2. Begins(Sealed, m)
      BY <1>1, <1>2, <1>3, BeginsLonger
    <3>3. Len(m) <= Len(Sealed)
      BY <1>1, <1>5, <2>2, <3>1
    <3>4. Sealed = m
      BY <1>1, <1>3, <3>2, <3>3, BeginsSame
    <3>5. Sealed' = Sealed
      BY <2>2 DEF Sealed
    <3> QED BY <1>2, <2>2, <3>4, <3>5 DEF NoFault
  <2> QED BY <1>4, <2>1, <2>2
<1>7. Intact(Sealed)'
  BY <1>4, <1>6 DEF Intact, RuntimeIntact, FilesIntact, HistoryIntact, LookIntact
<1>8. Knows(rt)'
  <2>1. (rt # NoRuntime)' => Knows(rt)'
    BY <1>2, <1>4 DEF Intact, LookIntact
  <2>2. rt' # NoRuntime
    BY <1>2 DEF JobTypes, RuntimeIn, Looked, Between
  <2> QED BY <2>1, <2>2
<1>9. Begins(Sealed, log)' /\ \A i \in Breakers(log') : i <= Len(Sealed')
  <2>1. Begins(m, m)
    BY <1>3, BeginsItself
  <2> QED BY <1>2, <1>5, <1>6, <2>1 DEF Begins
<1>10. rt' # NoRuntime => ~rt'.untrusted /\ rt'.known = Sealed' /\ Knows(rt)' /\ rt'.sealed >= Len(Sealed')
  BY <1>4, <1>6, <1>8
<1>11. beat' # Damaged /\ (beat' # NoBeat => ~beat'.untrusted)
  BY <1>2 DEF NoFault
<1>12. \A i \in Breakers(log)' : i <= Len(Sealed)'
  BY <1>9
<1> QED BY <1>6, <1>7, <1>9, <1>10, <1>11, <1>12 DEF NoFault

\* The log that was begun instead of the lost one stays another one.
LEMMA GrownLost ==
  ASSUME Lost, JobTypes, NEW m, Grown(m), m # << >>
  PROVE  m[1] # seal.known[1]
<1>1. /\ (log # << >> /\ m # << >>) => m[1] = log[1]
      /\ (log = << >> /\ m # << >>) => m[1].id = made + 1
  BY GrownFacts DEF JobTypes
<1>2. CASE log # << >>
  BY <1>1, <1>2 DEF Lost
<1>3. CASE log = << >>
  <2>1. LogTo(seal.known, made) /\ seal.known # << >> /\ made \in Nat
    BY DEF Lost, JobTypes, FilesFit
  <2>2. 1 \in DOMAIN seal.known
    BY <2>1, LogFacts DEF LogTo
  <2>3. seal.known[1].id <= made
    BY <2>1, <2>2 DEF LogTo
  <2>4. m[1].id = made + 1
    BY <1>1, <1>3
  <2>5. m[1].id # seal.known[1].id
    BY ONLY <2>1, <2>3, <2>4
  <2> QED BY <2>5
<1> QED BY <1>2, <1>3

\* An attempt that reads a log begun anew stops trusting it.
LEMMA ReadingLost ==
  ASSUME JobTypes, Lost, NEW m, NEW r, Reading(m, r)
  PROVE  Lost' /\ rt'.untrusted
<1>1. /\ LogTo(m, made') /\ RuntimeFits(r, made') /\ Alike(rt, r) /\ rt # NoRuntime
      /\ StoreRefresh(m, r) /\ log' = m /\ beat' = beat /\ seen' \subseteq seen
  BY DEF Reading
<1>2. /\ m \in Seq(CommandType) /\ Begins(log, m) /\ log \in Seq(CommandType)
      /\ (log # << >> /\ m # << >>) => m[1] = log[1]
      /\ (log = << >> /\ m # << >>) => m[1].id = made + 1
  BY GrownFacts DEF Reading, JobTypes, LogTo
<1>3. /\ r.untrusted = rt.untrusted /\ r.cancel = rt.cancel /\ r.hard = rt.hard
      /\ r.stopped = rt.stopped /\ r.constrained = rt.constrained /\ r.sealed = rt.sealed
      /\ r.known = rt.known
  BY <1>1 DEF Alike
<1>4. /\ r \in RuntimeType /\ r.hard \in Nat /\ r.sealed \in Nat /\ r.known \in Seq(CommandType)
      /\ rt.hard <= promised /\ promised \in Nat
  <2>1. r \in RuntimeType
    BY <1>1 DEF RuntimeFits
  <2>2. r.hard \in Nat /\ r.sealed \in Nat /\ r.known \in Seq(CommandType)
    BY <2>1 DEF RuntimeType
  <2>3. rt.hard <= promised /\ promised \in Nat
    BY <1>1, JobAssumption DEF JobTypes, RuntimeIn, FilesFit
  <2> QED BY <2>1, <2>2, <2>3
<1>5. m # << >> => m[1] # seal.known[1]
  BY GrownLost DEF Reading
<1> DEFINE s == Refreshed(m, r)
<1>6. /\ s \in RuntimeType /\ s.untrusted /\ s.cancel = r.cancel /\ s.hard = r.hard
      /\ s.stopped = r.stopped /\ s.constrained = r.constrained
  <2>1. CASE r.untrusted
    BY <1>4, <2>1 DEF Refreshed
  <2>2. CASE ~r.untrusted
    <3>1. r.sealed >= 1 /\ r.known # << >> /\ r.known[1] = seal.known[1]
      BY <1>1, <1>3, <2>2 DEF Lost
    <3>2. 1 \in DOMAIN r.known /\ Len(m) \in Nat /\ (m = << >> <=> Len(m) = 0)
      BY <1>2, <1>4, <3>1, LogFacts
    <3>3. ~Trusted(m, r)
      <4>1. CASE m = << >>
        BY <1>4, <3>1, <3>2, <4>1 DEF Trusted
      <4>2. CASE m # << >>
        <5>1. 1 <= Len(m)
          BY <3>2, <4>2
        <5> QED BY <1>5, <3>1, <3>2, <4>2, <5>1 DEF Trusted
      <4> QED BY <4>1, <4>2
    <3>4. s = [r EXCEPT !.untrusted = TRUE]
      BY <2>2, <3>3 DEF Refreshed
    <3> QED BY <1>4, <3>4 DEF RuntimeType
  <2> QED BY <2>1, <2>2
<1>7. rt' = s /\ seal' = seal /\ promised' = IF s.hard > promised THEN s.hard ELSE promised
  BY <1>1, <1>6 DEF StoreRefresh
<1> HIDE DEF s
<1>8. CancelKept => CancelKept'
  <2>1. Has(log, "cancel") => Has(m, "cancel")
    BY <1>2, BeginsFacts
  <2> QED BY <1>1, <1>7, <2>1 DEF CancelKept
<1>9. Knows(rt)'
  BY <1>1, <1>3, <1>6, <1>7 DEF Lost, Knows, Containing
<1>10. rt'.cancel => CancelKept'
  BY <1>1, <1>3, <1>6, <1>7, <1>8 DEF Lost
<1>11. /\ "cancel" \in seen' => CancelKept'
       /\ "containment" \in seen' => Enforce /\ (seal'.constrained \/ seal'.stopped)
  BY <1>1, <1>7, <1>8 DEF Lost
<1>12. /\ seal' \in SealType /\ seal'.known # << >> /\ beat' # Damaged
       /\ log' # << >> => log'[1] # seal'.known[1]
  BY <1>1, <1>5, <1>7 DEF Lost
<1> QED BY <1>6, <1>7, <1>9, <1>10, <1>11, <1>12 DEF Lost, LooksAt

\* An attempt goes on without new commands: deadlines, attention and what
\* record_breaker keeps in memory.
Thinking ==
  /\ rt # NoRuntime /\ rt' # NoRuntime /\ Looked /\ Looked'
  /\ UNCHANGED <<log, made, seal, beat, promised>>
  /\ faults' = faults \/ faults' = faults + 1
  /\ rt'.gen = rt.gen /\ rt'.sealed = rt.sealed /\ rt'.known = rt.known
  /\ rt'.untrusted = rt.untrusted /\ rt'.hard = rt.hard /\ rt'.cancel = rt.cancel
  /\ seen' \subseteq seen
  /\ Knows(rt) => Knows(rt)'
  /\ ~rt.untrusted =>
        /\ rt'.constrained <=> rt.constrained
        /\ rt'.stopped <=> rt.stopped
        /\ (Levelled /\ Enforce) => rt'.level = rt.level /\ breaker' = breaker
        /\ \A l : DecisionFrom(rt.decision, l) => DecisionFrom(rt'.decision, l)

LEMMA ThinkingIntact ==
  ASSUME NEW l, Intact(l), Levelled, Thinking
  PROVE  Intact(l)'
<1>1. RuntimeIntact(l)'
  <2>1. CASE rt.untrusted
    BY <2>1 DEF Thinking, Intact, RuntimeIntact
  <2>2. CASE ~rt.untrusted
    <3>1. Trusts(rt, l)
      BY <2>2 DEF Thinking, Intact, RuntimeIntact
    <3>2. ReadFrom(rt', l) /\ CancelFrom(rt', l)
      BY <3>1 DEF Thinking, Trusts, ReadFrom, CancelFrom
    <3>3. StopFrom(rt', l) /\ HoldFrom(rt', l)
      BY <2>2, <3>1 DEF Thinking, Trusts, StopFrom, HoldFrom
    <3>4. LevelFrom(rt', l)
      BY <2>2, <3>1 DEF Thinking, Trusts, LevelFrom
    <3>5. DecisionFrom(rt'.decision, l)
      BY <2>2, <3>1 DEF Thinking, Trusts
    <3>6. Trusts(rt', l) /\ ~rt'.untrusted
      BY <2>2, <3>2, <3>3, <3>4, <3>5 DEF Trusts, Thinking
    <3> QED BY <3>6 DEF RuntimeIntact
  <2> QED BY <2>1, <2>2
<1>2. FilesIntact(l)'
  BY DEF Thinking, Intact, FilesIntact
<1>3. HistoryIntact(l)'
  BY DEF Thinking, Intact, HistoryIntact
<1>4. LookIntact(l)'
  <2>1. /\ rt # NoRuntime /\ Looked /\ rt'.untrusted = rt.untrusted /\ rt'.hard = rt.hard
        /\ rt'.gen = rt.gen /\ promised' = promised /\ (Knows(rt) => Knows(rt)')
    BY DEF Thinking
  <2> QED BY <2>1 DEF Intact, LookIntact, LooksAt
<1> QED BY <1>1, <1>2, <1>3, <1>4 DEF Intact

LEMMA ThinkingNoFault ==
  ASSUME NoFault, Levelled, Thinking
  PROVE  NoFault'
<1>1. PICK l : l = Sealed
  OBVIOUS
<1>2. Intact(l)'
  BY <1>1, ThinkingIntact DEF NoFault
<1>3. Sealed' = l
  BY <1>1 DEF Sealed, Thinking
<1>4. Intact(Sealed)'
  BY <1>2, <1>3 DEF Intact, RuntimeIntact, FilesIntact, HistoryIntact, LookIntact
<1>5. rt' # NoRuntime => /\ ~rt'.untrusted /\ rt'.known = Sealed' /\ Knows(rt)'
                         /\ rt'.sealed >= Len(Sealed')
  BY <1>1, <1>3 DEF Thinking, NoFault
<1> QED BY <1>1, <1>3, <1>4, <1>5 DEF NoFault, Thinking

LEMMA ThinkingLost ==
  ASSUME Lost, Thinking
  PROVE  Lost'
<1>1. UNCHANGED <<log, seal, beat, promised>> /\ rt # NoRuntime /\ Looked /\ Looked'
  BY DEF Thinking
<1>2. CancelKept' <=> CancelKept
  BY <1>1 DEF CancelKept
<1>3. /\ rt'.sealed = rt.sealed /\ rt'.known = rt.known /\ rt'.untrusted = rt.untrusted
      /\ rt'.hard = rt.hard /\ rt'.cancel = rt.cancel /\ seen' \subseteq seen
      /\ Knows(rt) => Knows(rt)'
  BY DEF Thinking
<1>4. ~rt.untrusted => (Containing(rt') <=> Containing(rt))
  BY DEF Thinking, Containing
<1> QED BY <1>1, <1>2, <1>3, <1>4 DEF Lost, LooksAt

LEMMA ThinkingLevelled ==
  ASSUME Levelled, Thinking
  PROVE  Levelled'
BY DEF Levelled, LooksAt, Thinking

\* Attempts, files and history stay as they are, but for a heartbeat and for a
\* command of the operator.
Resting ==
  /\ UNCHANGED <<seal, rt, seen, promised, breaker, faults>>
  /\ Looked' => Looked
  /\ beat' = beat \/ (rt # NoRuntime /\ Publish)
  /\ Grown(log') /\ Breakers(log') = Breakers(log) /\ ValidCommands(log')

LEMMA RestingIntact ==
  ASSUME NEW l \in Seq(CommandType), Intact(l), JobTypes, Resting
  PROVE  Intact(l)'
<1>1. UNCHANGED <<seal, rt, seen, promised>> /\ (Looked' => Looked)
  BY DEF Resting
<1>2. RuntimeIntact(l)' /\ HistoryIntact(l)'
  BY <1>1 DEF Intact, RuntimeIntact, HistoryIntact
<1>3. FilesIntact(l)'
  <2>1. CASE beat' = beat
    BY <1>1, <2>1 DEF Intact, FilesIntact
  <2>2. CASE rt # NoRuntime /\ Publish
    BY <1>1, <2>2, PublishIntact
  <2> QED BY <2>1, <2>2 DEF Resting
<1>4. LookIntact(l)'
  BY <1>1 DEF Intact, LookIntact, LooksAt, Knows
<1> QED BY <1>2, <1>3, <1>4 DEF Intact

LEMMA RestingWhole ==
  ASSUME Intact(log), JobTypes, Resting
  PROVE  Intact(log)'
<1>1. PICK l : l = log
  OBVIOUS
<1>2. PICK m : m = log'
  OBVIOUS
<1>3. l \in Seq(CommandType) /\ m \in Seq(CommandType) /\ Begins(l, m) /\ Breakers(m) = Breakers(l)
  BY <1>1, <1>2, GrownFacts DEF Resting, JobTypes, LogTo
<1>4. Breakers(l) \subseteq 1 .. Len(l) /\ Len(l) \in Nat
  BY <1>3, LogFacts
<1>5. Intact(m)
  BY <1>1, <1>3, <1>4, IntactGrows
<1>6. Intact(m)'
  BY <1>3, <1>5, RestingIntact
<1> QED BY <1>2, <1>6, IntactSame

LEMMA RestingNoFault ==
  ASSUME NoFault, JobTypes, Resting
  PROVE  NoFault'
<1>1. PICK l : l = Sealed
  OBVIOUS
<1>2. l \in Seq(CommandType) /\ Intact(l) /\ Begins(l, log) /\ log \in Seq(CommandType)
  BY <1>1, SealedFacts DEF NoFault, JobTypes, LogTo
<1>3. Intact(l)'
  BY <1>2, RestingIntact
<1>4. Sealed' = l
  BY <1>1 DEF Sealed, Resting
<1>5. Intact(Sealed)'
  BY <1>3, <1>4 DEF Intact, RuntimeIntact, FilesIntact, HistoryIntact, LookIntact
<1>6. log' \in Seq(CommandType) /\ Begins(log, log')
  BY GrownFacts DEF Resting, JobTypes
<1>7. Begins(l, log')
  BY <1>2, <1>6, BeginsLonger
<1>8. Begins(Sealed, log)'
  BY <1>4, <1>7 DEF Begins
<1>9. rt # NoRuntime => ~rt.untrusted /\ rt \in RuntimeType
  BY DEF NoFault, JobTypes, RuntimeIn, RuntimeFits
<1>10. beat' # Damaged /\ (beat' # NoBeat => ~beat'.untrusted)
  <2>1. CASE beat' = beat
    BY <2>1 DEF NoFault
  <2>2. CASE rt # NoRuntime /\ beat' = Published(rt)
    BY <1>9, <2>2, PublishedFacts, NullAssumption
  <2> QED BY <2>1, <2>2 DEF Resting, Publish
<1>11. rt' # NoRuntime => /\ ~rt'.untrusted /\ rt'.known = Sealed' /\ Knows(rt)'
                          /\ rt'.sealed >= Len(Sealed')
  BY <1>1, <1>4 DEF Resting, NoFault, Knows
<1>12. \A i \in Breakers(log)' : i <= Len(Sealed)'
  BY <1>1, <1>4 DEF Resting, NoFault, Breakers
<1>13. seal' # Damaged
  BY DEF Resting, NoFault
<1> QED BY <1>5, <1>8, <1>10, <1>11, <1>12, <1>13 DEF NoFault

\* The heartbeat of an attempt that knows of the cancel keeps it.
LEMMA KeptLater ==
  ASSUME Lost, JobTypes, UNCHANGED seal, beat' = beat \/ (rt # NoRuntime /\ Publish),
         Grown(log')
  PROVE  /\ (rt # NoRuntime /\ rt.cancel) => CancelKept'
         /\ "cancel" \in seen => CancelKept'
<1>1. log' \in Seq(CommandType) /\ Begins(log, log') /\ log \in Seq(CommandType)
  BY GrownFacts DEF JobTypes, LogTo
<1>2. Has(log, "cancel") => Has(log', "cancel")
  BY <1>1, BeginsFacts
<1>3. CASE beat' = beat
  <2>1. CancelKept => CancelKept'
    BY <1>2, <1>3 DEF CancelKept
  <2> QED BY <2>1 DEF Lost
<1>4. CASE rt # NoRuntime /\ beat' = Published(rt)
  <2>1. rt \in RuntimeType /\ ("cancel" \in seen => rt.cancel)
    BY <1>4 DEF JobTypes, RuntimeIn, RuntimeFits, Lost, Knows
  <2>2. beat' \in BeatType /\ beat'.cancel = rt.cancel
    BY <1>4, <2>1, PublishedFacts
  <2> QED BY <2>1, <2>2 DEF CancelKept
<1> QED BY <1>3, <1>4 DEF Publish

LEMMA BeatStays ==
  ASSUME JobTypes, beat # Damaged, beat' = beat \/ (rt # NoRuntime /\ Publish)
  PROVE  beat' # Damaged
<1>1. rt # NoRuntime => rt \in RuntimeType
  BY DEF JobTypes, RuntimeIn, RuntimeFits
<1> QED BY <1>1, PublishedFacts, NullAssumption DEF Publish

LEMMA RestingLost ==
  ASSUME Lost, JobTypes, Resting
  PROVE  Lost'
<1>1. UNCHANGED <<seal, rt, seen, promised>> /\ (Looked' => Looked) /\ Grown(log')
      /\ (beat' = beat \/ (rt # NoRuntime /\ Publish))
  BY DEF Resting
<1>2. log' # << >> => log'[1] # seal.known[1]
  BY <1>1, GrownLost
<1>3. /\ (rt # NoRuntime /\ rt.cancel) => CancelKept'
      /\ "cancel" \in seen => CancelKept'
  BY <1>1, KeptLater
<1>4. beat' # Damaged
  BY <1>1, BeatStays DEF Lost
<1>5. Knows(rt)' <=> Knows(rt)
  BY <1>1 DEF Knows
<1> QED BY <1>1, <1>2, <1>3, <1>4, <1>5 DEF Lost, LooksAt

LEMMA RestingLevelled ==
  ASSUME Levelled, Resting
  PROVE  Levelled'
BY DEF Levelled, LooksAt, Resting

\* An attempt ends, and leaves its last heartbeat or an earlier one.
Ending ==
  /\ rt # NoRuntime /\ Publish
  /\ UNCHANGED <<log, seal, promised, breaker, faults>>
  /\ \E how : EndAttempt(how) /\ (how = "contained" => Looked /\ Containing(rt))

LEMMA EndingIntact ==
  ASSUME NEW l \in Seq(CommandType), Intact(l), JobTypes, Ending
  PROVE  Intact(l)'
<1>1. FilesIntact(l)'
  BY PublishIntact DEF Ending
<1> QED BY <1>1, EndIntact DEF Ending

LEMMA EndingWhole ==
  ASSUME Intact(log), JobTypes, Ending
  PROVE  Intact(log)'
<1>1. PICK l : l = log
  OBVIOUS
<1>2. l \in Seq(CommandType)
  BY <1>1 DEF JobTypes, LogTo
<1>3. Intact(l)'
  BY <1>1, <1>2, EndingIntact
<1> QED BY <1>1, <1>3, IntactSame DEF Ending

LEMMA EndingNoFault ==
  ASSUME NoFault, JobTypes, Ending
  PROVE  NoFault'
<1>1. PICK l : l = Sealed
  OBVIOUS
<1>2. Intact(l)'
  BY <1>1, SealedFacts, EndingIntact DEF NoFault
<1>3. Sealed' = l
  BY <1>1 DEF Sealed, Ending
<1>4. Intact(Sealed)'
  BY <1>2, <1>3 DEF Intact, RuntimeIntact, FilesIntact, HistoryIntact, LookIntact
<1>5. rt \in RuntimeType /\ ~rt.untrusted
  BY DEF Ending, NoFault, JobTypes, RuntimeIn, RuntimeFits
<1>6. beat' # Damaged /\ (beat' # NoBeat => ~beat'.untrusted)
  BY <1>5, PublishedFacts, NullAssumption DEF NoFault, Ending, Publish
<1>7. rt' = NoRuntime
  BY DEF Ending, EndAttempt
<1>8. seal' # Damaged /\ Begins(Sealed, log)' /\ \A i \in Breakers(log)' : i <= Len(Sealed)'
  BY <1>1, <1>3 DEF NoFault, Ending
<1> QED BY <1>4, <1>6, <1>7, <1>8 DEF NoFault

LEMMA EndingLost ==
  ASSUME Lost, JobTypes, Ending
  PROVE  Lost'
<1>1. UNCHANGED <<log, seal, promised>> /\ rt # NoRuntime /\ Publish
  BY DEF Ending
<1>2. PICK how : EndAttempt(how) /\ (how = "contained" => Looked /\ Containing(rt))
  BY DEF Ending
<1>3. /\ rt' = NoRuntime
      /\ "cancel" \in seen' => "cancel" \in seen \/ rt.cancel
      /\ "containment" \in seen' => "containment" \in seen \/ (how = "contained" /\ ~rt.untrusted)
      /\ pc' \in {"over", "repair", "ready"}
  BY <1>2 DEF EndAttempt
<1>4. /\ rt.cancel => CancelKept'
      /\ "cancel" \in seen => CancelKept'
  BY <1>1, KeptLater DEF Grown
<1>5. beat' # Damaged
  BY <1>1, BeatStays DEF Lost
<1>6. (how = "contained" /\ ~rt.untrusted) => Enforce /\ (seal.constrained \/ seal.stopped)
  BY <1>2 DEF Lost, LooksAt, Containing
<1> QED BY <1>1, <1>3, <1>4, <1>5, <1>6 DEF Lost, LooksAt, Looked

LEMMA EndingLevelled ==
  ASSUME Ending
  PROVE  Levelled'
BY DEF Levelled, LooksAt, Looked, Ending, EndAttempt

LEMMA LoadWhole ==
  ASSUME Intact(log), JobTypes, ValidCommands(log), Load
  PROVE  Intact(log)'
<1>1. PICK l : l = log
  OBVIOUS
<1>2. l \in Seq(CommandType)
  BY <1>1 DEF JobTypes, LogTo
<1>3. Intact(l)'
  BY <1>1, <1>2, LoadIntact
<1> QED BY <1>1, <1>3, IntactSame DEF Load, files

LEMMA LoadNoFault ==
  ASSUME NoFault, JobTypes, ValidCommands(log), Load
  PROVE  NoFault'
<1>0. /\ now \in Nat /\ seal \in SealType \cup {NoSeal, Damaged}
      /\ beat \in BeatType \cup {NoBeat, Damaged} /\ log \in Seq(CommandType)
  BY DEF JobTypes, FilesFit, RestIn, LogTo
<1>1. PICK l : l = Sealed
  OBVIOUS
<1>2. l \in Seq(CommandType) /\ Intact(l) /\ Kept.known = l /\ Len(l) \in Nat
  BY <1>1, SealedFacts DEF NoFault, Sealed, Kept
<1>3. ~Shown.untrusted
  <2>1. CASE beat \in BeatType
    BY <2>1, NullAssumption DEF NoFault, Shown
  <2>2. CASE beat \notin BeatType
    <3>1. Shown.untrusted = FALSE
      BY <2>2 DEF Shown
    <3> QED BY <3>1
  <2> QED BY <2>1, <2>2
<1>4. /\ ~Loaded.untrusted /\ Loaded.known = l
      /\ Loaded.sealed = IF Shown.gen > Len(l) THEN Shown.gen ELSE Len(l)
      /\ Loaded.cancel <=> (Kept.cancel \/ Shown.cancel)
      /\ Loaded.constrained <=> (Kept.constrained \/ (Shown.decision.enforced
                                                      /\ Shown.decision.level = Constrained))
      /\ Loaded.stopped <=> (Kept.stopped \/ (Shown.decision.enforced
                                              /\ Shown.decision.level = Stopped))
  BY <1>0, <1>2, <1>3, LoadedFacts DEF NoFault
<1>5. Intact(l)'
  BY <1>2, <1>4, LoadIntact
<1>6. /\ UNCHANGED <<log, seal, beat, seen, promised>> /\ rt' = Loaded
  BY DEF Load, files
<1>7. Sealed' = l
  BY <1>1, <1>6 DEF Sealed
<1>8. Intact(Sealed)'
  BY <1>5, <1>7 DEF Intact, RuntimeIntact, FilesIntact, HistoryIntact, LookIntact
<1>9. Loaded.sealed >= Len(l)
  BY <1>2, <1>4, KeptFacts
<1> HIDE DEF Loaded
\* What was known is in the seal.
<1>10. Knows(rt)'
  <2>1. /\ "cancel" \in seen => Has(l, "cancel")
        /\ "containment" \in seen => Contained(l) \/ StopAsked(l)
    BY <1>2 DEF Intact, HistoryIntact
  <2>2. CASE seal \in SealType
    <3>1. Kept = seal /\ SealTrust(seal, l) /\ seal.known = l
      BY <1>1, <1>2, <2>2 DEF Kept, Intact, FilesIntact, Sealed
    <3>2. /\ Kept.cancel <=> Has(l, "cancel")
          /\ Kept.stopped <=> StopAsked(l)
          /\ Kept.constrained <=> Contained(l)
      BY <3>1 DEF SealTrust
    <3>3. Contained(l) \/ StopAsked(l) => Enforce
      BY DEF Contained, StopAsked
    <3> QED BY <1>4, <1>6, <2>1, <3>2, <3>3 DEF Knows, Containing
  <2>3. CASE seal \notin SealType
    <3>1. l = << >>
      BY <1>1, <2>3 DEF Sealed
    <3>2. ~Has(l, "cancel") /\ ~Contained(l) /\ ~StopAsked(l)
      BY <3>1, NoLogFacts DEF Contained, StopAsked
    <3> QED BY <1>6, <2>1, <3>2 DEF Knows
  <2> QED BY <2>2, <2>3
<1>11. /\ seal' # Damaged /\ beat' # Damaged /\ (beat' # NoBeat => ~beat'.untrusted)
       /\ Begins(Sealed, log)' /\ \A i \in Breakers(log)' : i <= Len(Sealed)'
  BY <1>1, <1>6, <1>7 DEF NoFault
<1> QED BY <1>4, <1>6, <1>7, <1>8, <1>9, <1>10, <1>11 DEF NoFault

LEMMA LoadLost ==
  ASSUME Lost, JobTypes, ValidCommands(log), Load
  PROVE  Lost'
<1>0. /\ now \in Nat /\ seal \in SealType \cup {NoSeal, Damaged}
      /\ beat \in BeatType \cup {NoBeat, Damaged} /\ log \in Seq(CommandType)
  BY DEF JobTypes, FilesFit, RestIn, LogTo
<1>1. /\ UNCHANGED <<log, seal, beat, seen, promised>> /\ rt' = Loaded /\ ~Looked'
  BY DEF Load, files, Looked
<1>2. Kept = seal /\ seal # Damaged /\ beat # Damaged /\ seal.known # << >> /\ seal \in SealType
  BY NullAssumption DEF Lost, Kept
<1> DEFINE intact == Loaded.untrusted /\ ValidCommands(log)
           d == Shown.decision
<1>3. /\ Loaded.known = seal.known
      /\ Loaded.sealed = IF Shown.gen > Len(Kept.known) THEN Shown.gen ELSE Len(Kept.known)
      /\ Loaded.untrusted <=> Shown.untrusted
      /\ Loaded.cancel <=> (seal.cancel \/ Shown.cancel \/ (intact /\ Has(log, "cancel")))
      /\ Loaded.constrained <=> (seal.constrained \/ (d.enforced /\ d.level = Constrained)
                                 \/ (intact /\ Contained(log)))
      /\ Loaded.stopped <=> (seal.stopped \/ (d.enforced /\ d.level = Stopped)
                             \/ (intact /\ StopAsked(log)))
  BY <1>0, <1>2, LoadedFacts
<1> HIDE DEF Loaded, d
<1>4. /\ beat \in BeatType => Shown = beat
      /\ beat \notin BeatType => Shown.cancel = FALSE /\ Shown.untrusted = FALSE
  BY DEF Shown
<1>5. Loaded.cancel <=> CancelKept
  BY <1>3, <1>4 DEF CancelKept
<1>6. Knows(rt)'
  BY <1>1, <1>3, <1>5 DEF Lost, Knows, Containing
<1>7. Loaded.sealed >= 1
  <2>1. Len(seal.known) \in Nat /\ Len(seal.known) # 0 /\ Shown.gen \in Nat
    BY <1>2, LogFacts, KeptFacts
  <2> QED BY <1>2, <1>3, <2>1
<1>8. CancelKept' <=> CancelKept
  BY <1>1 DEF CancelKept
<1>9. /\ seal' \in SealType /\ seal'.known # << >> /\ beat' # Damaged
      /\ log' # << >> => log'[1] # seal'.known[1]
  BY <1>1 DEF Lost
<1>10. /\ "cancel" \in seen' => CancelKept'
       /\ "containment" \in seen' => Enforce /\ (seal'.constrained \/ seal'.stopped)
  BY <1>1, <1>8 DEF Lost
<1>11. rt'.cancel => CancelKept'
  BY <1>1, <1>5, <1>8
<1>12. rt'.sealed >= 1 /\ rt'.known # << >> /\ rt'.known[1] = seal'.known[1]
  BY <1>1, <1>2, <1>3, <1>7
<1> QED BY <1>1, <1>6, <1>9, <1>10, <1>11, <1>12 DEF Lost, LooksAt

LEMMA LoadLevelled ==
  ASSUME Load
  PROVE  Levelled'
BY DEF Levelled, LooksAt, Looked, Load

\* The first fault from outside.
LEMMA DamageStarts ==
  ASSUME NoFault, JobTypes, Damage
  PROVE  Intact(log)' \/ Lost'
<1>0. /\ UNCHANGED <<rt, seen, promised, pc>> /\ Intact(log)
      /\ \/ log' = << >> /\ UNCHANGED <<seal, beat>>
         \/ seal' = Damaged /\ UNCHANGED <<log, beat>>
         \/ beat' = Damaged /\ UNCHANGED <<log, seal>>
  BY NoFaultIntact DEF Damage, NoLog
<1>1. ASSUME NEW l, Intact(l), seal' = seal \/ seal' = Damaged, beat' = beat \/ beat' = Damaged
      PROVE  Intact(l)'
  <2>1. RuntimeIntact(l)' /\ HistoryIntact(l)'
    BY <1>0, <1>1 DEF Intact, RuntimeIntact, HistoryIntact
  <2>2. FilesIntact(l)'
    BY <1>1, NullAssumption DEF Intact, FilesIntact
  <2>3. LookIntact(l)'
    BY <1>0, <1>1 DEF Intact, LookIntact, LooksAt, Looked, Knows
  <2> QED BY <2>1, <2>2, <2>3 DEF Intact
<1>2. CASE log' = log /\ (seal' = seal \/ seal' = Damaged) /\ (beat' = beat \/ beat' = Damaged)
  <2>1. PICK l : l = log
    OBVIOUS
  <2>2. Intact(l)'
    BY <1>0, <1>1, <1>2, <2>1
  <2> QED BY <1>2, <2>1, <2>2, IntactSame
<1>3. CASE log' = << >> /\ UNCHANGED <<seal, beat>> /\ seal \notin SealType
  <2>1. PICK l : l = << >>
    OBVIOUS
  <2>2. Intact(l)
    BY <1>3, <2>1 DEF NoFault, Sealed
  <2>3. Intact(l)'
    BY <1>1, <1>3, <2>2
  <2> QED BY <1>3, <2>1, <2>3, IntactSame
<1>4. CASE log' = << >> /\ UNCHANGED <<seal, beat>> /\ seal \in SealType
  <2>0. PICK l : l = Sealed
    OBVIOUS
  <2>1. l = seal.known /\ Intact(l) /\ SealTrust(seal, l)
    BY <1>4, <2>0 DEF Sealed, NoFault, Intact, FilesIntact
  <2>2. /\ l # << >> /\ l \in Seq(CommandType)
        /\ seal.cancel <=> Has(l, "cancel")
        /\ seal.stopped <=> StopAsked(l)
        /\ seal.constrained <=> Contained(l)
    BY <1>4, <2>1 DEF SealTrust, SealType
  <2>3. seal.cancel => CancelKept'
    BY <1>4 DEF CancelKept
  <2>4. /\ "cancel" \in seen => seal.cancel
        /\ "containment" \in seen => Enforce /\ (seal.constrained \/ seal.stopped)
    BY <2>1, <2>2 DEF Intact, HistoryIntact, Contained, StopAsked
  <2>5. ASSUME rt # NoRuntime
        PROVE  /\ Knows(rt) /\ (rt.cancel => seal.cancel)
               /\ rt.sealed >= 1 /\ rt.known = seal.known /\ ~rt.untrusted
    <3>1. Trusts(rt, l) /\ ~rt.untrusted /\ rt.known = l /\ Knows(rt) /\ rt.sealed >= Len(l)
      BY <2>0, <2>1, <2>5 DEF NoFault, Intact, RuntimeIntact
    <3>2. rt.cancel => seal.cancel
      BY <2>2, <3>1 DEF Trusts, CancelFrom
    <3>3. rt.sealed >= 1
      <4>1. Len(l) \in Nat /\ Len(l) # 0
        BY <2>2, LogFacts
      <4>2. rt.sealed \in Nat
        BY <2>5 DEF JobTypes, RuntimeIn, RuntimeFits, RuntimeType
      <4> QED BY <3>1, <4>1, <4>2
    <3> QED BY <2>1, <3>1, <3>2, <3>3
  <2>6. ASSUME LooksAt
        PROVE  /\ Containing(rt) => seal.constrained \/ seal.stopped
               /\ promised <= rt.hard
    <3>1. rt # NoRuntime
      BY <2>6 DEF LooksAt, Looked, JobTypes, RuntimeIn, Between
    <3>2. Containing(rt) => Contained(l) \/ StopAsked(l)
      BY <2>1, <2>2, <2>6, <3>1, ContainingIntact
    <3>3. promised <= rt.hard
      BY <2>1, <2>6 DEF Intact, LookIntact
    <3> QED BY <2>2, <3>2, <3>3
  <2>7. LooksAt' <=> LooksAt
    BY <1>0 DEF LooksAt, Looked
  <2>8. Knows(rt)' <=> Knows(rt)
    BY <1>0 DEF Knows
  <2>9. beat # Damaged
    BY DEF NoFault
  <2> QED BY <1>0, <1>4, <2>1, <2>2, <2>3, <2>4, <2>5, <2>6, <2>7, <2>8, <2>9 DEF Lost
<1> QED BY <1>0, <1>2, <1>3, <1>4

LEMMA DamageLevelled ==
  ASSUME Levelled, Damage
  PROVE  Levelled'
BY DEF Levelled, LooksAt, Looked, Damage

-----------------------------------------------------------------------------
(* Which steps are which. *)

LEMMA AppendedContained ==
  ASSUME NEW l \in Seq(CommandType), NEW c \in CommandType,
         c.action # "breaker" \/ c.to # Healthy
  PROVE  /\ Contained(l) => Contained(Append(l, c))
         /\ StopAsked(l) => StopAsked(Append(l, c))
<1> DEFINE m == Append(l, c)
<1>1. /\ m \in Seq(CommandType) /\ Len(l) \in Nat /\ m[Len(l) + 1] = c
      /\ \A i \in 1 .. Len(l) : m[i] = l[i]
  BY Appended, LogFacts
<1>2. /\ Breakers(l) \subseteq 1 .. Len(l) /\ Breakers(l) \subseteq Breakers(m)
      /\ \A i \in Breakers(m) : i \in Breakers(l) \/ (i = Len(l) + 1 /\ c.action = "breaker")
  BY AppendedBreakers, LogFacts
<1> HIDE DEF m
<1>3. ASSUME Contained(l) PROVE Contained(m)
  <2>1. PICK i \in Breakers(l) : /\ l[i].to = Constrained
                                 /\ \A j \in Breakers(l) : j > i => l[j].to # Healthy
    BY <1>3 DEF Contained
  <2>2. i \in Breakers(m) /\ m[i].to = Constrained
    BY <1>1, <1>2, <2>1
  <2>3. ASSUME NEW j \in Breakers(m), j > i PROVE m[j].to # Healthy
    <3>1. CASE j \in Breakers(l)
      BY <1>1, <1>2, <2>1, <2>3, <3>1
    <3>2. CASE j = Len(l) + 1 /\ c.action = "breaker"
      BY <1>1, <3>2
    <3> QED BY <1>2, <3>1, <3>2
  <2> QED BY <1>3, <2>2, <2>3 DEF Contained
<1>4. StopAsked(l) => StopAsked(m)
  BY <1>1, <1>2 DEF StopAsked
<1> QED BY <1>3, <1>4 DEF m

LEMMA RefreshReads ==
  ASSUME JobTypes, JobTypes', ValidCommands(log), Refresh
  PROVE  \E m, r : Reading(m, r)
<1>1. PICK m : m = log
  OBVIOUS
<1>2. PICK r : r = rt
  OBVIOUS
<1>3. /\ pc \in {"polling", "closed"} /\ pc' \in {"acting", "closing"} /\ StoreRefresh(log, rt)
      /\ UNCHANGED <<log, beat, made, seen>> /\ breaker' = rt'.level
  BY DEF Refresh
<1>4. rt # NoRuntime /\ RuntimeFits(rt, made) /\ made \in Nat /\ LogTo(log, made)
  BY <1>3 DEF JobTypes, RuntimeIn, Between
<1>5. Looked'
  BY <1>3 DEF Looked
<1>6. Alike(rt, r) /\ Grown(m)
  BY <1>1, <1>2 DEF Alike, Grown
<1>7. StoreRefresh(m, r)
  BY <1>1, <1>2, <1>3
<1>8. Reading(m, r)
  BY <1>1, <1>2, <1>3, <1>4, <1>5, <1>6, <1>7 DEF Reading
<1> QED BY <1>8

LEMMA HandoffWays ==
  ASSUME JobTypes, JobTypes', ValidCommands(log), HandoffStep
  PROVE  Thinking \/ \E m, r : Reading(m, r)
<1>1. /\ pc = "handing" /\ pc' = "deciding" /\ UNCHANGED <<beat, breaker, seen>>
  BY DEF HandoffStep, KeepAttempt
<1>2. Looked /\ Looked' /\ rt # NoRuntime /\ rt' # NoRuntime
  BY <1>1 DEF Looked, JobTypes, RuntimeIn, Between
<1>3. rt \in RuntimeType /\ RuntimeFits(rt, made) /\ made \in Nat /\ LogTo(log, made)
      /\ log \in Seq(CommandType) /\ now \in Nat
  BY <1>2, JobAssumption DEF JobTypes, RuntimeIn, RuntimeFits, LogTo, RestIn
<1>4. CASE rt' = Steered(rt) /\ KeepFiles
  <2>1. /\ Alike(rt, rt') /\ rt'.decision.level = rt.decision.level
        /\ rt'.decision.enforced = rt.decision.enforced
    BY <1>3, <1>4, SteeredFacts
  <2>2. Knows(rt) => Knows(rt)'
    BY <1>1, <2>1 DEF Alike, Knows, Containing
  <2>3. \A l : DecisionFrom(rt.decision, l) => DecisionFrom(rt'.decision, l)
    BY <2>1 DEF DecisionFrom
  <2>4. UNCHANGED <<log, made, seal, faults, promised>>
    BY <1>4 DEF KeepFiles
  <2>5. Thinking
    BY <1>1, <1>2, <2>1, <2>2, <2>3, <2>4 DEF Thinking, Alike
  <2> QED BY <2>5
<1>5. CASE /\ HandoffFits(log) /\ ~rt.untrusted
           /\ LET new == Append(log, Command("handoff", 0, 0, now, made + 1))
              IN  /\ log' = new
                  /\ made' = made + 1
                  /\ StoreRefresh(new, [Steered(rt) EXCEPT !.handoff = TRUE, !.attention = TRUE])
  <2>1. PICK cmd : cmd = Command("handoff", 0, 0, now, made + 1)
    OBVIOUS
  <2>2. PICK m : m = Append(log, cmd)
    OBVIOUS
  <2>3. PICK r : r = [Steered(rt) EXCEPT !.handoff = TRUE, !.attention = TRUE]
    OBVIOUS
  <2>4. log' = m /\ made' = made + 1 /\ StoreRefresh(m, r)
    BY <1>5, <2>1, <2>2, <2>3
  <2>5. /\ r \in RuntimeType /\ Alike(rt, r) /\ r.soft = rt.soft
        /\ r.decision.level = rt.decision.level /\ r.decision.enforced = rt.decision.enforced
    BY <1>3, <2>3, SteeredFacts
  <2>6. made' \in Nat /\ made <= made' /\ made + 1 \in Nat \ {0}
    BY ONLY <1>3, <2>4
  <2>7. 0 \in Levels
    BY DEF Levels, Healthy, Stopped
  <2>8. cmd \in CommandType /\ cmd.id = made + 1 /\ cmd.action = "handoff"
    BY <1>3, <2>1, <2>6, <2>7, CommandFacts DEF Actions
  <2>9. RuntimeFits(r, made')
    <3>1. r.soft <= r.hard
      BY <1>3, <2>5 DEF RuntimeFits, Alike
    <3>2. RuntimeFits(r, made)
      BY <1>3, <2>5, <3>1, AlikeFits
    <3> QED BY <1>3, <2>6, <3>2, LogToMore
  <2>10. Grown(m) /\ LogTo(m, made')
    BY <2>2, <2>4, <2>8 DEF Grown, JobTypes
  <2>11. ValidCommands(m)
    <3>1. Len(log) < MaxCommands
      BY <1>5 DEF HandoffFits, QueueFits
    <3> QED BY <1>3, <2>2, <2>8, <3>1, ValidAppended
  <2>12. /\ Contained(log) => Contained(m)
         /\ StopAsked(log) => StopAsked(m)
    BY <1>3, <2>2, <2>8, AppendedContained
  <2>13. m \in Seq(CommandType) /\ Begins(log, m) /\ Len(log) \in Nat /\ Len(m) = Len(log) + 1
    BY <1>3, <2>2, <2>8, Appended, LogFacts
  <2>14. DecisionFrom(rt.decision, log) => DecisionFrom(r.decision, m)
    <3>1. DecisionFrom(rt.decision, log) => DecisionFrom(rt.decision, m)
      BY <1>3, <2>13, DecisionLater
    <3> QED BY <2>5, <3>1 DEF DecisionFrom
  <2>15. LogLevel(m) = LogLevel(log)
    <3>1. Breakers(m) = Breakers(log) /\ Breakers(log) \subseteq 1 .. Len(log)
      BY <1>3, <2>2, <2>8, AppendedBreakers, LogFacts
    <3>2. Len(m) \in Nat /\ Len(log) <= Len(m) /\ \A i \in Breakers(m) : i <= Len(log)
      BY <2>13, <3>1
    <3>3. LevelAt(m, Len(m)) = LevelAt(m, Len(log))
      BY <2>13, <3>2, LevelLater
    <3>4. LevelAt(log, Len(log)) = LevelAt(m, Len(log))
      BY <1>3, <2>13, LevelBegins
    <3> QED BY <3>3, <3>4 DEF LogLevel
  <2>16. Reading(m, r)
    BY <1>1, <1>2, <1>5, <2>4, <2>5, <2>6, <2>9, <2>10, <2>11, <2>12, <2>14, <2>15 DEF Reading
  <2> QED BY <2>16
<1> QED BY <1>4, <1>5 DEF HandoffStep

LEMMA CheckpointWays ==
  ASSUME JobTypes, JobTypes', ValidCommands(log), CheckpointStep
  PROVE  Thinking \/ \E m, r : Reading(m, r)
<1>1. /\ pc = "acting" /\ pc' \in {"deciding", "handing"} /\ beat' = beat
      /\ seen' = IF breaker # Healthy /\ breaker' = Healthy
                   THEN seen \ {"containment"} ELSE seen
  BY DEF CheckpointStep
<1>2. Looked /\ Looked' /\ rt # NoRuntime /\ rt' # NoRuntime
  BY <1>1 DEF Looked, JobTypes, RuntimeIn, Between
<1>3. rt \in RuntimeType /\ RuntimeFits(rt, made) /\ made \in Nat /\ LogTo(log, made)
      /\ log \in Seq(CommandType) /\ now \in Nat /\ breaker \in Levels /\ rt.soft <= rt.hard
  BY <1>2, JobAssumption DEF JobTypes, RuntimeIn, RuntimeFits, LogTo, RestIn
\* Nothing but the lease changes.
<1>4. ASSUME Alike(rt, rt'), rt'.decision = rt.decision, breaker' = breaker,
             UNCHANGED <<log, made, seal, promised>>, faults' = faults \/ faults' = faults + 1
      PROVE  Thinking
  <2>1. seen' = seen
    BY <1>1, <1>4
  <2>2. Knows(rt) => Knows(rt)'
    BY <1>4, <2>1 DEF Alike, Knows, Containing
  <2> QED BY <1>1, <1>2, <1>4, <2>1, <2>2 DEF Thinking, Alike
<1>5. CASE UNCHANGED <<breaker, rt>> /\ KeepFiles
  <2>1. Alike(rt, rt') /\ rt'.decision = rt.decision
    BY <1>5 DEF Alike
  <2> QED BY <1>4, <1>5, <2>1 DEF KeepFiles
<1>6. ASSUME NEW active \in BOOLEAN, NEW triggered \in BOOLEAN,
             RecordBreaker(Checked(rt, active), triggered)
      PROVE  Thinking \/ \E m, r : Reading(m, r)
  <2>1. PICK c : c = Checked(rt, active)
    OBVIOUS
  <2>2. PICK to : to = NextLevel(breaker, triggered)
    OBVIOUS
  <2>3. PICK cmd : cmd = Command("breaker", breaker, to, now, made + 1)
    OBVIOUS
  <2>4. c \in RuntimeType /\ Alike(rt, c) /\ c.decision = rt.decision /\ c.soft <= c.hard
    BY <1>3, <2>1, CheckedFacts
  <2>5. to \in Levels
    BY <1>3, <2>2, NextLevelFacts
  <2>6. \/ /\ to = breaker \/ c.untrusted \/ ~Enforce
           /\ rt' = Remembered(c, breaker, to) /\ breaker' = to
           /\ UNCHANGED <<log, made, seal, faults, promised>>
        \/ /\ rt' = c /\ breaker' = breaker /\ ~c.untrusted
           /\ UNCHANGED <<log, made, seal, promised>>
           /\ faults' = faults \/ (faults < MaxFaults /\ faults' = faults + 1)
        \/ /\ to # breaker /\ ~c.untrusted /\ BreakerRefusal(log, breaker, to, cmd) = ""
           /\ log' = Append(log, cmd) /\ made' = made + 1 /\ breaker' = to
           /\ StoreRefresh(Append(log, cmd), [c EXCEPT !.decision = Decision(breaker, to)])
    BY <1>6, <2>1, <2>2, <2>3, RecordWays
  <2>7. CASE /\ to = breaker \/ c.untrusted \/ ~Enforce
             /\ rt' = Remembered(c, breaker, to) /\ breaker' = to
             /\ UNCHANGED <<log, made, seal, faults, promised>>
    <3>1. seen' = IF breaker # Healthy /\ to = Healthy THEN seen \ {"containment"} ELSE seen
      BY <1>1, <2>7
    <3>2. /\ rt'.gen = rt.gen /\ rt'.sealed = rt.sealed /\ rt'.known = rt.known
          /\ rt'.untrusted = rt.untrusted /\ rt'.hard = rt.hard /\ rt'.level = to
          /\ rt'.cancel = rt.cancel /\ rt'.decision = Decision(breaker, to)
          /\ ~rt.untrusted => /\ rt'.constrained <=> rt.constrained
                              /\ rt'.stopped <=> rt.stopped
          /\ Knows(rt) => Knows(rt)'
      BY <1>3, <2>4, <2>5, <2>7, <3>1, RememberKnows
    <3>3. c.untrusted = rt.untrusted
      BY <2>4 DEF Alike
    <3>4. ~rt.untrusted => \A l : DecisionFrom(rt.decision, l) => DecisionFrom(rt'.decision, l)
      <4>1. ~rt.untrusted => ~Decision(breaker, to).enforced
        BY <1>3, <2>5, <2>7, <3>3, DecisionFacts
      <4> QED BY <3>2, <4>1 DEF DecisionFrom
    <3>5. (~rt.untrusted /\ Levelled /\ Enforce) => rt'.level = rt.level /\ breaker' = breaker
      BY <1>2, <2>7, <3>2, <3>3 DEF Levelled, LooksAt
    <3>6. seen' \subseteq seen
      BY <1>1
    <3>7. Thinking
      BY <1>1, <1>2, <2>7, <3>2, <3>4, <3>5, <3>6 DEF Thinking
    <3> QED BY <3>7
  <2>8. CASE /\ rt' = c /\ breaker' = breaker /\ ~c.untrusted
             /\ UNCHANGED <<log, made, seal, promised>>
             /\ faults' = faults \/ (faults < MaxFaults /\ faults' = faults + 1)
    BY <1>4, <2>4, <2>8
  <2>9. CASE /\ to # breaker /\ ~c.untrusted /\ BreakerRefusal(log, breaker, to, cmd) = ""
             /\ log' = Append(log, cmd) /\ made' = made + 1 /\ breaker' = to
             /\ StoreRefresh(Append(log, cmd), [c EXCEPT !.decision = Decision(breaker, to)])
    <3>1. PICK m : m = Append(log, cmd)
      OBVIOUS
    <3>2. PICK d : d = Decision(breaker, to)
      OBVIOUS
    <3>3. PICK r : r = [c EXCEPT !.decision = d]
      OBVIOUS
    <3>4. log' = m /\ made' = made + 1 /\ breaker' = to /\ StoreRefresh(m, r) /\ ~c.untrusted
      BY <2>9, <3>1, <3>2, <3>3
    <3>5. d \in DecisionType /\ d.level = to /\ (d.enforced <=> (Enforce /\ breaker # to))
      BY <1>3, <2>5, <3>2, DecisionFacts
    <3>6. r \in RuntimeType /\ Alike(c, r) /\ r.decision = d /\ r.soft = c.soft
      BY <2>4, <3>3, <3>5, DecidedFacts
    <3>7. Alike(rt, r) /\ r.soft <= r.hard /\ ~rt.untrusted
      BY <2>4, <3>4, <3>6 DEF Alike
    <3>8. made' \in Nat /\ made <= made' /\ made + 1 \in Nat \ {0}
      BY ONLY <1>3, <3>4
    <3>9. cmd \in CommandType /\ cmd.id = made + 1 /\ cmd.action = "breaker" /\ cmd.to = to
      BY <1>3, <2>3, <2>5, <3>8, CommandFacts DEF Actions
    <3>10. RuntimeFits(r, made')
      <4>1. RuntimeFits(r, made)
        BY <1>3, <3>6, <3>7, AlikeFits
      <4> QED BY <1>3, <3>8, <4>1, LogToMore
    <3>11. Grown(m) /\ LogTo(m, made')
      BY <3>1, <3>4, <3>9 DEF Grown, JobTypes
    <3>12. ValidCommands(m)
      BY <2>9, <3>1, RefusalFacts
    <3>13. "containment" \in seen' =>
             (Contained(log) \/ StopAsked(log) => Contained(m) \/ StopAsked(m))
      <4>1. "containment" \in seen' => to # Healthy
        BY <1>1, <2>9, <3>4
      <4> QED BY <1>3, <3>1, <3>9, <4>1, AppendedContained
    <3>14. /\ m \in Seq(CommandType) /\ Len(log) \in Nat /\ Len(m) = Len(log) + 1
           /\ m[Len(log) + 1] = cmd /\ Len(log) + 1 \in Breakers(m)
      <4>1. m \in Seq(CommandType) /\ Len(m) = Len(log) + 1 /\ m[Len(log) + 1] = cmd
        BY <1>3, <3>1, <3>9, Appended
      <4>2. Len(log) \in Nat
        BY <1>3, LogFacts
      <4>3. Breakers(m) = Breakers(log) \cup {Len(log) + 1}
        BY <1>3, <3>1, <3>9, AppendedBreakers
      <4> QED BY <4>1, <4>2, <4>3
    <3>15. DecisionFrom(r.decision, m)
      BY <3>5, <3>6, <3>9, <3>14 DEF DecisionFrom
    <3>16. breaker' = LogLevel(m)
      <4>1. Len(log) \in 0 .. Len(m) - 1
        BY <3>14
      <4>2. LevelAt(m, Len(log) + 1) = to
        BY <3>9, <3>14, <4>1, LevelStep
      <4> QED BY <3>4, <3>14, <4>2 DEF LogLevel
    <3>17. seen' \subseteq seen
      BY <1>1
    <3>18. Reading(m, r)
      BY <1>1, <1>2, <3>4, <3>7, <3>8, <3>10, <3>11, <3>12, <3>13, <3>15, <3>16, <3>17 DEF Reading
    <3> QED BY <3>18
  <2> QED BY <2>6, <2>7, <2>8, <2>9
<1> QED BY <1>5, <1>6 DEF CheckpointStep

LEMMA DecideWays ==
  ASSUME JobTypes, ValidCommands(log), Decide \/ DecideClosed
  PROVE  Resting \/ Ending
<1>1. /\ pc \in {"deciding", "closing"} /\ Publish
      /\ UNCHANGED <<log, seal, breaker, faults, promised>>
  BY DEF Decide, DecideClosed
<1>2. rt # NoRuntime /\ Looked
  BY <1>1 DEF JobTypes, RuntimeIn, Between, Looked
<1>3. \/ pc' \in {"polling", "closed"} /\ UNCHANGED <<rt, seen>>
      \/ \E how : EndAttempt(how) /\ (how = "contained" => Containing(rt))
  <2>1. CASE Decide
    BY <2>1 DEF Decide, KeepAttempt
  <2>2. CASE DecideClosed
    BY <2>2 DEF DecideClosed, KeepAttempt
  <2> QED BY <2>1, <2>2
<1>4. CASE pc' \in {"polling", "closed"} /\ UNCHANGED <<rt, seen>>
  <2>1. ~Looked'
    BY <1>4 DEF Looked
  <2>2. Grown(log') /\ Breakers(log') = Breakers(log) /\ ValidCommands(log')
    BY <1>1 DEF Grown
  <2> QED BY <1>1, <1>2, <1>4, <2>1, <2>2 DEF Resting
<1>5. CASE \E how : EndAttempt(how) /\ (how = "contained" => Containing(rt))
  BY <1>1, <1>2, <1>5 DEF Ending
<1> QED BY <1>3, <1>4, <1>5

LEMMA LeaveEnds ==
  ASSUME JobTypes, Reap \/ Exit
  PROVE  Ending
<1>1. /\ pc \in {"polling", "closed"} /\ UNCHANGED <<log, seal, beat, breaker, faults, promised>>
      /\ EndAttempt("success") \/ EndAttempt("error")
  BY DEF Reap, Exit, files
<1>2. rt # NoRuntime
  BY <1>1 DEF JobTypes, RuntimeIn, Between
<1> QED BY <1>1, <1>2 DEF Ending, Publish

LEMMA CalmRests ==
  ASSUME ValidCommands(log),
         Start \/ Report \/ CloseOutput \/ Repair \/ Tick \/ UNCHANGED vars
  PROVE  Resting
<1>1. /\ UNCHANGED <<log, seal, beat, rt, seen, promised, breaker, faults>>
      /\ pc' = pc \/ pc' \in {"over", "launched", "closed", "ready"}
  BY DEF Start, Report, CloseOutput, Repair, Tick, vars, files
<1>2. Looked' => Looked
  BY <1>1 DEF Looked
<1>3. Grown(log') /\ Breakers(log') = Breakers(log) /\ ValidCommands(log')
  BY <1>1 DEF Grown
<1> QED BY <1>1, <1>2, <1>3 DEF Resting

LEMMA QueueRests ==
  ASSUME JobTypes, ValidCommands(log), Queue
  PROVE  Resting
<1>1. PICK action \in Operator : log' = Append(log, Command(action, 0, 0, now, made + 1))
  BY DEF Queue
<1>2. /\ UNCHANGED <<seal, beat, pc, rt, seen, promised, breaker, faults>>
      /\ Len(log) < MaxCommands
  BY DEF Queue, QueueFits
<1>3. made \in Nat /\ log \in Seq(CommandType) /\ now \in Nat
  BY JobAssumption DEF JobTypes, RestIn, LogTo
<1>4. PICK cmd : cmd = Command(action, 0, 0, now, made + 1)
  OBVIOUS
<1>5. action \in Actions /\ action # "breaker" /\ 0 \in Levels /\ made + 1 \in Nat \ {0}
  <2>1. made + 1 \in Nat \ {0}
    BY ONLY <1>3
  <2> QED BY <2>1, JobAssumption DEF Actions, Levels, Healthy, Stopped
<1>6. cmd \in CommandType /\ cmd.id = made + 1 /\ cmd.action # "breaker"
  BY <1>3, <1>4, <1>5, CommandFacts
<1>7. log' = Append(log, cmd)
  BY <1>1, <1>4
<1>8. Grown(log')
  BY <1>6, <1>7 DEF Grown
<1>9. Breakers(log') = Breakers(log)
  BY <1>3, <1>6, <1>7, AppendedBreakers
<1>10. ValidCommands(log')
  BY <1>2, <1>3, <1>6, <1>7, ValidAppended
<1>11. Looked' => Looked
  BY <1>2 DEF Looked
<1> QED BY <1>2, <1>8, <1>9, <1>10, <1>11 DEF Resting

LEMMA StepWays ==
  ASSUME JobTypes, JobTypes', ValidCommands(log), [Next]_vars
  PROVE  Thinking \/ (\E m, r : Reading(m, r)) \/ Resting \/ Ending \/ Load \/ Damage
BY RefreshReads, HandoffWays, CheckpointWays, DecideWays, LeaveEnds, CalmRests, QueueRests
   DEF Next, JobStep, Ended

-----------------------------------------------------------------------------
(* The inductive invariant and what follows from it. *)

JobInv ==
  /\ JobTypes /\ ValidCommands(log)
  /\ faults = 0 => NoFault
  /\ faults = 1 => Intact(log) \/ Lost
  /\ faults <= 1 => Levelled

LEMMA JobInvInit == Init => JobInv
<1> SUFFICES ASSUME Init PROVE JobInv
  OBVIOUS
<1>1. JobTypes
  BY JobTypesInit
<1>2. /\ log = << >> /\ seal = NoSeal /\ beat = NoBeat /\ rt = NoRuntime /\ faults = 0
      /\ seen = {} /\ promised = Budget /\ pc = "ready"
  BY DEF Init, NoLog
<1>3. NoSeal \notin SealType /\ NoBeat \notin BeatType /\ NoSeal # Damaged /\ NoBeat # Damaged
  BY NullAssumption
<1>4. Sealed = << >>
  BY <1>2, <1>3 DEF Sealed
<1>5. PICK l : l = << >>
  OBVIOUS
<1>6. Budget <= HardAfter(l)[Len(l)]
  <2>1. HardAfter(l)[0] = Budget /\ Len(l) = 0
    BY <1>5, NoLogFacts, HardDefined
  <2>2. Budget \in Nat
    BY JobAssumption
  <2> QED BY <2>1, <2>2
<1>7. RuntimeIntact(l) /\ FilesIntact(l) /\ HistoryIntact(l) /\ LookIntact(l)
  <2>1. ~Looked
    BY <1>2 DEF Looked
  <2> QED BY <1>2, <1>3, <1>6, <2>1 DEF RuntimeIntact, FilesIntact, HistoryIntact, LookIntact, LooksAt
<1>8. NoFault
  <2>1. Intact(Sealed)
    BY <1>4, <1>5, <1>7 DEF Intact
  <2>2. Begins(Sealed, log) /\ \A i \in Breakers(log) : i <= Len(Sealed)
    BY <1>2, <1>4, NoLogFacts, BeginsItself
  <2> QED BY <1>2, <1>3, <2>1, <2>2 DEF NoFault
<1>9. Levelled /\ ValidCommands(log)
  BY <1>2, NoLogValid DEF Levelled, LooksAt, Looked
<1> QED BY <1>1, <1>2, <1>8, <1>9 DEF JobInv

\* A log that was valid stays valid.
LEMMA ValidStep ==
  ASSUME JobTypes, JobTypes', ValidCommands(log), [Next]_vars
  PROVE  ValidCommands(log)'
<1>1. ValidCommands(log')
  <2>1. CASE Thinking \/ Ending \/ Load \/ Resting
    BY <2>1 DEF Thinking, Ending, Load, Resting, files
  <2>2. CASE \E m, r : Reading(m, r)
    BY <2>2 DEF Reading
  <2>3. CASE Damage
    BY <2>3, NoLogValid DEF Damage, NoLog
  <2> QED BY <2>1, <2>2, <2>3, StepWays
<1> QED BY <1>1 DEF ValidCommands, Breakers, LevelAt

LEMMA FaultsStep ==
  ASSUME JobTypes, JobTypes', ValidCommands(log), [Next]_vars
  PROVE  /\ faults \in Nat /\ (faults' = faults \/ faults' = faults + 1)
         /\ Damage => faults' = faults + 1
<1>1. faults \in Nat
  BY JobAssumption DEF JobTypes, FilesFit
<1>2. Damage => faults' = faults + 1
  BY DEF Damage
<1>3. Thinking => faults' = faults \/ faults' = faults + 1
  BY DEF Thinking
<1>4. Ending \/ Load \/ Resting => faults' = faults
  BY DEF Ending, Load, Resting
<1>5. ASSUME NEW m, NEW r, Reading(m, r) PROVE faults' = faults \/ faults' = faults + 1
  <2>1. StoreRefresh(m, r)
    BY <1>5 DEF Reading
  <2> QED BY ONLY <2>1 DEF StoreRefresh
<1> QED BY <1>1, <1>2, <1>3, <1>4, <1>5, StepWays

\* Whatever a step is but damage, what was intact stays intact.
LEMMA IntactStep ==
  ASSUME JobTypes, JobTypes', ValidCommands(log), [Next]_vars, ~Damage, Levelled, Intact(log)
  PROVE  Intact(log)' /\ Levelled'
<1>1. CASE Thinking
  <2>1. PICK l : l = log
    OBVIOUS
  <2>2. Intact(l)'
    BY <1>1, <2>1, ThinkingIntact
  <2>3. log' = l
    BY <1>1, <2>1 DEF Thinking
  <2> QED BY <1>1, <2>2, <2>3, IntactSame, ThinkingLevelled
<1>2. CASE \E m, r : Reading(m, r)
  BY <1>2, ReadingIntact, ReadingLevelled
<1>3. CASE Resting
  BY <1>3, RestingWhole, RestingLevelled
<1>4. CASE Ending
  BY <1>4, EndingWhole, EndingLevelled
<1>5. CASE Load
  BY <1>5, LoadWhole, LoadLevelled
<1> QED BY <1>1, <1>2, <1>3, <1>4, <1>5, StepWays

LEMMA NoFaultStep ==
  ASSUME JobTypes, JobTypes', ValidCommands(log), [Next]_vars, ~Damage, Levelled, NoFault,
         UNCHANGED faults
  PROVE  NoFault'
<1>1. CASE \E m, r : Reading(m, r)
  BY <1>1, ReadingNoFault
<1> QED BY <1>1, ThinkingNoFault, RestingNoFault, EndingNoFault, LoadNoFault, StepWays

LEMMA LostStep ==
  ASSUME JobTypes, JobTypes', ValidCommands(log), [Next]_vars, ~Damage, Levelled, Lost
  PROVE  Lost' /\ Levelled'
<1>1. CASE \E m, r : Reading(m, r)
  BY <1>1, ReadingLost DEF Levelled, LooksAt
<1>2. CASE Thinking
  BY <1>2, ThinkingLost, ThinkingLevelled
<1>3. CASE Resting
  BY <1>3, RestingLost, RestingLevelled
<1>4. CASE Ending
  BY <1>4, EndingLost, EndingLevelled
<1>5. CASE Load
  BY <1>5, LoadLost, LoadLevelled
<1> QED BY <1>1, <1>2, <1>3, <1>4, <1>5, StepWays

LEMMA JobInvStep == JobInv /\ [Next]_vars => JobInv'
<1> SUFFICES ASSUME JobInv, [Next]_vars PROVE JobInv'
  OBVIOUS
<1>1. JobTypes /\ JobTypes' /\ ValidCommands(log)
  BY JobTypesStep DEF JobInv
<1>2. ValidCommands(log)'
  BY <1>1, ValidStep
<1>3. /\ faults \in Nat /\ (faults' = faults \/ faults' = faults + 1)
      /\ Damage => faults' = faults + 1
  BY <1>1, FaultsStep
<1>4. ASSUME faults' = 0 PROVE NoFault' /\ Levelled'
  <2>1. faults = 0 /\ ~Damage /\ faults' = faults
    BY ONLY <1>3, <1>4
  <2>2. NoFault /\ Levelled
    BY <2>1 DEF JobInv
  <2>3. Intact(log)
    BY <1>1, <2>2, NoFaultIntact
  <2> QED BY <1>1, <2>1, <2>2, <2>3, NoFaultStep, IntactStep
<1>5. ASSUME faults' = 1 PROVE (Intact(log)' \/ Lost') /\ Levelled'
  <2>1. (faults = 0 \/ faults = 1) /\ (Damage => faults = 0)
    BY ONLY <1>3, <1>5
  <2>2. Levelled
    BY <2>1 DEF JobInv
  <2>3. CASE faults = 0 /\ Damage
    BY <1>1, <2>2, <2>3, DamageStarts, DamageLevelled DEF JobInv
  <2>4. CASE faults = 0 /\ ~Damage
    <3>1. Intact(log)
      BY <1>1, <2>4, NoFaultIntact DEF JobInv
    <3> QED BY <1>1, <2>2, <2>4, <3>1, IntactStep
  <2>5. CASE faults = 1 /\ ~Damage
    <3>1. Intact(log) \/ Lost
      BY <2>5 DEF JobInv
    <3> QED BY <1>1, <2>2, <2>5, <3>1, IntactStep, LostStep
  <2> QED BY <2>1, <2>3, <2>4, <2>5
<1>6. faults' <= 1 => faults' = 0 \/ faults' = 1
  BY <1>3
<1> QED BY <1>1, <1>2, <1>4, <1>5, <1>6 DEF JobInv

LEMMA JobInvAlways == Spec => []JobInv
BY JobInvInit, JobInvStep, PTL DEF Spec

\* At most one fault leaves one of three states.
LEMMA JobInvCases ==
  ASSUME JobInv, faults <= 1
  PROVE  /\ Levelled /\ JobTypes
         /\ NoFault \/ Intact(log) \/ Lost
<1>1. faults = 0 \/ faults = 1
  BY JobAssumption DEF JobInv, JobTypes, FilesFit
<1> QED BY <1>1 DEF JobInv

\* The level of the breaker: an enforcing breaker, its runtime control and what
\* they have read agree whenever an iteration decides, besides the types
\* (record_breaker, _refresh_locked).
THEOREM JobControlCorrect == Spec => []ControlInv
<1>1. ASSUME JobInv PROVE ControlInv
  <2>1. TypeOK
    BY <1>1, JobTypesOK DEF JobInv
  <2>2. LevelsAgree
    BY <1>1, JobInvCases DEF LevelsAgree, Levelled, LooksAt, Looked
  <2> QED BY <2>1, <2>2 DEF ControlInv
<1> QED BY <1>1, JobInvAlways, PTL

\* No attempt that looks forgets the cancel that an earlier attempt knew of when it
\* was stopped, or the containment that stopped it, although one file was lost or
\* damaged (_load_prior_high_water, _salvage_authenticated_control_state).
THEOREM KnowledgeKept == Spec => []KnowledgeSurvives
<1>1. ASSUME JobInv PROVE KnowledgeSurvives
  <2> SUFFICES ASSUME Looked, faults <= 1 PROVE Knows(rt)
    BY DEF KnowledgeSurvives, Knows
  <2>1. rt # NoRuntime
    BY <1>1 DEF JobInv, JobTypes, RuntimeIn, Looked, Between
  <2> QED BY <1>1, <2>1, JobInvCases DEF NoFault, Intact, LookIntact, Lost
<1> QED BY <1>1, JobInvAlways, PTL

\* No attempt that trusts the log arrives at an earlier hard deadline than an
\* attempt before it went by (_refresh_locked).
THEOREM DeadlineKept == Spec => []DeadlineStands
<1>1. ASSUME JobInv PROVE DeadlineStands
  <2> SUFFICES ASSUME LooksAt, faults <= 1 PROVE rt.hard >= promised
    BY DEF DeadlineStands, LooksAt
  <2>1. promised <= rt.hard
    BY <1>1, JobInvCases DEF NoFault, Intact, LookIntact, Lost
  <2>2. rt.hard \in Nat /\ promised \in Nat
    <3>1. rt # NoRuntime
      BY <1>1 DEF JobInv, JobTypes, RuntimeIn, LooksAt, Looked, Between
    <3> QED BY <1>1, <3>1, JobAssumption
            DEF JobInv, JobTypes, RuntimeIn, RuntimeFits, RuntimeType, FilesFit
  <2> QED BY <2>1, <2>2
<1> QED BY <1>1, JobInvAlways, PTL

=============================================================================

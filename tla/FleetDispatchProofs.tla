-------------------------- MODULE FleetDispatchProofs --------------------------
(***************************************************************************)
(* Proofs about FleetDispatch: FleetInv is inductive, and no operation     *)
(* decides on a ledger that has lost a transition, for any dispatchers,    *)
(* ceilings, faults and tampering.                                         *)
(*                                                                         *)
(* There are three kinds of steps.  One moves a dispatcher and leaves the  *)
(* files alone, and nobody comes nearer to a launch (Wanes, MovesKeep).    *)
(* One changes the files and leaves the dispatchers alone (FilesKeep).  The *)
(* end of an operation tells its dispatcher what the files hold            *)
(* (Advances, AckKeeps).                                                   *)
(***************************************************************************)
EXTENDS FleetDispatch, FiniteSetTheorems, TLAPS

-----------------------------------------------------------------------------
(* Ledgers                                                                 *)

Evidence == {"no", "yes", "unknown"}

\* A transition writes one claim.
LEMMA MovedFacts ==
  ASSUME NEW l \in Ledgers, NEW d \in Dispatcher, NEW phase \in Phases,
         NEW contacted \in Evidence
  PROVE  LET m == Moved(l, d, phase, contacted) IN
         /\ m \in Ledgers
         /\ m.gen = l.gen + 1
         /\ Phase(m, d) = phase /\ m.claims[d].contacted = contacted
         /\ \A e \in Dispatcher \ {d} : m.claims[e] = l.claims[e]
<1> DEFINE claim == [phase |-> phase, contacted |-> contacted]
           claims == [l.claims EXCEPT ![d] = claim]
<1>1. /\ l.gen \in Nat
      /\ l.claims \in [Dispatcher -> [phase : Phases, contacted : Evidence]]
  BY DEF Ledgers, Evidence
<1>2. claim \in [phase : Phases, contacted : Evidence]
      /\ claim.phase = phase /\ claim.contacted = contacted
  OBVIOUS
<1>3. Moved(l, d, phase, contacted) = [gen |-> l.gen + 1, claims |-> claims]
  BY DEF Moved
<1> HIDE DEF claim
<1>4. /\ claims \in [Dispatcher -> [phase : Phases, contacted : Evidence]]
      /\ claims[d] = claim
      /\ \A e \in Dispatcher \ {d} : claims[e] = l.claims[e]
  BY <1>1, <1>2
<1> HIDE DEF claims
<1>5. l.gen + 1 \in Nat
  BY <1>1
<1> QED
  BY <1>2, <1>3, <1>4, <1>5 DEF Ledgers, Evidence, Phase

LEMMA NoLedgerType == NoLedger \in Ledgers
  BY DEF NoLedger, Ledgers, Phases

\* What the table of transitions has in common.
LEMMA Rows ==
  ASSUME NEW t \in Callbacks \cup Doubt \cup Settle
  PROVE  /\ t[1] \in Operating /\ t[2] \in Phases /\ t[3] \in Phases \ {"absent"}
         /\ t[4] \in Evidence
         /\ t[3] = "reserved" => t[1] = "new" /\ t[2] = "absent"
         /\ t[3] = "cancelled_pre_spawn" => t[1] = "finish" /\ t[2] = "reserved"
         /\ t[3] = "spawn_failed" => t[1] = "unspawned"
         /\ t[3] = "terminal" => t[1] = "finish" /\ t[2] \in {"reaped", "spawn_failed"}
         /\ t[1] = "new" => t[3] = "reserved"
         /\ t[1] = "held" => t[3] = "provider_launch_claimed"
         /\ t[4] = "no" => t[3] \in {"reserved", "cancelled_pre_spawn", "spawn_failed"}
                           \/ t[2] = "spawn_failed"
         /\ Rank(t[2]) =< Rank(t[3])
         /\ t[2] \in ActivePhases /\ t[3] \notin ActivePhases => t[1] \in {"unspawned", "finish"}
         /\ t[3] \in ActivePhases => t[2] \in ActivePhases \/ t[1] = "new"
         /\ t[3] \notin {"absent", "cancelled_pre_spawn"} =>
               t[2] \notin {"absent", "cancelled_pre_spawn"} \/ t[1] = "new"
<1>1. CASE t \in Callbacks
  BY <1>1 DEF Callbacks, Operating, Phases, Evidence, Rank, ActivePhases
<1>2. CASE t \in Doubt
  BY <1>2 DEF Doubt, Operating, Phases, Evidence, Rank, ActivePhases
<1>3. CASE t \in Settle
  BY <1>3 DEF Settle, Operating, Phases, Evidence, Rank, ActivePhases
<1> QED BY <1>1, <1>2, <1>3

\* The place is where the dispatcher is, or the fallback of its end.
LEMMA PlaceFacts ==
  ASSUME NEW d \in Dispatcher
  PROVE  /\ Place(d) = at[d] \/ (Place(d) = "doubt" /\ at[d] = "finish")
  BY DEF Place

\* What an operation makes of a ledger.
LEMMA TargetFacts ==
  ASSUME NEW l \in Ledgers, NEW d \in Dispatcher, NEW m \in Targets(l, d)
  PROVE  \E t \in Callbacks \cup Doubt \cup Settle :
            /\ t[1] = Place(d) /\ t[2] = Phase(l, d)
            /\ at[d] = "new" => Room(l, d)
            /\ m \in Ledgers /\ m.gen = l.gen + 1
            /\ Phase(m, d) = t[3] /\ m.claims[d].contacted = t[4]
            /\ \A e \in Dispatcher \ {d} : m.claims[e] = l.claims[e]
<1>1. PICK t \in Callbacks \cup Doubt \cup Settle :
         /\ m = Moved(l, d, t[3], t[4])
         /\ t[1] = Place(d) /\ t[2] = Phase(l, d)
         /\ at[d] = "new" => Room(l, d)
  BY DEF Targets
<1>2. t[3] \in Phases /\ t[4] \in Evidence
  BY Rows
<1> QED
  BY <1>1, <1>2, MovedFacts

-----------------------------------------------------------------------------
(* The dispatchers                                                         *)

AfterLaunch == {"unspawned", "doubt", "finish", "ended", "dead"}

ProcessTypes ==
  /\ at \in [Dispatcher -> Places]
  /\ round \in [Dispatcher -> 1..3]
  /\ child \in [Dispatcher -> {"none", "running", "gone"}]
  /\ answer \in [Dispatcher -> {"none", "no", "yes", "unknown"}]
  /\ acked \in [Dispatcher -> Phases]

Fits(d) ==
  /\ at[d] = "new" => acked[d] = "absent"
  /\ d \in Launching => acked[d] # "absent"
  /\ at[d] \in {"new", "held", "claimed", "unspawned"} => child[d] = "none"
  /\ at[d] = "popened" => child[d] # "none"
  /\ child[d] = "running" => at[d] \in {"popened", "running", "dead"}
  /\ answer[d] # "none" => at[d] = "ended"
  /\ d \in Launched => answer[d] # "no"

Processes == ProcessTypes /\ \A d \in Dispatcher : Fits(d)

\* A step that tells no dispatcher anything: nobody comes nearer to a launch.
Wanes ==
  /\ Processes'
  /\ acked' = acked
  /\ Launching' \subseteq Launching /\ Occupying' \subseteq Occupying
  /\ \A d \in Dispatcher : Barred(d) => Barred(d)'

LEMMA SameWanes == ASSUME Processes, UNCHANGED process PROVE Wanes
  BY DEF process, Wanes, Processes, ProcessTypes, Fits, Launching, Occupying, Launched, Barred

\* One dispatcher moves to another place, its child and its answer with it.
LEMMA OneMoves ==
  ASSUME Processes, NEW d \in Dispatcher, NEW to \in Places \ {"new"},
         NEW c \in {"none", "running", "gone"}, NEW a \in {"none", "no", "yes", "unknown"},
         at' = [at EXCEPT ![d] = to],
         child' = [child EXCEPT ![d] = c],
         answer' = [answer EXCEPT ![d] = a],
         acked' = acked, round' \in [Dispatcher -> 1..3],
         c # "none" \/ to = "claimed" => d \in Launching,
         c = "running" \/ to = "claimed" => d \in Occupying,
         Barred(d) => c = "none" /\ to \in AfterLaunch,
         to \in {"held", "claimed", "unspawned"} => c = "none",
         to = "popened" => c # "none",
         c = "running" => to \in {"popened", "running", "dead"},
         a # "none" => to = "ended",
         c # "none" => a # "no"
  PROVE  Wanes
<1>1. /\ at'[d] = to /\ child'[d] = c /\ answer'[d] = a /\ acked'[d] = acked[d]
      /\ \A e \in Dispatcher \ {d} :
            at'[e] = at[e] /\ child'[e] = child[e] /\ answer'[e] = answer[e]
  BY DEF Processes, ProcessTypes
<1>2. ProcessTypes'
  BY DEF Processes, ProcessTypes
<1>3. Launching' \subseteq Launching /\ Occupying' \subseteq Occupying
  BY <1>1 DEF Launching, Occupying
<1>4. \A e \in Dispatcher : Barred(e) => Barred(e)'
  BY <1>1 DEF Barred, AfterLaunch
<1>5. Fits(d)'
  BY <1>1, <1>3 DEF Fits, Launching, Launched, Processes
<1>6. \A e \in Dispatcher \ {d} : Fits(e)'
  BY <1>1, <1>3 DEF Fits, Launching, Launched, Processes
<1> QED
  BY <1>2, <1>3, <1>4, <1>5, <1>6 DEF Wanes, Processes

\* What stays is what it is set to.
LEMMA Unmoved ==
  ASSUME Processes, NEW d \in Dispatcher
  PROVE  /\ child' = child => child' = [child EXCEPT ![d] = child[d]]
         /\ answer' = answer => answer' = [answer EXCEPT ![d] = answer[d]]
         /\ child[d] \in {"none", "running", "gone"}
         /\ answer[d] \in {"none", "no", "yes", "unknown"}
         /\ at[d] \in Places /\ round[d] \in 1..3 /\ Fits(d)
         /\ round' = round => round' \in [Dispatcher -> 1..3]
  BY DEF Processes, ProcessTypes

LEMMA PopenWanes == ASSUME Processes, NEW d \in Dispatcher, Popen(d) PROVE Wanes
<1>1. at[d] = "claimed" /\ answer' = answer /\ round' = round /\ acked' = acked
  BY DEF Popen
<1>2. /\ Fits(d) /\ answer[d] = "none" /\ child[d] = "none" /\ ~Barred(d)
      /\ d \in Launching /\ d \in Occupying
  BY <1>1, Unmoved DEF Fits, Barred, Launching, Occupying
<1>3. CASE child' = [child EXCEPT ![d] = "running"] /\ at' = [at EXCEPT ![d] = "popened"]
  BY <1>1, <1>2, <1>3, Unmoved, OneMoves DEF Places, Operating
<1>4. ASSUME NEW to \in {"unspawned", "doubt"}, at' = [at EXCEPT ![d] = to], child' = child
      PROVE  Wanes
  BY <1>1, <1>2, <1>4, Unmoved, OneMoves DEF Places, Operating
<1> QED
  BY <1>3, <1>4 DEF Popen

LEMMA GiveUpWanes == ASSUME Processes, NEW d \in Dispatcher, GiveUp(d) PROVE Wanes
<1>1. /\ at[d] = "held" /\ UNCHANGED <<answer, round, acked, child>>
      /\ \E next \in {"finish", "unspawned"} : at' = [at EXCEPT ![d] = next]
  BY DEF GiveUp
<1>2. Fits(d) /\ answer[d] = "none" /\ child[d] = "none" /\ ~Barred(d)
  BY <1>1, Unmoved DEF Fits, Barred
<1>3. PICK to \in {"finish", "unspawned"} : at' = [at EXCEPT ![d] = to]
  BY <1>1
<1> QED
  BY <1>1, <1>2, <1>3, Unmoved, OneMoves DEF Places, Operating

LEMMA ChildEndsWanes == ASSUME Processes, NEW d \in Dispatcher, ChildEnds(d) PROVE Wanes
<1>1. /\ child[d] = "running" /\ at[d] \in {"running", "dead"}
      /\ child' = [child EXCEPT ![d] = "gone"] /\ UNCHANGED <<answer, round, acked>>
  BY DEF ChildEnds
<1>2. Fits(d) /\ answer[d] = "none" /\ ~Barred(d) /\ d \in Launching
  BY <1>1, Unmoved DEF Fits, Barred, Launching
<1>3. PICK to \in {"exited", "dead"} : at' = [at EXCEPT ![d] = to]
  <2>1. CASE at[d] = "running"
    BY <2>1 DEF ChildEnds
  <2>2. CASE at[d] = "dead"
    BY <1>1, <2>2 DEF ChildEnds, Processes, ProcessTypes
  <2> QED BY <1>1, <2>1, <2>2
<1> QED
  BY <1>1, <1>2, <1>3, Unmoved, OneMoves DEF Places, Operating

LEMMA DieWanes == ASSUME Processes, NEW d \in Dispatcher, Die(d) PROVE Wanes
<1>1. /\ at[d] \notin {"ended", "dead"} /\ at' = [at EXCEPT ![d] = "dead"]
      /\ UNCHANGED <<round, child, answer, acked>>
  BY DEF Die
<1>2. Fits(d) /\ answer[d] = "none"
  BY <1>1, Unmoved DEF Fits
<1> QED
  BY <1>1, <1>2, Unmoved, OneMoves DEF Places, Launching, Occupying, Barred, AfterLaunch

\* A refusal, whatever is known of contact.
LEMMA RefusedWanes ==
  ASSUME Processes, NEW d \in Dispatcher, NEW known, at[d] \in Operating, Refused(d, known)
  PROVE  Wanes
<1>1. acked' = acked /\ Fits(d) /\ answer[d] = "none"
  BY Unmoved DEF Refused, Fits, Operating
<1>2. CASE at[d] = "finish" /\ round[d] < 3
  <2>1. /\ round' = [round EXCEPT ![d] = @ + 1]
        /\ UNCHANGED <<at, child, answer>>
    BY <1>2 DEF Refused, FinishRefused
  <2>2. round' \in [Dispatcher -> 1..3]
    BY <1>2, <2>1 DEF Processes, ProcessTypes
  <2>3. at' = [at EXCEPT ![d] = "finish"]
    BY <1>2, <2>1 DEF Processes, ProcessTypes
  <2>4. child[d] # "running" /\ child[d] \in {"none", "running", "gone"}
    BY <1>1, <1>2, Unmoved DEF Fits
  <2>5. child' = [child EXCEPT ![d] = child[d]] /\ answer' = [answer EXCEPT ![d] = "none"]
    BY <1>1, <2>1, Unmoved
  <2>6. /\ child[d] # "none" => d \in Launching
        /\ Barred(d) => child[d] = "none"
    BY DEF Launching, Barred
  <2> QED
    BY <1>1, <2>2, <2>3, <2>4, <2>5, <2>6, OneMoves DEF Places, Operating, AfterLaunch
<1>3. CASE at[d] = "finish" /\ ~(round[d] < 3)
  <2>1. /\ at' = [at EXCEPT ![d] = "ended"]
        /\ answer' = [answer EXCEPT ![d] = Silence(known)]
        /\ UNCHANGED <<round, child>>
    BY <1>3 DEF Refused, FinishRefused
  <2>2. Silence(known) \in {"yes", "unknown"}
    BY DEF Silence
  <2>3. child[d] # "running"
    BY <1>1, <1>3 DEF Fits
  <2> HIDE DEF Silence
  <2> QED
    BY <1>1, <1>3, <2>1, <2>2, <2>3, Unmoved, OneMoves
    DEF Places, Launching, Occupying, Barred, AfterLaunch
<1>4. CASE at[d] = "popened"
  <2>1. at' = [at EXCEPT ![d] = "killed"] /\ child' = [child EXCEPT ![d] = "gone"]
        /\ UNCHANGED <<round, answer>>
    BY <1>4 DEF Refused, Goes, Fallback
  <2>2. child[d] # "none"
    BY <1>1, <1>4 DEF Fits
  <2> QED
    BY <1>1, <1>4, <2>1, <2>2, Unmoved, OneMoves
    DEF Places, Operating, Launching, Occupying, Barred, AfterLaunch
<1>5. CASE at[d] \notin {"finish", "popened"}
  <2>1. PICK to \in {"ended", "doubt", "finish"} : at' = [at EXCEPT ![d] = to]
    BY <1>5 DEF Refused, Goes, Fallback
  <2>2. UNCHANGED <<child, round, answer>>
    BY <1>5 DEF Refused
  <2>3. child[d] # "running"
    BY <1>1, <1>5 DEF Fits, Operating
  <2> QED
    BY <1>1, <1>5, <2>1, <2>2, <2>3, Unmoved, OneMoves
    DEF Places, Operating, Launching, Occupying, Barred, AfterLaunch
<1> QED
  BY <1>2, <1>3, <1>4, <1>5

\* Who is at a launch after a dispatcher was told of a phase, and who is barred.
Advances(d, phase) ==
  /\ Processes'
  /\ acked' = [acked EXCEPT ![d] = phase]
  /\ \A e \in Launching' : e \in Launching \/ (e = d /\ phase = "provider_launch_claimed")
  /\ \A e \in Occupying' : e \in Occupying \/ (e = d /\ phase = "provider_launch_claimed")
  /\ \A e \in Dispatcher : Barred(e) => Barred(e)'

\* One dispatcher is told of a phase, and moves to another place.
LEMMA OneIsTold ==
  ASSUME Processes, NEW d \in Dispatcher, NEW to \in Places \ {"new"},
         NEW a \in {"none", "no", "yes", "unknown"}, NEW phase \in Phases \ {"absent"},
         at' = [at EXCEPT ![d] = to],
         answer' = [answer EXCEPT ![d] = a],
         acked' = [acked EXCEPT ![d] = phase],
         UNCHANGED <<child, round>>,
         to = "claimed" => phase = "provider_launch_claimed",
         Barred(d) => to \in AfterLaunch,
         to \in {"held", "claimed", "unspawned"} => child[d] = "none",
         to # "popened",
         child[d] = "running" => to \in {"popened", "running", "dead"},
         a # "none" => to = "ended",
         child[d] # "none" => a # "no"
  PROVE  Advances(d, phase)
<1>1. /\ at'[d] = to /\ child'[d] = child[d] /\ answer'[d] = a /\ acked'[d] = phase
      /\ \A e \in Dispatcher \ {d} : /\ at'[e] = at[e] /\ child'[e] = child[e]
                                     /\ answer'[e] = answer[e] /\ acked'[e] = acked[e]
  BY DEF Processes, ProcessTypes
<1>2. ProcessTypes'
  BY DEF Processes, ProcessTypes
<1>3. /\ \A e \in Launching' : e \in Launching \/ (e = d /\ phase = "provider_launch_claimed")
      /\ \A e \in Occupying' : e \in Occupying \/ (e = d /\ phase = "provider_launch_claimed")
  BY <1>1 DEF Launching, Occupying
<1>4. \A e \in Dispatcher : Barred(e) => Barred(e)'
  BY <1>1 DEF Barred, AfterLaunch
<1>5. Fits(d)'
  BY <1>1 DEF Fits, Launching, Launched
<1>6. \A e \in Dispatcher \ {d} : Fits(e)'
  BY <1>1 DEF Fits, Launching, Launched, Processes
<1> QED
  BY <1>2, <1>3, <1>4, <1>5, <1>6 DEF Processes, Advances

\* A dispatcher is told what its operation wrote, or read.
LEMMA AckedAdvances ==
  ASSUME Processes, NEW d \in Dispatcher, NEW l \in Ledgers, at[d] \in Operating, Acked(d, l),
         Phase(l, d) # "absent",
         at[d] = "held" => Phase(l, d) = "provider_launch_claimed",
         d \in Launched => l.claims[d].contacted # "no"
  PROVE  Advances(d, Phase(l, d))
<1> DEFINE phase == Phase(l, d)
           contacted == l.claims[d].contacted
<1>1. /\ acked' = [acked EXCEPT ![d] = phase]
      /\ Fits(d) /\ answer[d] = "none" /\ child[d] \in {"none", "running", "gone"}
      /\ UNCHANGED <<child, round>>
  BY Unmoved DEF Acked, FinishAcked, Fits, Operating
<1>2. phase \in Phases \ {"absent"} /\ contacted \in {"no", "yes", "unknown"}
  BY DEF Ledgers, Phase
<1>3. /\ at[d] = "held" => phase = "provider_launch_claimed"
      /\ child[d] # "none" => contacted # "no"
  BY DEF Launched
<1>4. CASE at[d] = "finish" /\ (phase \in Settled \/ round[d] = 3)
  <2>1. /\ at' = [at EXCEPT ![d] = "ended"] /\ answer' = [answer EXCEPT ![d] = contacted]
    BY <1>4 DEF Acked, FinishAcked
  <2>2. child[d] # "running"
    BY <1>1, <1>4 DEF Fits
  <2>3. "ended" \in Places \ {"new"} /\ "ended" \in AfterLaunch
    BY DEF Places, AfterLaunch
  <2> HIDE DEF phase, contacted
  <2>4. Advances(d, phase)
    BY <1>1, <1>2, <1>3, <2>1, <2>2, <2>3, OneIsTold
  <2> QED
    BY <2>4 DEF phase
<1>5. CASE at[d] = "finish" /\ ~(phase \in Settled \/ round[d] = 3)
  <2>1. UNCHANGED <<at, answer>>
    BY <1>5 DEF Acked, FinishAcked
  <2>2. at' = [at EXCEPT ![d] = "finish"] /\ answer' = [answer EXCEPT ![d] = "none"]
    BY <1>1, <1>5, <2>1 DEF Processes, ProcessTypes
  <2>3. child[d] # "running"
    BY <1>1, <1>5 DEF Fits
  <2>4. "finish" \in Places \ {"new"} /\ "finish" \in AfterLaunch
    BY DEF Places, Operating, AfterLaunch
  <2> HIDE DEF phase, contacted
  <2>5. Advances(d, phase)
    BY <1>1, <1>2, <2>2, <2>3, <2>4, OneIsTold
  <2> QED
    BY <2>5 DEF phase
<1>6. CASE at[d] # "finish"
  <2>1. /\ UNCHANGED answer
        /\ \E path \in Onward : path[1] = at[d] /\ at' = [at EXCEPT ![d] = path[2]]
    BY <1>6 DEF Acked, Goes
  <2>2. PICK path \in Onward : path[1] = at[d] /\ at' = [at EXCEPT ![d] = path[2]]
    BY <2>1
  <2>3. \/ at[d] = "new" /\ path[2] = "held"
        \/ at[d] = "held" /\ path[2] = "claimed"
        \/ at[d] = "popened" /\ path[2] = "running"
        \/ at[d] \in {"unspawned", "exited", "doubt"} /\ path[2] = "finish"
        \/ at[d] = "killed" /\ path[2] = "doubt"
    BY <2>2 DEF Onward
  <2>4. answer' = [answer EXCEPT ![d] = "none"]
    BY <1>1, <2>1 DEF Processes, ProcessTypes
  <2>5. /\ path[2] = "claimed" => phase = "provider_launch_claimed"
        /\ Barred(d) => path[2] \in AfterLaunch
        /\ path[2] \in {"held", "claimed", "unspawned"} => child[d] = "none"
        /\ path[2] # "popened"
        /\ child[d] = "running" => path[2] \in {"popened", "running", "dead"}
    BY <1>1, <1>3, <2>3 DEF Fits, Barred, AfterLaunch
  <2>6. path[2] \in Places \ {"new"}
    BY <2>3 DEF Places, Operating
  <2> HIDE DEF phase, contacted
  <2>7. Advances(d, phase)
    BY <1>1, <1>2, <2>2, <2>4, <2>5, <2>6, OneIsTold
  <2> QED
    BY <2>7 DEF phase
<1> QED
  BY <1>4, <1>5, <1>6

-----------------------------------------------------------------------------
(* The ceilings                                                            *)

LEMMA RankIsNat == ASSUME NEW phase PROVE Rank(phase) \in Nat
  BY DEF Rank

Bounded(s, held, active) ==
  /\ Cardinality(held) =< s.contacts
  /\ Cardinality(held \cap Billable) =< s.billable
  /\ Cardinality(active) =< s.parallel

Spending == [contacts : Nat, billable : Nat, parallel : Nat]

\* Fewer claims stay within the ceilings.
LEMMA FewerBounded ==
  ASSUME NEW s \in Spending, NEW held \in SUBSET Dispatcher, NEW active \in SUBSET Dispatcher,
         NEW held1 \in SUBSET held, NEW active1 \in SUBSET active,
         Bounded(s, held, active)
  PROVE  Bounded(s, held1, active1)
<1>1. IsFiniteSet(held) /\ IsFiniteSet(active) /\ IsFiniteSet(held \cap Billable)
  BY FleetAssumption, FS_Subset
<1>2. /\ Cardinality(held1) \in Nat /\ Cardinality(held) \in Nat
      /\ Cardinality(held1) =< Cardinality(held)
  BY <1>1, FS_Subset, FS_CardinalityType
<1>3. /\ Cardinality(active1) \in Nat /\ Cardinality(active) \in Nat
      /\ Cardinality(active1) =< Cardinality(active)
  BY <1>1, FS_Subset, FS_CardinalityType
<1>4. held1 \cap Billable \subseteq held \cap Billable
  OBVIOUS
<1>5. /\ Cardinality(held1 \cap Billable) \in Nat /\ Cardinality(held \cap Billable) \in Nat
      /\ Cardinality(held1 \cap Billable) =< Cardinality(held \cap Billable)
  BY <1>1, <1>4, FS_Subset, FS_CardinalityType
<1> QED
  BY <1>2, <1>3, <1>5 DEF Bounded, Spending

\* One claim more, when there is room for it.
LEMMA OneMoreBounded ==
  ASSUME NEW s \in Spending, NEW held \in SUBSET Dispatcher, NEW active \in SUBSET Dispatcher,
         NEW d \in Dispatcher, Bounded(s, held, active),
         Cardinality(held) < s.contacts,
         d \in Billable => Cardinality(held \cap Billable) < s.billable,
         Cardinality(active) < s.parallel
  PROVE  Bounded(s, held \cup {d}, active \cup {d})
<1>1. IsFiniteSet(held) /\ IsFiniteSet(active) /\ IsFiniteSet(held \cap Billable)
  BY FleetAssumption, FS_Subset
<1>2. /\ Cardinality(held) \in Nat /\ Cardinality(active) \in Nat
      /\ Cardinality(held \cap Billable) \in Nat
  BY <1>1, FS_CardinalityType
<1>3. ASSUME NEW S, IsFiniteSet(S)
      PROVE  Cardinality(S \cup {d}) = Cardinality(S)
             \/ Cardinality(S \cup {d}) = Cardinality(S) + 1
  BY <1>3, FS_AddElement
<1>4. Cardinality(held \cup {d}) =< s.contacts
  BY <1>1, <1>2, <1>3 DEF Spending
<1>5. Cardinality(active \cup {d}) =< s.parallel
  BY <1>1, <1>2, <1>3 DEF Spending
<1>6. Cardinality((held \cup {d}) \cap Billable) =< s.billable
  <2>1. CASE d \in Billable
    <3>1. (held \cup {d}) \cap Billable = (held \cap Billable) \cup {d}
      BY <2>1
    <3> QED BY <1>1, <1>2, <1>3, <2>1, <3>1 DEF Spending
  <2>2. CASE d \notin Billable
    <3>1. (held \cup {d}) \cap Billable = held \cap Billable
      BY <2>2
    <3> QED BY <3>1 DEF Bounded
  <2> QED BY <2>1, <2>2
<1> QED
  BY <1>4, <1>5, <1>6 DEF Bounded

LEMMA CeilingsAreBounds ==
  ASSUME NEW held, NEW active
  PROVE  /\ WithinCeilings(held, active) <=> Bounded(spend, held, active)
         /\ WithinCeilings(held, active)' <=> Bounded(spend', held, active)
  BY DEF WithinCeilings, Bounded

LEMMA SpendType == ASSUME spend \in Spends PROVE spend \in Spending
  BY FleetAssumption DEF Spending

LEMMA HeldType ==
  ASSUME NEW l
  PROVE  Held(l) \in SUBSET Dispatcher /\ In(l, ActivePhases) \in SUBSET Dispatcher
  BY DEF Held, Consumed, In

\* Who holds room, and who occupies a place, in a ledger.
LEMMA HeldFacts ==
  ASSUME NEW l, NEW d \in Dispatcher
  PROVE  /\ d \in Held(l) <=> Phase(l, d) \in Phases \ {"absent", "cancelled_pre_spawn"}
         /\ d \in In(l, ActivePhases) <=> Phase(l, d) \in ActivePhases
  BY DEF Held, Consumed, In, ConsumedPhases, Phases

\* An operation makes a sound ledger of a sound one.
LEMMA TargetIsSound ==
  ASSUME Processes, spend \in Spends, NEW l \in Ledgers, NEW d \in Dispatcher,
         NEW m \in Targets(l, d), Sound(l)
  PROVE  Sound(m)
<1>1. PICK t \in Callbacks \cup Doubt \cup Settle :
         /\ t[1] = Place(d) /\ t[2] = Phase(l, d)
         /\ at[d] = "new" => Room(l, d)
         /\ m \in Ledgers /\ m.gen = l.gen + 1
         /\ Phase(m, d) = t[3] /\ m.claims[d].contacted = t[4]
         /\ \A e \in Dispatcher \ {d} : m.claims[e] = l.claims[e]
  BY TargetFacts
<1>2. \A e \in Dispatcher \ {d} : Phase(m, e) = Phase(l, e)
  BY <1>1 DEF Phase
<1>3. /\ t[2] \in Phases /\ t[3] \in Phases \ {"absent"}
      /\ t[3] = "reserved" => t[1] = "new" /\ t[2] = "absent"
      /\ t[3] = "cancelled_pre_spawn" => t[2] = "reserved"
      /\ t[1] = "new" => t[3] = "reserved"
      /\ Rank(t[2]) =< Rank(t[3])
      /\ t[2] \in ActivePhases /\ t[3] \notin ActivePhases => t[1] \in {"unspawned", "finish"}
      /\ t[3] \in ActivePhases => t[2] \in ActivePhases \/ t[1] = "new"
      /\ t[3] \notin {"absent", "cancelled_pre_spawn"} =>
            t[2] \notin {"absent", "cancelled_pre_spawn"} \/ t[1] = "new"
  BY Rows
<1>4. t[1] = at[d] \/ (t[1] = "doubt" /\ at[d] = "finish")
  BY <1>1, PlaceFacts
<1>5. Fits(d)
  BY DEF Processes
<1>6. Remembers(l) /\ Bounded(spend, Held(l), In(l, ActivePhases))
  BY CeilingsAreBounds DEF Sound
<1>7. Remembers(m)
  <2>1. ASSUME NEW e \in Dispatcher PROVE Rank(acked[e]) =< Rank(Phase(m, e))
    <3>1. /\ Rank(acked[e]) \in Nat /\ Rank(Phase(l, e)) \in Nat /\ Rank(Phase(m, e)) \in Nat
      BY RankIsNat
    <3>2. Rank(acked[e]) =< Rank(Phase(l, e))
      BY <1>6 DEF Remembers
    <3>3. Rank(Phase(l, e)) =< Rank(Phase(m, e))
      <4>1. CASE e = d BY <1>1, <1>3, <4>1
      <4>2. CASE e # d BY <1>2, <3>1, <4>2
      <4> QED BY <4>1, <4>2
    <3> QED BY <3>1, <3>2, <3>3
  <2>2. ASSUME NEW e \in Launching PROVE Phase(m, e) \in ConsumedPhases
    <3>1. e \in Dispatcher /\ Phase(l, e) \in ConsumedPhases
      BY <1>6, <2>2 DEF Remembers, Launching
    <3>2. CASE e = d
      BY <1>1, <1>3, <3>1, <3>2 DEF ConsumedPhases
    <3>3. CASE e # d
      BY <1>2, <3>1, <3>3
    <3> QED BY <3>2, <3>3
  <2>3. ASSUME NEW e \in Occupying PROVE Phase(m, e) \in ActivePhases
    <3>1. e \in Dispatcher /\ Phase(l, e) \in ActivePhases
      BY <1>6, <2>3 DEF Remembers, Occupying
    <3>2. CASE e = d
      <4>1. at[d] \notin {"unspawned", "finish"}
        BY <1>5, <2>3, <3>2 DEF Occupying, Fits
      <4> QED BY <1>1, <1>3, <1>4, <3>1, <3>2, <4>1
    <3>3. CASE e # d
      BY <1>2, <3>1, <3>3
    <3> QED BY <3>2, <3>3
  <2> QED
    BY <2>1, <2>2, <2>3 DEF Remembers
<1>8. Bounded(spend, Held(m), In(m, ActivePhases))
  <2>1. spend \in Spending /\ Held(l) \in SUBSET Dispatcher
        /\ In(l, ActivePhases) \in SUBSET Dispatcher
    BY SpendType, HeldType
  <2>2. CASE t[1] = "new"
    <3>1. Room(l, d)
      BY <1>1, <1>4, <2>2
    <3>2. /\ Cardinality(Held(l)) < spend.contacts
          /\ d \in Billable => Cardinality(Held(l) \cap Billable) < spend.billable
          /\ Cardinality(In(l, ActivePhases)) < spend.parallel
      BY <3>1 DEF Room
    <3>3. Bounded(spend, Held(l) \cup {d}, In(l, ActivePhases) \cup {d})
      BY <1>6, <2>1, <3>2, OneMoreBounded
    <3>4. Held(m) \in SUBSET (Held(l) \cup {d})
      BY <1>2, HeldType, HeldFacts
    <3>5. In(m, ActivePhases) \in SUBSET (In(l, ActivePhases) \cup {d})
      BY <1>2, HeldType, HeldFacts
    <3>6. Held(l) \cup {d} \in SUBSET Dispatcher
          /\ In(l, ActivePhases) \cup {d} \in SUBSET Dispatcher
      BY <2>1
    <3> QED
      BY <2>1, <3>3, <3>4, <3>5, <3>6, FewerBounded
  <2>3. CASE t[1] # "new"
    <3>1. d \in Held(m) => d \in Held(l)
      BY <1>1, <1>3, <2>3, HeldFacts
    <3>2. d \in In(m, ActivePhases) => d \in In(l, ActivePhases)
      BY <1>1, <1>3, <2>3, HeldFacts
    <3>3. Held(m) \in SUBSET Held(l)
      BY <1>2, <3>1, HeldType, HeldFacts
    <3>4. In(m, ActivePhases) \in SUBSET In(l, ActivePhases)
      BY <1>2, <3>2, HeldType, HeldFacts
    <3> QED
      BY <1>6, <2>1, <3>3, <3>4, FewerBounded
  <2> QED BY <2>2, <2>3
<1> QED
  BY <1>7, <1>8, CeilingsAreBounds DEF Sound

\* An operation denies contact only for a dispatcher that will not launch.
LEMMA TargetDenies ==
  ASSUME Processes, NEW l \in Ledgers, NEW d \in Dispatcher, NEW m \in Targets(l, d),
         Remembers(l), \A e \in Dispatcher : Denies(l, e) => Barred(e)
  PROVE  /\ \A e \in Dispatcher : Denies(m, e) => Barred(e)
         /\ m \in Ledgers /\ m.gen = l.gen + 1 /\ Phase(m, d) # "absent"
         /\ at[d] = "new" => Phase(m, d) = "reserved"
         /\ at[d] = "held" => Phase(m, d) = "provider_launch_claimed"
<1>1. PICK t \in Callbacks \cup Doubt \cup Settle :
         /\ t[1] = Place(d) /\ t[2] = Phase(l, d)
         /\ m \in Ledgers /\ m.gen = l.gen + 1
         /\ Phase(m, d) = t[3] /\ m.claims[d].contacted = t[4]
         /\ \A e \in Dispatcher \ {d} : m.claims[e] = l.claims[e]
  BY TargetFacts
<1>2. /\ t[3] # "absent"
      /\ t[3] = "cancelled_pre_spawn" => t[1] = "finish" /\ t[2] = "reserved"
      /\ t[3] = "spawn_failed" => t[1] = "unspawned"
      /\ t[1] = "new" => t[3] = "reserved"
      /\ t[1] = "held" => t[3] = "provider_launch_claimed"
      /\ t[4] = "no" => t[3] \in {"reserved", "cancelled_pre_spawn", "spawn_failed"}
                        \/ t[2] = "spawn_failed"
  BY Rows
<1>3. t[1] = at[d] \/ (t[1] = "doubt" /\ at[d] = "finish")
  BY <1>1, PlaceFacts
<1>4. ASSUME NEW e \in Dispatcher, Denies(m, e) PROVE Barred(e)
  <2>1. CASE e # d
    BY <1>1, <1>4, <2>1 DEF Denies, Phase
  <2>2. CASE e = d
    <3>1. CASE t[3] = "cancelled_pre_spawn"
      <4>1. at[d] = "finish" /\ Phase(l, d) = "reserved"
        BY <1>1, <1>2, <1>3, <3>1
      <4>2. d \notin Launching
        BY <4>1 DEF Remembers, ConsumedPhases
      <4> QED BY <2>2, <4>1, <4>2 DEF Launching, Barred
    <3>2. CASE t[3] = "spawn_failed"
      <4>1. at[d] = "unspawned"
        BY <1>2, <1>3, <3>2
      <4>2. child[d] = "none"
        BY <4>1 DEF Processes, Fits
      <4> QED BY <2>2, <4>1, <4>2 DEF Barred
    <3>3. CASE t[3] \notin {"cancelled_pre_spawn", "spawn_failed"}
      <4>1. t[2] = "spawn_failed"
        BY <1>1, <1>2, <1>4, <2>2, <3>3 DEF Denies
      <4> QED BY <1>1, <2>2, <4>1 DEF Denies
    <3> QED BY <3>1, <3>2, <3>3
  <2> QED BY <2>1, <2>2
<1>5. /\ at[d] = "new" => t[1] = "new"
      /\ at[d] = "held" => t[1] = "held"
  BY <1>3
<1> QED
  BY <1>1, <1>2, <1>4, <1>5

-----------------------------------------------------------------------------
(* What a step leaves sound                                                *)

\* The ledger remembers, and bounds, what there will be after the step.
SoundNext(l) ==
  /\ \A d \in Dispatcher : Rank(acked'[d]) =< Rank(Phase(l, d))
  /\ \A d \in Launching' : Phase(l, d) \in ConsumedPhases
  /\ \A d \in Occupying' : Phase(l, d) \in ActivePhases
  /\ Bounded(spend', Held(l), In(l, ActivePhases))

LEMMA SoundLatestNext == SoundNext(Latest') => Sound(Latest)'
  BY DEF SoundNext, Sound, Remembers, WithinCeilings, Bounded, Held, Consumed, In, Phase

LEMMA SoundTargetNext == SoundNext(op'.target) => Sound(op.target)'
  BY DEF SoundNext, Sound, Remembers, WithinCeilings, Bounded, Held, Consumed, In, Phase

\* Whoever is at a launch is within the ceilings as well.
LEMMA SoundBounds ==
  ASSUME spend' \in Spending, NEW l, SoundNext(l)
  PROVE  Bounded(spend', Launching', Occupying')
<1>1. Launching' \in SUBSET Held(l)
  BY DEF SoundNext, Launching, Held, Consumed, In
<1>2. Occupying' \in SUBSET In(l, ActivePhases)
  BY DEF SoundNext, Occupying, In
<1> QED
  BY <1>1, <1>2, FewerBounded, HeldType DEF SoundNext

LEMMA WanesSound ==
  ASSUME Wanes, spend' = spend, NEW l, Sound(l)
  PROVE  SoundNext(l)
  BY CeilingsAreBounds DEF Wanes, SoundNext, Sound, Remembers

\* A dispatcher told of the phase a sound ledger gives it.
LEMMA AdvancesSound ==
  ASSUME Processes, NEW d \in Dispatcher, NEW l, Advances(d, Phase(l, d)), spend' = spend,
         Sound(l)
  PROVE  SoundNext(l)
<1> DEFINE phase == Phase(l, d)
<1>1. Remembers(l) /\ Bounded(spend, Held(l), In(l, ActivePhases))
  BY CeilingsAreBounds DEF Sound
<1>2. acked' = [acked EXCEPT ![d] = phase] /\ acked \in [Dispatcher -> Phases]
  BY DEF Advances, Processes, ProcessTypes
<1>3. \A e \in Dispatcher : acked'[e] = IF e = d THEN phase ELSE acked[e]
  BY <1>2
<1>4. \A e \in Dispatcher : Rank(acked'[e]) =< Rank(Phase(l, e))
  BY <1>1, <1>3, RankIsNat DEF Remembers
<1>5. \A e \in Launching' : Phase(l, e) \in ConsumedPhases
  BY <1>1 DEF Advances, Remembers, ConsumedPhases, Phases
<1>6. \A e \in Occupying' : Phase(l, e) \in ActivePhases
  BY <1>1 DEF Advances, Remembers, ActivePhases
<1> QED
  BY <1>1, <1>4, <1>5, <1>6 DEF SoundNext

\* The processes that started and run are among those at a launch.
LEMMA BoundedHoldNext ==
  ASSUME spend' \in Spending, Bounded(spend', Launching', Occupying')
  PROVE  CeilingsHold'
<1>1. /\ Launching' \in SUBSET Dispatcher /\ Occupying' \in SUBSET Dispatcher
      /\ Launched' \in SUBSET Launching' /\ Running' \in SUBSET Occupying'
  BY DEF Launching, Occupying, Launched, Running
<1>2. Bounded(spend', Launched', Running')
  BY <1>1, FewerBounded
<1> QED
  BY <1>2 DEF Bounded, CeilingsHold

-----------------------------------------------------------------------------
(* The parts of the invariant                                              *)

Disks == [ledger : Ledgers, staged : Ledgers, anchor : Anchors, marker : BOOLEAN]
Operations == [who : Dispatcher \cup {Nobody}, pc : {"idle"} \cup Reading \cup Writing,
               target : Ledgers]
Approvals == {"active", "inactive", "pruned"}
Idle == [who |-> Nobody, pc |-> "idle", target |-> NoLedger]

AnchorTypes(anchor) ==
  /\ anchor.state = "missing" => anchor = NoAnchor
  /\ anchor.state = "clean" => anchor.pending = NoLedger
  /\ anchor.state = "prepared" => anchor.pending.gen = anchor.ledger.gen + 1

FileTypes ==
  /\ spend \in Spends /\ approval \in Approvals
  /\ disk \in Disks /\ AnchorTypes(disk.anchor)
  /\ op \in Operations /\ (Free <=> op.pc = "idle")
  /\ faults \in 0..MaxFaults /\ tampers \in 0..MaxTampers
  /\ past \subseteq Ledgers

OpPlaced ==
  /\ ~Free => at[op.who] \in Operating
  /\ op.pc \in Writing =>
        /\ Phase(op.target, op.who) # "absent"
        /\ at[op.who] = "new" => Phase(op.target, op.who) = "reserved"
        /\ at[op.who] = "held" => Phase(op.target, op.who) = "provider_launch_claimed"

NoDenials == \A l \in Written, d \in Dispatcher : Denies(l, d) => Barred(d)

LEMMA Parts ==
  FleetInv <=> /\ FileTypes /\ Processes /\ OpPlaced /\ NoDenials
               /\ LatestIsSound /\ AsWritten /\ NothingForgotten
               /\ CeilingsHold /\ CrashRecovers
<1>1. TypeOK <=> FileTypes /\ ProcessTypes
  BY DEF TypeOK, FileTypes, ProcessTypes, Approvals, Disks, Operations, AnchorTypes
<1>2. InPlace /\ DenialsHold <=> OpPlaced /\ NoDenials /\ \A d \in Dispatcher : Fits(d)
  <2>1. (\A d \in Launched : answer[d] # "no")
          <=> \A d \in Dispatcher : d \in Launched => answer[d] # "no"
    BY DEF Launched
  <2> QED BY <2>1 DEF InPlace, DenialsHold, OpPlaced, NoDenials, Fits
<1> QED
  BY <1>1, <1>2 DEF FleetInv, Processes

LEMMA PartsNext ==
  ASSUME FileTypes', Processes', OpPlaced', NoDenials', LatestIsSound', AsWritten',
         NothingForgotten', CeilingsHold', CrashRecovers'
  PROVE  FleetInv'
<1>1. TypeOK'
  BY DEF TypeOK, FileTypes, Processes, ProcessTypes, Approvals, Disks, Operations, AnchorTypes
<1>2. InPlace'
  BY DEF InPlace, OpPlaced, Processes, Fits
<1>3. DenialsHold'
  <2>1. \A d \in Launched' : answer'[d] # "no"
    BY DEF Processes, Fits, Launched
  <2> QED BY <2>1 DEF DenialsHold, NoDenials
<1> QED
  BY <1>1, <1>2, <1>3 DEF FleetInv

\* The fields of the files and of the operation.
LEMMA Fields ==
  ASSUME FileTypes
  PROVE  /\ disk.ledger \in Ledgers /\ disk.staged \in Ledgers /\ disk.marker \in BOOLEAN
         /\ disk.anchor \in Anchors /\ disk.anchor.ledger \in Ledgers
         /\ disk.anchor.pending \in Ledgers
         /\ disk.anchor.state \in {"missing", "clean", "prepared"}
         /\ op.who \in Dispatcher \cup {Nobody} /\ op.target \in Ledgers
         /\ op.pc \in {"idle"} \cup Reading \cup Writing
         /\ Latest \in Ledgers
         /\ disk.anchor.state # "missing" => disk.anchor # NoAnchor
<1>1. /\ disk.ledger \in Ledgers /\ disk.staged \in Ledgers /\ disk.marker \in BOOLEAN
      /\ disk.anchor \in Anchors
  BY DEF FileTypes, Disks
<1>2. /\ disk.anchor.ledger \in Ledgers /\ disk.anchor.pending \in Ledgers
      /\ disk.anchor.state \in {"missing", "clean", "prepared"}
  BY <1>1 DEF Anchors
<1>3. /\ op.who \in Dispatcher \cup {Nobody} /\ op.target \in Ledgers
      /\ op.pc \in {"idle"} \cup Reading \cup Writing
  BY DEF FileTypes, Operations
<1>4. NoAnchor.state = "missing"
  BY DEF NoAnchor
<1> QED
  BY <1>1, <1>2, <1>3, <1>4 DEF Latest

LEMMA IdleIs ==
  /\ Idle.who = Nobody /\ Idle.pc = "idle" /\ Idle.target = NoLedger /\ Idle \in Operations
  BY NoLedgerType DEF Idle, Operations

\* A missing ledger denies nothing.
LEMMA NothingDenies == ASSUME NEW d \in Dispatcher PROVE ~Denies(NoLedger, d)
  BY DEF Denies, NoLedger, Phase

LEMMA DenialsStay ==
  ASSUME NoDenials, NEW l1, Written' \subseteq Written \cup {NoLedger, l1},
         \A d \in Dispatcher : Denies(l1, d) => Barred(d),
         \A d \in Dispatcher : Barred(d) => Barred(d)'
  PROVE  NoDenials'
<1> SUFFICES ASSUME NEW l \in Written', NEW d \in Dispatcher, Denies(l, d)
             PROVE  Barred(d)'
  BY DEF NoDenials
<1> QED
  BY NothingDenies DEF NoDenials

\* A step that leaves the files alone, and keeps the lock or releases it.
LEMMA MovesKeep ==
  ASSUME FleetInv, Wanes, UNCHANGED <<spend, disk, past, tampers>>,
         approval' \in Approvals, faults' \in 0..MaxFaults,
         \/ op' = Idle
         \/ op' = op /\ (~Free => at'[op.who] = at[op.who])
  PROVE  FleetInv'
<1>1. /\ FileTypes /\ Processes /\ OpPlaced /\ NoDenials
      /\ LatestIsSound /\ AsWritten /\ NothingForgotten /\ CrashRecovers
  BY Parts
<1>2. /\ op' \in Operations /\ (op'.who = Nobody <=> op'.pc = "idle")
      /\ op' = op \/ (op'.pc = "idle" /\ op'.target = NoLedger)
  BY <1>1, IdleIs DEF FileTypes, Free
<1>3. FileTypes'
  BY <1>1, <1>2 DEF FileTypes, Free
<1>4. AsWritten' /\ CrashRecovers'
  <2>1. CASE op' = op BY <1>1, <2>1 DEF AsWritten, CrashRecovers
  <2>2. CASE op'.pc = "idle" BY <1>1, <2>2 DEF AsWritten, CrashRecovers
  <2> QED BY <1>2, <2>1, <2>2
<1>5. NothingForgotten'
  <2>1. CASE op' = op BY <1>1, <2>1 DEF NothingForgotten, Wanes
  <2>2. CASE op'.pc = "idle" BY <1>1, <2>2 DEF NothingForgotten, Wanes
  <2> QED BY <1>2, <2>1, <2>2
<1>6. OpPlaced'
  <2>1. CASE op' = op /\ (~Free => at'[op.who] = at[op.who])
    BY <1>1, <2>1 DEF OpPlaced, Free, FileTypes, Writing
  <2>2. CASE op' = Idle
    BY <2>2, IdleIs DEF OpPlaced, Free, Writing
  <2> QED BY <2>1, <2>2
<1>7. LatestIsSound'
  <2>1. disk.anchor # NoAnchor => Sound(Latest)'
    <3>1. Latest' = Latest
      BY DEF Latest
    <3>2. disk.anchor # NoAnchor => SoundNext(Latest')
      BY <1>1, <3>1, WanesSound DEF LatestIsSound
    <3> QED BY <3>2, SoundLatestNext
  <2>2. op'.pc \in {"stage", "prepare"} => Sound(op.target)'
    <3>1. op'.pc \in {"stage", "prepare"} => SoundNext(op'.target)
      BY <1>1, <1>2, WanesSound DEF LatestIsSound
    <3> QED BY <3>1, SoundTargetNext
  <2>3. WithinCeilings(Launching, Occupying)'
    <3>1. /\ Launching' \in SUBSET Launching /\ Occupying' \in SUBSET Occupying
          /\ Launching \in SUBSET Dispatcher /\ Occupying \in SUBSET Dispatcher
      BY DEF Wanes, Launching, Occupying
    <3>2. Bounded(spend, Launching, Occupying)
      BY <1>1, CeilingsAreBounds DEF LatestIsSound
    <3>3. Bounded(spend', Launching', Occupying')
      BY <1>1, <3>1, <3>2, SpendType, FewerBounded DEF FileTypes
    <3> QED BY <3>3 DEF WithinCeilings, Bounded
  <2> QED
    BY <2>1, <2>2, <2>3 DEF LatestIsSound
<1>8. CeilingsHold'
  <2>1. spend' \in Spending
    BY <1>1, SpendType DEF FileTypes
  <2>2. Bounded(spend', Launching', Occupying')
    BY <1>7 DEF LatestIsSound, WithinCeilings, Bounded
  <2> QED BY <2>1, <2>2, BoundedHoldNext
<1>9. NoDenials'
  <2>1. Written' \subseteq Written \cup {NoLedger, NoLedger}
    BY <1>2 DEF Written
  <2> QED
    BY <1>1, <2>1, DenialsStay, NothingDenies DEF Wanes
<1> QED
  BY <1>3, <1>4, <1>5, <1>6, <1>7, <1>8, <1>9, PartsNext DEF Wanes

-----------------------------------------------------------------------------
(* Steps on the files                                                      *)

\* A step that leaves the dispatchers alone.
LEMMA FilesKeep ==
  ASSUME FleetInv, UNCHANGED <<spend, process>>,
         FileTypes', OpPlaced', AsWritten', NothingForgotten', CrashRecovers',
         disk'.anchor # NoAnchor => \E l : Sound(l) /\ Latest' = l,
         op'.pc \in {"stage", "prepare"} => \E l : Sound(l) /\ op'.target = l,
         NEW l1, Written' \subseteq Written \cup {NoLedger, l1},
         \A d \in Dispatcher : Denies(l1, d) => Barred(d)
  PROVE  FleetInv'
<1>1. FileTypes /\ Processes /\ NoDenials /\ LatestIsSound
  BY Parts
<1>2. Wanes
  BY <1>1, SameWanes
<1>3. spend \in Spending /\ spend' = spend
  BY <1>1, SpendType DEF FileTypes
<1>4. LatestIsSound'
  <2>1. disk'.anchor # NoAnchor => Sound(Latest)'
    <3>1. disk'.anchor # NoAnchor => SoundNext(Latest')
      BY <1>2, <1>3, WanesSound
    <3> QED BY <3>1, SoundLatestNext
  <2>2. op'.pc \in {"stage", "prepare"} => Sound(op.target)'
    <3>1. op'.pc \in {"stage", "prepare"} => SoundNext(op'.target)
      BY <1>2, <1>3, WanesSound
    <3> QED BY <3>1, SoundTargetNext
  <2>3. WithinCeilings(Launching, Occupying)'
    <3>1. Launching' = Launching /\ Occupying' = Occupying
      BY DEF Launching, Occupying, process
    <3> QED BY <1>1, <1>3, <3>1 DEF LatestIsSound, WithinCeilings
  <2> QED
    BY <2>1, <2>2, <2>3 DEF LatestIsSound
<1>5. CeilingsHold'
  <2>1. Bounded(spend', Launching', Occupying')
    BY <1>4 DEF LatestIsSound, WithinCeilings, Bounded
  <2> QED BY <1>3, <2>1, BoundedHoldNext
<1>6. NoDenials'
  BY <1>1, <1>2, DenialsStay DEF Wanes
<1> QED
  BY <1>2, <1>4, <1>5, <1>6, PartsNext DEF Wanes

LEMMA GoFacts ==
  ASSUME FileTypes, op.pc # "idle", NEW pc \in Reading \cup Writing, Go(pc)
  PROVE  /\ op' \in Operations /\ op'.pc = pc /\ op'.pc # "idle"
         /\ op'.who = op.who /\ op'.target = op.target
         /\ op.who \in Dispatcher /\ op.who # Nobody
<1>1. op.who \in Dispatcher /\ op.who # Nobody
  BY Fields DEF FileTypes, Free
<1>2. op \in Operations /\ op' = [op EXCEPT !.pc = pc]
  BY DEF FileTypes, Go
<1>3. pc # "idle"
  BY DEF Reading, Writing
<1> QED
  BY <1>1, <1>2, <1>3 DEF Operations

LEMMA WriteFacts ==
  ASSUME NEW k, Write(k)
  PROVE  disk' = k /\ past' \subseteq past \cup {k.ledger}
  BY DEF Write

LEMMA DiskUpdates ==
  ASSUME NEW k \in Disks, NEW l \in Ledgers, NEW a \in Anchors
  PROVE  /\ LET n == [k EXCEPT !.staged = l] IN
            /\ n \in Disks /\ n.staged = l
            /\ n.ledger = k.ledger /\ n.anchor = k.anchor /\ n.marker = k.marker
         /\ LET n == [k EXCEPT !.ledger = l] IN
            /\ n \in Disks /\ n.ledger = l
            /\ n.staged = k.staged /\ n.anchor = k.anchor /\ n.marker = k.marker
         /\ LET n == [k EXCEPT !.anchor = a] IN
            /\ n \in Disks /\ n.anchor = a
            /\ n.ledger = k.ledger /\ n.staged = k.staged /\ n.marker = k.marker
         /\ \A b \in BOOLEAN : LET n == [k EXCEPT !.marker = b] IN
            /\ n \in Disks /\ n.marker = b
            /\ n.ledger = k.ledger /\ n.staged = k.staged /\ n.anchor = k.anchor
         /\ LET n == Promoted(k) IN
            /\ n \in Disks /\ n.ledger = k.staged /\ n.staged = NoLedger
            /\ n.anchor = k.anchor /\ n.marker = k.marker
<1>1. LET n == [k EXCEPT !.staged = l] IN
      /\ n \in Disks /\ n.staged = l
      /\ n.ledger = k.ledger /\ n.anchor = k.anchor /\ n.marker = k.marker
  BY DEF Disks
<1>2. LET n == [k EXCEPT !.ledger = l] IN
      /\ n \in Disks /\ n.ledger = l
      /\ n.staged = k.staged /\ n.anchor = k.anchor /\ n.marker = k.marker
  BY DEF Disks
<1>3. LET n == [k EXCEPT !.anchor = a] IN
      /\ n \in Disks /\ n.anchor = a
      /\ n.ledger = k.ledger /\ n.staged = k.staged /\ n.marker = k.marker
  BY DEF Disks
<1>4. \A b \in BOOLEAN : LET n == [k EXCEPT !.marker = b] IN
      /\ n \in Disks /\ n.marker = b
      /\ n.ledger = k.ledger /\ n.staged = k.staged /\ n.anchor = k.anchor
  BY DEF Disks
<1>5. LET n == Promoted(k) IN
      /\ n \in Disks /\ n.ledger = k.staged /\ n.staged = NoLedger
      /\ n.anchor = k.anchor /\ n.marker = k.marker
  <2> DEFINE none == NoLedger
  <2>1. none \in Ledgers
    BY NoLedgerType
  <2>2. Promoted(k) = [k EXCEPT !.ledger = k.staged, !.staged = none]
    BY DEF Promoted
  <2> HIDE DEF none
  <2>3. LET n == Promoted(k) IN
        /\ n \in Disks /\ n.ledger = k.staged /\ n.staged = none
        /\ n.anchor = k.anchor /\ n.marker = k.marker
    BY <2>1, <2>2 DEF Disks
  <2> QED BY <2>3 DEF none
<1> QED
  BY <1>1, <1>2, <1>3, <1>4, <1>5

LEMMA AnchorFacts ==
  ASSUME NEW l \in Ledgers, NEW next \in Ledgers
  PROVE  /\ Clean(l) \in Anchors /\ Clean(l).state = "clean" /\ Clean(l).ledger = l
         /\ Clean(l).pending = NoLedger /\ Clean(l) # NoAnchor /\ AnchorTypes(Clean(l))
         /\ Prepared(l, next) \in Anchors /\ Prepared(l, next).state = "prepared"
         /\ Prepared(l, next).ledger = l /\ Prepared(l, next).pending = next
         /\ NoAnchor \in Anchors /\ NoAnchor.state = "missing" /\ NoAnchor.ledger = NoLedger
         /\ NoAnchor.pending = NoLedger /\ AnchorTypes(NoAnchor)
<1> DEFINE none == NoLedger
<1>1. none \in Ledgers
  BY NoLedgerType
<1>2. /\ Clean(l) = [state |-> "clean", ledger |-> l, pending |-> none]
      /\ Prepared(l, next) = [state |-> "prepared", ledger |-> l, pending |-> next]
      /\ NoAnchor = [state |-> "missing", ledger |-> none, pending |-> none]
  BY DEF Clean, Prepared, NoAnchor
<1> HIDE DEF none
<1>3. /\ Clean(l) \in Anchors /\ Clean(l).state = "clean" /\ Clean(l).ledger = l
      /\ Clean(l).pending = none /\ Clean(l) # NoAnchor
      /\ Prepared(l, next) \in Anchors /\ Prepared(l, next).state = "prepared"
      /\ Prepared(l, next).ledger = l /\ Prepared(l, next).pending = next
      /\ NoAnchor \in Anchors /\ NoAnchor.state = "missing" /\ NoAnchor.ledger = none
      /\ NoAnchor.pending = none
  BY <1>1, <1>2 DEF Anchors
<1> QED
  BY <1>3 DEF none, AnchorTypes

\* A step under the lock, on the files alone.
LEMMA WorkKeeps ==
  ASSUME FleetInv, Still, op.pc # "idle", NEW pc \in Reading \cup Writing, Go(pc),
         pc \in Writing => op.pc \in Writing,
         pc \in {"stage", "prepare"} => op.pc \in {"stage", "prepare"},
         NEW k \in Disks, disk' = k, AnchorTypes(k.anchor),
         past' \subseteq past \cup {k.ledger},
         {k.ledger, k.staged, k.anchor.ledger, k.anchor.pending} \subseteq Written \cup {NoLedger},
         k.anchor # NoAnchor =>
            \E l : /\ Sound(l)
                   /\ k.anchor.state = "prepared" => k.anchor.pending = l
                   /\ k.anchor.state # "prepared" => k.anchor.ledger = l,
         AsWritten', NothingForgotten', CrashRecovers'
  PROVE  FleetInv'
<1>1. FileTypes /\ OpPlaced /\ LatestIsSound
  BY Parts
<1>2. /\ op' \in Operations /\ op'.pc = pc /\ op'.pc # "idle"
      /\ op'.who = op.who /\ op'.target = op.target /\ op.who # Nobody
  BY <1>1, GoFacts
<1>3. UNCHANGED <<spend, approval, process, faults, tampers>>
  BY DEF Still
<1>4. FileTypes'
  <2>1. past' \subseteq Ledgers
    BY <1>1 DEF FileTypes, Disks
  <2> QED BY <1>1, <1>2, <1>3, <2>1 DEF FileTypes, Free
<1>5. OpPlaced'
  BY <1>1, <1>2, <1>3 DEF OpPlaced, Free, process
<1>6. disk'.anchor # NoAnchor => \E l : Sound(l) /\ Latest' = l
  BY DEF Latest
<1>7. op'.pc \in {"stage", "prepare"} => \E l : Sound(l) /\ op'.target = l
  BY <1>1, <1>2 DEF LatestIsSound
<1>8. Written' \subseteq Written \cup {NoLedger, NoLedger}
  BY <1>2 DEF Written
<1> QED
  BY <1>3, <1>4, <1>5, <1>6, <1>7, <1>8, NothingDenies, FilesKeep

-----------------------------------------------------------------------------
(* The operations                                                          *)

\* The operation that raises tells its dispatcher so, and lets go of the lock.
LEMMA RaiseKeeps == ASSUME FleetInv, op.pc # "idle", Raise PROVE FleetInv'
<1>1. FileTypes /\ Processes /\ OpPlaced
  BY Parts
<1>2. op.who \in Dispatcher /\ at[op.who] \in Operating
  BY <1>1, Fields DEF FileTypes, OpPlaced, Free
<1>3. Wanes
  BY <1>1, <1>2, RefusedWanes DEF Raise
<1> QED
  BY <1>1, <1>3, MovesKeep DEF Raise, Release, Idle, FileTypes

LEMMA RecoverKeeps == ASSUME FleetInv, Recover PROVE FleetInv'
<1> DEFINE prepared == disk.anchor.state = "prepared" /\ Exists(disk.staged)
<1>1. /\ FileTypes /\ LatestIsSound /\ CrashRecovers /\ NothingForgotten
      /\ op.pc = "recover" /\ "examine" \in Reading \cup Writing
      /\ disk \in Disks /\ AnchorTypes(disk.anchor)
  BY Parts DEF Recover, Reading, FileTypes
<1>2. CASE prepared /\ disk.staged = disk.anchor.pending /\ Write(Promoted(disk))
           /\ Go("examine") /\ Still
  <2> DEFINE k == Promoted(disk)
  <2>1. /\ k \in Disks /\ k.ledger = disk.staged /\ k.staged = NoLedger
        /\ k.anchor = disk.anchor /\ k.marker = disk.marker
    BY <1>1, DiskUpdates, Fields
  <2>2. disk' = k /\ past' \subseteq past \cup {k.ledger}
    BY <1>2, WriteFacts
  <2>3. op'.pc = "examine"
    BY <1>1, <1>2, GoFacts
  <2> HIDE DEF k
  <2>4. disk.anchor # NoAnchor
    BY <1>1, <1>2, Fields
  <2>5. /\ {k.ledger, k.staged, k.anchor.ledger, k.anchor.pending} \subseteq Written \cup {NoLedger}
        /\ Sound(disk.anchor.pending)
    BY <1>1, <1>2, <2>1, <2>4 DEF Written, LatestIsSound, Latest
  <2>6. AsWritten' /\ NothingForgotten'
    BY <2>1, <2>2, <2>3, <2>4 DEF AsWritten, NothingForgotten
  <2>7. CrashRecovers'
    BY <1>2, <2>1, <2>2 DEF CrashRecovers, Readable, Exists
  <2> QED
    BY <1>1, <1>2, <2>1, <2>2, <2>5, <2>6, <2>7, WorkKeeps DEF Writing
<1>3. CASE ~prepared /\ Go("examine") /\ Still /\ UNCHANGED <<disk, past>>
  <2>1. op'.pc = "examine"
    BY <1>1, <1>3, GoFacts
  <2>2. {disk.ledger, disk.staged, disk.anchor.ledger, disk.anchor.pending} \subseteq Written
    BY DEF Written
  <2>3. disk.anchor # NoAnchor => Sound(Latest)
    BY <1>1 DEF LatestIsSound
  <2>4. AsWritten' /\ NothingForgotten' /\ CrashRecovers'
    BY <1>1, <1>3, <2>1 DEF AsWritten, NothingForgotten, CrashRecovers, Still, process
  <2> QED
    BY <1>1, <1>3, <2>2, <2>3, <2>4, WorkKeeps DEF Writing, Latest
<1>4. CASE Raise
  BY <1>1, <1>4, RaiseKeeps
<1> QED
  BY <1>2, <1>3, <1>4 DEF Recover

LEMMA ExamineKeeps == ASSUME FleetInv, Examine PROVE FleetInv'
<1>1. /\ FileTypes /\ LatestIsSound /\ CrashRecovers /\ NothingForgotten
      /\ op.pc = "examine" /\ {"genesis", "reconcile"} \subseteq Reading
      /\ disk \in Disks /\ AnchorTypes(disk.anchor)
  BY Parts DEF Examine, Reading, FileTypes
<1>2. CASE /\ ~Exists(disk.ledger) /\ disk.anchor = NoAnchor /\ ~disk.marker
           /\ Write(Adopted(disk)) /\ Go("genesis") /\ Still
  <2> DEFINE k == Adopted(disk)
  <2>1. /\ k \in Disks /\ k.ledger = disk.ledger /\ k.staged = disk.staged
        /\ k.anchor = disk.anchor /\ k.marker = TRUE
    BY <1>1, DiskUpdates, Fields DEF Adopted
  <2>2. disk' = k /\ past' \subseteq past \cup {k.ledger}
    BY <1>2, WriteFacts
  <2>3. op'.pc = "genesis"
    BY <1>1, <1>2, GoFacts
  <2> HIDE DEF k
  <2>4. {k.ledger, k.staged, k.anchor.ledger, k.anchor.pending} \subseteq Written \cup {NoLedger}
    BY <2>1 DEF Written
  <2>5. \A d \in Dispatcher : acked[d] = "absent"
    BY <1>1, <1>2 DEF NothingForgotten
  <2>6. AsWritten' /\ NothingForgotten' /\ CrashRecovers'
    BY <1>2, <2>1, <2>2, <2>3, <2>5
    DEF AsWritten, NothingForgotten, CrashRecovers, Still, process
  <2> QED
    BY <1>1, <1>2, <2>1, <2>2, <2>4, <2>6, WorkKeeps DEF Writing
<1>3. CASE Go("reconcile") /\ Still /\ UNCHANGED <<disk, past>>
  <2>1. op'.pc = "reconcile"
    BY <1>1, <1>3, GoFacts
  <2>2. {disk.ledger, disk.staged, disk.anchor.ledger, disk.anchor.pending} \subseteq Written
    BY DEF Written
  <2>3. disk.anchor # NoAnchor => Sound(Latest)
    BY <1>1 DEF LatestIsSound
  <2>4. AsWritten' /\ NothingForgotten' /\ CrashRecovers'
    BY <1>1, <1>3, <2>1 DEF AsWritten, NothingForgotten, CrashRecovers, Still, process
  <2> QED
    BY <1>1, <1>3, <2>2, <2>3, <2>4, WorkKeeps DEF Writing, Latest
<1>4. CASE Raise
  BY <1>1, <1>4, RaiseKeeps
<1> QED
  BY <1>2, <1>3, <1>4 DEF Examine

\* Nobody was told anything, so the empty ledger forgets nothing.
LEMMA GenesisIsSound ==
  ASSUME Processes, spend \in Spends, \A d \in Dispatcher : acked[d] = "absent"
  PROVE  Sound(NoLedger)
<1>1. Launching = {} /\ Occupying = {}
  <2>1. \A d \in Dispatcher : d \notin Launching
    BY DEF Processes, Fits
  <2> QED BY <2>1 DEF Launching, Occupying
<1>2. \A d \in Dispatcher : Phase(NoLedger, d) = "absent"
  BY DEF Phase, NoLedger
<1>3. Held(NoLedger) = {} /\ In(NoLedger, ActivePhases) = {}
  BY <1>2 DEF Held, Consumed, In, ConsumedPhases, ActivePhases
<1>4. Bounded(spend, {}, {})
  BY SpendType, FS_EmptySet DEF Bounded, Spending
<1> QED
  BY <1>1, <1>2, <1>3, <1>4, RankIsNat, CeilingsAreBounds DEF Sound, Remembers

LEMMA GenesisKeeps == ASSUME FleetInv, Genesis PROVE FleetInv'
<1>1. /\ FileTypes /\ Processes /\ AsWritten /\ NothingForgotten
      /\ op.pc = "genesis" /\ "decide" \in Reading /\ disk \in Disks /\ spend \in Spends
      /\ Write([disk EXCEPT !.anchor = Clean(NoLedger)]) /\ Go("decide") /\ Still
  BY Parts DEF Genesis, Reading, FileTypes
<1> DEFINE anchor == Clean(NoLedger)
           k == [disk EXCEPT !.anchor = anchor]
<1>2. /\ anchor \in Anchors /\ anchor.state = "clean" /\ anchor.ledger = NoLedger
      /\ anchor.pending = NoLedger /\ anchor # NoAnchor /\ AnchorTypes(anchor)
  BY AnchorFacts, NoLedgerType
<1>3. disk' = k /\ past' \subseteq past \cup {k.ledger}
  BY <1>1, WriteFacts
<1> HIDE DEF anchor
<1>4. /\ k \in Disks /\ k.ledger = disk.ledger /\ k.staged = disk.staged
      /\ k.anchor = anchor /\ k.marker = disk.marker
  BY <1>1, <1>2 DEF Disks
<1> HIDE DEF k
<1>5. op'.pc = "decide"
  BY <1>1, GoFacts
<1>6. disk.ledger = NoLedger /\ \A d \in Dispatcher : acked[d] = "absent"
  BY <1>1 DEF AsWritten, NothingForgotten, Exists
<1>7. Sound(NoLedger)
  BY <1>1, <1>6, GenesisIsSound
<1>8. {k.ledger, k.staged, k.anchor.ledger, k.anchor.pending} \subseteq Written \cup {NoLedger}
  BY <1>2, <1>4 DEF Written
<1>9. AsWritten' /\ NothingForgotten' /\ CrashRecovers'
  BY <1>2, <1>3, <1>4, <1>5, <1>6 DEF AsWritten, NothingForgotten, CrashRecovers, Readable
<1> QED
  BY <1>1, <1>2, <1>3, <1>4, <1>7, <1>8, <1>9, WorkKeeps DEF Writing

LEMMA ReconcileKeeps == ASSUME FleetInv, Reconcile PROVE FleetInv'
<1>1. /\ FileTypes /\ LatestIsSound /\ op.pc = "reconcile" /\ "adopt" \in Reading
      /\ disk \in Disks
  BY Parts DEF Reconcile, Reading, FileTypes
<1>2. CASE /\ Agrees(disk) /\ Write([disk EXCEPT !.anchor = Clean(disk.ledger)])
           /\ Go("adopt") /\ Still
  <2> DEFINE anchor == Clean(disk.ledger)
             k == [disk EXCEPT !.anchor = anchor]
  <2>1. /\ anchor \in Anchors /\ anchor.state = "clean" /\ anchor.ledger = disk.ledger
        /\ anchor.pending = NoLedger /\ anchor # NoAnchor /\ AnchorTypes(anchor)
    BY <1>1, AnchorFacts, Fields
  <2>2. disk' = k /\ past' \subseteq past \cup {k.ledger}
    BY <1>2, WriteFacts
  <2> HIDE DEF anchor
  <2>3. /\ k \in Disks /\ k.ledger = disk.ledger /\ k.staged = disk.staged
        /\ k.anchor = anchor /\ k.marker = disk.marker
    BY <1>1, <2>1 DEF Disks
  <2> HIDE DEF k
  <2>4. op'.pc = "adopt"
    BY <1>1, <1>2, GoFacts
  <2>5. Sound(disk.ledger)
    <3>1. disk.anchor # NoAnchor /\ Latest = disk.ledger
      BY <1>1, <1>2, Fields DEF Agrees, Latest
    <3> QED BY <1>1, <3>1 DEF LatestIsSound
  <2>6. {k.ledger, k.staged, k.anchor.ledger, k.anchor.pending} \subseteq Written \cup {NoLedger}
    BY <2>1, <2>3 DEF Written
  <2>7. AsWritten' /\ NothingForgotten' /\ CrashRecovers'
    BY <2>1, <2>2, <2>3, <2>4 DEF AsWritten, NothingForgotten, CrashRecovers, Readable
  <2> QED
    BY <1>1, <1>2, <2>1, <2>2, <2>3, <2>5, <2>6, <2>7, WorkKeeps DEF Writing
<1>3. CASE Raise
  BY <1>1, <1>3, RaiseKeeps
<1> QED
  BY <1>2, <1>3 DEF Reconcile

LEMMA AdoptKeeps == ASSUME FleetInv, Adopt PROVE FleetInv'
<1>1. /\ FileTypes /\ LatestIsSound /\ AsWritten /\ CrashRecovers
      /\ op.pc = "adopt" /\ "decide" \in Reading /\ disk \in Disks /\ AnchorTypes(disk.anchor)
  BY Parts DEF Adopt, Reading, FileTypes
<1>2. CASE Write(Adopted(disk)) /\ Go("decide") /\ Still
  <2> DEFINE k == Adopted(disk)
  <2>1. /\ k \in Disks /\ k.ledger = disk.ledger /\ k.staged = disk.staged
        /\ k.anchor = disk.anchor /\ k.marker = TRUE
    BY <1>1, DiskUpdates, Fields DEF Adopted
  <2>2. disk' = k /\ past' \subseteq past \cup {k.ledger}
    BY <1>2, WriteFacts
  <2>3. op'.pc = "decide"
    BY <1>1, <1>2, GoFacts
  <2> HIDE DEF k
  <2>4. {k.ledger, k.staged, k.anchor.ledger, k.anchor.pending} \subseteq Written \cup {NoLedger}
    BY <2>1 DEF Written
  <2>5. disk.anchor # NoAnchor => Sound(Latest)
    BY <1>1 DEF LatestIsSound
  <2>6. AsWritten' /\ NothingForgotten' /\ CrashRecovers'
    BY <1>1, <1>2, <2>1, <2>2, <2>3
    DEF AsWritten, NothingForgotten, CrashRecovers, Readable, Still
  <2> QED
    BY <1>1, <1>2, <2>1, <2>2, <2>4, <2>5, <2>6, WorkKeeps DEF Writing, Latest
<1>3. CASE Raise
  BY <1>1, <1>3, RaiseKeeps
<1> QED
  BY <1>2, <1>3 DEF Adopt

\* A dispatcher is told of what the files hold, and the lock is released.
LEMMA AckKeeps ==
  ASSUME FleetInv, op.pc \in {"decide", "commit"}, NEW l \in Written,
         Sound(l), Phase(l, op.who) # "absent",
         at[op.who] = "held" => Phase(l, op.who) = "provider_launch_claimed",
         Acked(op.who, l), Release, UNCHANGED <<spend, approval, faults, tampers>>,
         disk' \in Disks, AnchorTypes(disk'.anchor), Readable(disk'), past' \subseteq Ledgers,
         Latest' = l, disk'.anchor # NoAnchor, Written' \subseteq Written \cup {NoLedger}
  PROVE  FleetInv'
<1>1. FileTypes /\ Processes /\ OpPlaced /\ NoDenials
  BY Parts
<1>2. op.who \in Dispatcher /\ at[op.who] \in Operating
  BY <1>1, Fields DEF FileTypes, OpPlaced, Free
<1>3. l \in Ledgers
  BY <1>1, Fields DEF Written, FileTypes
<1>4. op.who \in Launched => l.claims[op.who].contacted # "no"
  <2>1. Denies(l, op.who) => op.who \notin Launched
    BY <1>1, <1>2 DEF NoDenials, Barred, Launched
  <2>2. op.who \in Launched => Phase(l, op.who) \in ConsumedPhases
    BY DEF Sound, Remembers, Launched, Launching
  <2> QED
    BY <2>1, <2>2 DEF Denies, ConsumedPhases
<1>5. Advances(op.who, Phase(l, op.who))
  BY <1>1, <1>2, <1>3, <1>4, AckedAdvances
<1>6. SoundNext(l)
  BY <1>1, <1>2, <1>5, AdvancesSound
<1>7. op' = Idle
  BY DEF Release, Idle
<1>8. FileTypes' /\ OpPlaced' /\ AsWritten' /\ NothingForgotten' /\ CrashRecovers'
  <2>1. /\ op'.pc = "idle" /\ op'.who = Nobody /\ op' \in Operations
    BY <1>7, IdleIs
  <2>2. FileTypes'
    BY <1>1, <2>1 DEF FileTypes, Free
  <2>3. OpPlaced'
    BY <2>1 DEF OpPlaced, Free, Writing
  <2>4. AsWritten' /\ NothingForgotten' /\ CrashRecovers'
    BY <2>1 DEF AsWritten, NothingForgotten, CrashRecovers
  <2> QED BY <2>2, <2>3, <2>4
<1>9. LatestIsSound' /\ CeilingsHold'
  <2>1. spend' \in Spending
    BY <1>1, SpendType DEF FileTypes
  <2>2. Bounded(spend', Launching', Occupying')
    BY <1>6, <2>1, SoundBounds
  <2>3. CeilingsHold'
    BY <2>1, <2>2, BoundedHoldNext
  <2>4. Sound(Latest)'
    BY <1>6, SoundLatestNext
  <2>5. WithinCeilings(Launching, Occupying)'
    BY <2>2 DEF WithinCeilings, Bounded
  <2>6. op'.pc = "idle"
    BY <1>7, IdleIs
  <2> QED
    BY <2>3, <2>4, <2>5, <2>6 DEF LatestIsSound
<1>10. NoDenials'
  <2>1. Written' \subseteq Written \cup {NoLedger, NoLedger}
    OBVIOUS
  <2> QED
    BY <1>1, <1>5, <2>1, DenialsStay, NothingDenies DEF Advances
<1> QED
  BY <1>5, <1>8, <1>9, <1>10, PartsNext DEF Advances

LEMMA DecideKeeps == ASSUME FleetInv, Decide PROVE FleetInv'
<1> DEFINE d == op.who
           l == disk.ledger
<1>1. /\ FileTypes /\ Processes /\ OpPlaced /\ NoDenials /\ LatestIsSound /\ AsWritten
      /\ CrashRecovers /\ op.pc = "decide" /\ disk \in Disks /\ AnchorTypes(disk.anchor)
      /\ spend \in Spends
  BY Parts DEF Decide, FileTypes
<1>2. d \in Dispatcher /\ at[d] \in Operating /\ l \in Ledgers /\ l \in Written
  BY <1>1, Fields DEF FileTypes, OpPlaced, Free, Written
<1>3. /\ disk.anchor.state = "clean" /\ l = disk.anchor.ledger /\ disk.anchor # NoAnchor
      /\ Latest = l
  BY <1>1, Fields DEF AsWritten, Latest
<1>4. Sound(l)
  BY <1>1, <1>3 DEF LatestIsSound
<1>5. CASE /\ \E target \in Targets(l, d) : op' = [op EXCEPT !.pc = "stage", !.target = target]
           /\ Still /\ UNCHANGED <<disk, past>>
  <2>1. PICK m \in Targets(l, d) : op' = [op EXCEPT !.pc = "stage", !.target = m]
    BY <1>5
  <2>2. Remembers(l) /\ \A e \in Dispatcher : Denies(l, e) => Barred(e)
    BY <1>1, <1>2, <1>4 DEF Sound, NoDenials
  <2>3. /\ \A e \in Dispatcher : Denies(m, e) => Barred(e)
        /\ m \in Ledgers /\ m.gen = l.gen + 1 /\ Phase(m, d) # "absent"
        /\ at[d] = "new" => Phase(m, d) = "reserved"
        /\ at[d] = "held" => Phase(m, d) = "provider_launch_claimed"
    BY <1>1, <1>2, <2>2, TargetDenies
  <2>4. Sound(m)
    BY <1>1, <1>2, <1>4, TargetIsSound
  <2>5. /\ op' \in Operations /\ op'.who = op.who /\ op'.pc = "stage" /\ op'.target = m
    <3>1. "stage" \in Writing
      BY DEF Writing
    <3> QED BY <1>1, <2>1, <2>3, <3>1 DEF FileTypes, Operations
  <2>6. UNCHANGED <<spend, approval, process, faults, tampers>>
    BY <1>5 DEF Still
  <2>7. op.who # Nobody
    BY <1>1 DEF FileTypes, Free
  <2>8. FileTypes'
    BY <1>1, <1>5, <2>5, <2>6, <2>7 DEF FileTypes, Free
  <2>9. OpPlaced'
    BY <1>2, <2>3, <2>5, <2>6 DEF OpPlaced, process
  <2>10. AsWritten' /\ NothingForgotten' /\ CrashRecovers'
    BY <1>1, <1>3, <1>5, <2>3, <2>5, <2>6 DEF AsWritten, NothingForgotten, CrashRecovers
  <2>11. disk'.anchor # NoAnchor => \E n : Sound(n) /\ Latest' = n
    BY <1>3, <1>4, <1>5 DEF Latest
  <2>12. op'.pc \in {"stage", "prepare"} => \E n : Sound(n) /\ op'.target = n
    BY <2>4, <2>5
  <2>13. Written' \subseteq Written \cup {NoLedger, m}
    BY <1>5, <2>5 DEF Written
  <2> QED
    BY <2>3, <2>6, <2>8, <2>9, <2>10, <2>11, <2>12, <2>13, FilesKeep
<1>6. CASE /\ at[d] \in {"doubt", "finish"} /\ Phase(l, d) # "absent"
           /\ Acked(d, l) /\ Release /\ UNCHANGED <<spend, approval, disk, faults, tampers, past>>
  <2>1. Latest' = l
    BY <1>3, <1>6 DEF Latest
  <2>2. Readable(disk')
    BY <1>3, <1>6 DEF Readable
  <2>3. Written' \subseteq Written \cup {NoLedger}
    BY <1>6 DEF Written, Release
  <2>4. past' \subseteq Ledgers
    BY <1>1, <1>6 DEF FileTypes
  <2> QED
    BY <1>1, <1>2, <1>3, <1>4, <1>6, <2>1, <2>2, <2>3, <2>4, AckKeeps
<1>7. CASE Raise
  BY <1>1, <1>7, RaiseKeeps
<1> QED
  BY <1>5, <1>6, <1>7 DEF Decide

LEMMA StageKeeps == ASSUME FleetInv, Stage PROVE FleetInv'
<1> DEFINE k == [disk EXCEPT !.staged = op.target]
<1>1. /\ FileTypes /\ LatestIsSound /\ AsWritten /\ CrashRecovers /\ op.pc = "stage"
      /\ {"stage", "prepare"} \subseteq Writing /\ disk \in Disks /\ AnchorTypes(disk.anchor)
      /\ Write(k) /\ Go("prepare") /\ Still
  BY Parts DEF Stage, Following, Writing, FileTypes
<1>2. op.target \in Ledgers
  BY <1>1, Fields
<1>3. /\ k \in Disks /\ k.staged = op.target
      /\ k.ledger = disk.ledger /\ k.anchor = disk.anchor /\ k.marker = disk.marker
  BY <1>1, <1>2 DEF Disks
<1> HIDE DEF k
<1>4. disk' = k /\ past' \subseteq past \cup {k.ledger}
  BY <1>1, WriteFacts
<1>5. op'.pc = "prepare" /\ op'.target = op.target
  BY <1>1, GoFacts
<1>6. {k.ledger, k.staged, k.anchor.ledger, k.anchor.pending} \subseteq Written \cup {NoLedger}
  BY <1>3 DEF Written
<1>7. disk.anchor # NoAnchor /\ Sound(Latest)
  BY <1>1, Fields DEF AsWritten, LatestIsSound
<1>8. AsWritten' /\ NothingForgotten' /\ CrashRecovers'
  BY <1>1, <1>3, <1>4, <1>5, <1>7 DEF AsWritten, NothingForgotten, CrashRecovers, Readable
<1> QED
  BY <1>1, <1>3, <1>4, <1>6, <1>7, <1>8, WorkKeeps DEF Latest

LEMMA PrepareKeeps == ASSUME FleetInv, Prepare PROVE FleetInv'
<1> DEFINE anchor == Prepared(disk.anchor.ledger, op.target)
           k == [disk EXCEPT !.anchor = anchor]
<1>1. /\ FileTypes /\ LatestIsSound /\ AsWritten /\ op.pc = "prepare"
      /\ {"prepare", "promote"} \subseteq Writing /\ disk \in Disks
      /\ Write(k) /\ Go("promote") /\ Still
  BY Parts DEF Prepare, Following, Writing, FileTypes
<1>2. op.target \in Ledgers /\ disk.anchor.ledger \in Ledgers
  BY <1>1, Fields
<1>3. /\ anchor \in Anchors /\ anchor.state = "prepared"
      /\ anchor.ledger = disk.anchor.ledger /\ anchor.pending = op.target
  BY <1>2, AnchorFacts
<1> HIDE DEF anchor
<1>4. /\ k \in Disks /\ k.ledger = disk.ledger /\ k.staged = disk.staged
      /\ k.anchor = anchor /\ k.marker = disk.marker
  BY <1>1, <1>3 DEF Disks
<1> HIDE DEF k
<1>5. disk' = k /\ past' \subseteq past \cup {k.ledger}
  BY <1>1, WriteFacts
<1>6. op'.pc = "promote" /\ op'.target = op.target
  BY <1>1, GoFacts
<1>7. AnchorTypes(anchor) /\ Sound(op.target) /\ disk.staged = op.target /\ anchor # NoAnchor
  <2>1. NoAnchor.state = "missing"
    BY DEF NoAnchor
  <2> QED
    BY <1>1, <1>3, <2>1 DEF AnchorTypes, AsWritten, LatestIsSound
<1>8. {k.ledger, k.staged, k.anchor.ledger, k.anchor.pending} \subseteq Written \cup {NoLedger}
  BY <1>3, <1>4 DEF Written
<1>9. AsWritten' /\ NothingForgotten' /\ CrashRecovers'
  BY <1>3, <1>4, <1>5, <1>6, <1>7 DEF AsWritten, NothingForgotten, CrashRecovers, Readable
<1> QED
  BY <1>1, <1>3, <1>4, <1>5, <1>7, <1>8, <1>9, WorkKeeps

LEMMA PromoteKeeps == ASSUME FleetInv, Promote PROVE FleetInv'
<1> DEFINE k == Promoted(disk)
<1>1. /\ FileTypes /\ LatestIsSound /\ AsWritten /\ op.pc = "promote"
      /\ {"promote", "commit"} \subseteq Writing /\ disk \in Disks /\ AnchorTypes(disk.anchor)
      /\ Write(k) /\ Go("commit") /\ Still
  BY Parts DEF Promote, Following, Writing, FileTypes
<1>2. /\ k \in Disks /\ k.ledger = disk.staged /\ k.staged = NoLedger
      /\ k.anchor = disk.anchor /\ k.marker = disk.marker
  BY <1>1, DiskUpdates, Fields
<1> HIDE DEF k
<1>3. disk' = k /\ past' \subseteq past \cup {k.ledger}
  BY <1>1, WriteFacts
<1>4. op'.pc = "commit" /\ op'.target = op.target
  BY <1>1, GoFacts
<1>5. /\ disk.anchor.state = "prepared" /\ disk.anchor.pending = op.target
      /\ disk.staged = op.target
  BY <1>1 DEF AsWritten
<1>6. disk.anchor # NoAnchor /\ Sound(Latest)
  BY <1>1, <1>5, Fields DEF LatestIsSound
<1>7. {k.ledger, k.staged, k.anchor.ledger, k.anchor.pending} \subseteq Written \cup {NoLedger}
  BY <1>2 DEF Written
<1>8. AsWritten' /\ NothingForgotten' /\ CrashRecovers'
  BY <1>2, <1>3, <1>4, <1>5, <1>6
  DEF AsWritten, NothingForgotten, CrashRecovers, Readable, Exists
<1> QED
  BY <1>1, <1>2, <1>3, <1>6, <1>7, <1>8, WorkKeeps DEF Latest

LEMMA CommitKeeps == ASSUME FleetInv, Commit PROVE FleetInv'
<1> DEFINE anchor == Clean(disk.ledger)
           k == [disk EXCEPT !.anchor = anchor]
           d == op.who
<1>1. /\ FileTypes /\ OpPlaced /\ LatestIsSound /\ AsWritten /\ op.pc = "commit"
      /\ disk \in Disks /\ "commit" \in Writing
      /\ Write(k) /\ Acked(d, op.target) /\ Release
      /\ UNCHANGED <<spend, approval, faults, tampers>>
  BY Parts DEF Commit, Committed, Writing, FileTypes
<1>2. /\ disk.ledger = op.target /\ disk.anchor.state = "prepared"
      /\ disk.anchor.pending = op.target
  BY <1>1 DEF AsWritten
<1>3. /\ anchor \in Anchors /\ anchor.state = "clean" /\ anchor.ledger = disk.ledger
      /\ anchor.pending = NoLedger /\ anchor # NoAnchor /\ AnchorTypes(anchor)
  BY <1>1, AnchorFacts, Fields
<1> HIDE DEF anchor
<1>4. /\ k \in Disks /\ k.ledger = disk.ledger /\ k.staged = disk.staged
      /\ k.anchor = anchor /\ k.marker = disk.marker
  BY <1>1, <1>3 DEF Disks
<1> HIDE DEF k
<1>5. disk' = k /\ past' \subseteq past \cup {k.ledger}
  BY <1>1, WriteFacts
<1>6. Sound(op.target)
  BY <1>1, <1>2, Fields DEF LatestIsSound, Latest
<1>7. Latest' = op.target
  BY <1>2, <1>3, <1>4, <1>5 DEF Latest
<1>8. Readable(disk')
  BY <1>3, <1>4, <1>5 DEF Readable
<1>9. Written' \subseteq Written \cup {NoLedger}
  BY <1>1, <1>3, <1>4, <1>5 DEF Written, Release
<1>10. past' \subseteq Ledgers
  BY <1>1, <1>4, <1>5, Fields DEF FileTypes
<1>11. op.target \in Written
  BY DEF Written
<1> QED
  BY <1>1, <1>3, <1>4, <1>5, <1>6, <1>7, <1>8, <1>9, <1>10, <1>11, AckKeeps DEF OpPlaced

LEMMA BeginKeeps ==
  ASSUME FleetInv, NEW d \in Dispatcher, Begin(d)
  PROVE  FleetInv'
<1>1. /\ FileTypes /\ LatestIsSound /\ AsWritten /\ NothingForgotten /\ CrashRecovers
      /\ at[d] \in Operating /\ "recover" \in Reading /\ op \in Operations
      /\ op' = [op EXCEPT !.who = d, !.pc = "recover"]
      /\ UNCHANGED <<spend, approval, disk, process, faults, tampers, past>>
  BY Parts DEF Begin, Reading, FileTypes
<1>2. /\ op' \in Operations /\ op'.who = d /\ op'.pc = "recover" /\ op'.target = op.target
      /\ d # Nobody
  BY <1>1, FleetAssumption DEF Operations
<1>3. FileTypes'
  BY <1>1, <1>2 DEF FileTypes, Free
<1>4. OpPlaced'
  BY <1>1, <1>2 DEF OpPlaced, Writing, process
<1>5. AsWritten' /\ NothingForgotten' /\ CrashRecovers'
  BY <1>1, <1>2 DEF AsWritten, NothingForgotten, CrashRecovers, process
<1>6. disk'.anchor # NoAnchor => \E l : Sound(l) /\ Latest' = l
  BY <1>1 DEF LatestIsSound, Latest
<1>7. Written' \subseteq Written \cup {NoLedger, NoLedger}
  BY <1>1, <1>2 DEF Written
<1> QED
  BY <1>1, <1>2, <1>3, <1>4, <1>5, <1>6, <1>7, NothingDenies, FilesKeep

LEMMA TamperKeeps == ASSUME FleetInv, Tamper PROVE FleetInv'
<1>1. /\ FileTypes /\ LatestIsSound /\ NothingForgotten /\ CrashRecovers
      /\ op' = op /\ op.pc = "idle" /\ disk \in Disks /\ AnchorTypes(disk.anchor)
      /\ UNCHANGED <<spend, approval, process, faults, past>>
      /\ tampers < MaxTampers /\ tampers' = tampers + 1 /\ Free
  BY Parts DEF Tamper, FileTypes
<1>2. tampers' \in 0..MaxTampers /\ tampers' # 0
  BY <1>1, FleetAssumption DEF FileTypes
<1>3. {NoLedger} \cup past \subseteq Ledgers
  BY <1>1, NoLedgerType DEF FileTypes
<1>4. ASSUME disk' \in Disks, AnchorTypes(disk'.anchor),
             disk'.anchor = disk.anchor \/ disk'.anchor = NoAnchor,
             {disk'.ledger, disk'.staged} \subseteq
                {NoLedger, disk.ledger, disk.staged} \cup past,
             \/ disk'.anchor # NoAnchor \/ Exists(disk'.ledger) \/ disk'.marker
             \/ disk'.ledger = disk.ledger /\ disk'.anchor = disk.anchor
                /\ disk'.marker = disk.marker
      PROVE  FleetInv'
  <2>1. FileTypes'
    BY <1>1, <1>2, <1>4 DEF FileTypes, Free
  <2>2. OpPlaced' /\ AsWritten'
    BY <1>1 DEF OpPlaced, AsWritten, Free, Writing
  <2>3. NothingForgotten'
    BY <1>1, <1>4 DEF NothingForgotten, process
  <2>4. CrashRecovers'
    BY <1>2 DEF CrashRecovers
  <2>5. disk'.anchor # NoAnchor => \E l : Sound(l) /\ Latest' = l
    BY <1>1, <1>4 DEF LatestIsSound, Latest
  <2>6. op'.pc \notin {"stage", "prepare"}
    BY <1>1
  <2>7. Written' \subseteq Written \cup {NoLedger, NoLedger}
    <3>1. NoAnchor.ledger = NoLedger /\ NoAnchor.pending = NoLedger
      BY DEF NoAnchor
    <3> QED BY <1>1, <1>4, <3>1 DEF Written
  <2> QED
    BY <1>1, <2>1, <2>2, <2>3, <2>4, <2>5, <2>6, <2>7, NothingDenies, FilesKeep
<1>5. CASE /\ disk.anchor # NoAnchor \/ disk.marker
           /\ \E l \in {NoLedger} \cup past : disk' = [disk EXCEPT !.ledger = l]
  <2>1. PICK l \in {NoLedger} \cup past : disk' = [disk EXCEPT !.ledger = l]
    BY <1>5
  <2>2. /\ disk' \in Disks /\ disk'.ledger = l /\ disk'.staged = disk.staged
        /\ disk'.anchor = disk.anchor /\ disk'.marker = disk.marker
    BY <1>1, <1>3, <2>1 DEF Disks
  <2> QED BY <1>1, <1>4, <1>5, <2>2
<1>6. CASE /\ Exists(disk.ledger) \/ disk.marker
           /\ disk' = [disk EXCEPT !.anchor = NoAnchor]
  <2>1. NoAnchor \in Anchors /\ AnchorTypes(NoAnchor)
    BY AnchorFacts, NoLedgerType
  <2>2. /\ disk' \in Disks /\ disk'.ledger = disk.ledger /\ disk'.staged = disk.staged
        /\ disk'.anchor = NoAnchor /\ disk'.marker = disk.marker
    BY <1>1, <1>6, <2>1 DEF Disks
  <2> QED BY <1>4, <1>6, <2>1, <2>2
<1>7. CASE /\ Exists(disk.ledger) \/ disk.anchor # NoAnchor
           /\ disk' = [disk EXCEPT !.marker = FALSE]
  <2>1. /\ disk' \in Disks /\ disk'.ledger = disk.ledger /\ disk'.staged = disk.staged
        /\ disk'.anchor = disk.anchor
    BY <1>1, <1>7 DEF Disks
  <2> QED BY <1>1, <1>4, <1>7, <2>1
<1>8. CASE \E l \in {NoLedger} \cup past : disk' = [disk EXCEPT !.staged = l]
  <2>1. PICK l \in {NoLedger} \cup past : disk' = [disk EXCEPT !.staged = l]
    BY <1>8
  <2>2. /\ disk' \in Disks /\ disk'.ledger = disk.ledger /\ disk'.staged = l
        /\ disk'.anchor = disk.anchor /\ disk'.marker = disk.marker
    BY <1>1, <1>3, <2>1 DEF Disks
  <2> QED BY <1>1, <1>4, <2>2
<1> QED
  BY <1>5, <1>6, <1>7, <1>8 DEF Tamper

-----------------------------------------------------------------------------
(* The steps of the dispatchers, faults, and the approval                  *)

LEMMA LaunchKeeps ==
  ASSUME FleetInv, NEW d \in Dispatcher, Popen(d) \/ GiveUp(d) \/ ChildEnds(d)
  PROVE  FleetInv'
<1>1. FileTypes /\ Processes /\ OpPlaced
  BY Parts
<1>2. /\ UNCHANGED <<spend, approval, disk, op, faults, tampers, past>>
      /\ at[d] \in {"claimed", "held", "running", "dead"}
      /\ at[d] = "held" => op.who # d
      /\ \E to \in Places : at' = [at EXCEPT ![d] = to]
  <2>1. CASE Popen(d)
    BY <2>1 DEF Popen, Places, Operating
  <2>2. CASE GiveUp(d)
    BY <2>2 DEF GiveUp, Places, Operating
  <2>3. CASE ChildEnds(d)
    <3>1. CASE at[d] = "running"
      BY <2>3, <3>1 DEF ChildEnds, Places, Operating
    <3>2. CASE at[d] = "dead"
      <4>1. at' = [at EXCEPT ![d] = "dead"]
        BY <1>1, <2>3, <3>2 DEF ChildEnds, Processes, ProcessTypes
      <4> QED BY <2>3, <3>2, <4>1 DEF ChildEnds, Places
    <3> QED BY <2>3, <3>1, <3>2 DEF ChildEnds
  <2> QED BY <2>1, <2>2, <2>3
<1>3. ~Free => op.who # d
  BY <1>1, <1>2 DEF OpPlaced, Operating
<1>4. ~Free => at'[op.who] = at[op.who]
  BY <1>1, <1>2, <1>3 DEF Processes, ProcessTypes
<1>5. Wanes
  BY <1>1, PopenWanes, GiveUpWanes, ChildEndsWanes
<1> QED
  BY <1>1, <1>2, <1>4, <1>5, MovesKeep DEF FileTypes

LEMMA RefuseInactiveKeeps ==
  ASSUME FleetInv, NEW d \in Dispatcher, RefuseInactive(d)
  PROVE  FleetInv'
<1>1. FileTypes /\ Processes
  BY Parts
<1>2. at[d] \in Operating
  BY DEF RefuseInactive, NeedsApproval, Operating
<1>3. Wanes
  BY <1>1, <1>2, RefusedWanes DEF RefuseInactive
<1> QED
  BY <1>1, <1>3, MovesKeep DEF RefuseInactive, FileTypes

LEMMA DieKeeps == ASSUME FleetInv, NEW d \in Dispatcher, Die(d) PROVE FleetInv'
<1>1. FileTypes /\ Processes
  BY Parts
<1>2. Wanes
  BY <1>1, DieWanes
<1>3. op' = Idle \/ (op' = op /\ op.who # d)
  BY DEF Die, Release, Idle
<1>4. op.who # d /\ ~Free => at'[op.who] = at[op.who]
  BY <1>1 DEF Die, Processes, ProcessTypes
<1>5. faults' \in 0..MaxFaults
  BY <1>1, FleetAssumption DEF Die, FileTypes
<1> QED
  BY <1>1, <1>2, <1>3, <1>4, <1>5, MovesKeep DEF Die, FileTypes

LEMMA FailKeeps == ASSUME FleetInv, Fail PROVE FleetInv'
<1>1. FileTypes /\ Processes /\ OpPlaced
  BY Parts
<1>2. op.who \in Dispatcher /\ at[op.who] \in Operating
  BY <1>1, Fields DEF OpPlaced, Free, Fail
<1>3. PICK known : Refused(op.who, known)
  BY DEF Fail
<1>4. Wanes
  BY <1>1, <1>2, <1>3, RefusedWanes
<1>5. faults' \in 0..MaxFaults
  BY <1>1, FleetAssumption DEF Fail, FileTypes
<1> QED
  BY <1>1, <1>4, <1>5, MovesKeep DEF Fail, Release, Idle, FileTypes

LEMMA LapseKeeps == ASSUME FleetInv, Lapse PROVE FleetInv'
<1>1. FileTypes /\ Processes
  BY Parts
<1>2. Wanes
  BY <1>1, SameWanes DEF Lapse
<1>3. approval' \in Approvals
  BY DEF Lapse, Approvals
<1> QED
  BY <1>1, <1>2, <1>3, MovesKeep DEF Lapse, FileTypes

LEMMA StutterKeeps == ASSUME FleetInv, UNCHANGED vars PROVE FleetInv'
<1>1. FileTypes /\ Processes
  BY Parts
<1>2. UNCHANGED <<spend, approval, disk, op, process, faults, tampers, past>>
  BY DEF vars, process
<1>3. Wanes
  BY <1>1, <1>2, SameWanes
<1>4. at' = at
  BY <1>2 DEF process
<1> QED
  BY <1>1, <1>2, <1>3, <1>4, MovesKeep DEF FileTypes

-----------------------------------------------------------------------------
(* The theorems                                                            *)

LEMMA InitKeeps == Init => FleetInv
<1> SUFFICES ASSUME Init PROVE FleetInv
  OBVIOUS
<1>1. /\ spend \in Spends /\ approval = "active"
      /\ disk = [ledger |-> NoLedger, staged |-> NoLedger, anchor |-> NoAnchor,
                 marker |-> FALSE]
      /\ op = Idle /\ faults = 0 /\ tampers = 0 /\ past = {}
      /\ acked = [d \in Dispatcher |-> "absent"]
      /\ at = [d \in Dispatcher |-> "new"]
      /\ round = [d \in Dispatcher |-> 1]
      /\ child = [d \in Dispatcher |-> "none"]
      /\ answer = [d \in Dispatcher |-> "none"]
  BY DEF Init, Idle
<1>2. NoAnchor \in Anchors /\ AnchorTypes(NoAnchor)
      /\ NoAnchor.ledger = NoLedger /\ NoAnchor.pending = NoLedger
  BY AnchorFacts, NoLedgerType
<1>3. /\ disk \in Disks /\ disk.anchor = NoAnchor
      /\ disk.ledger = NoLedger /\ disk.staged = NoLedger
  BY <1>1, <1>2, NoLedgerType DEF Disks
<1>4. FileTypes
  BY <1>1, <1>2, <1>3, IdleIs, FleetAssumption DEF FileTypes, Free, Approvals
<1>5. Processes
  <2>1. ProcessTypes
    BY <1>1 DEF ProcessTypes, Places, Operating, Phases
  <2>2. \A d \in Dispatcher : Fits(d)
    BY <1>1 DEF Fits, Launching, Launched
  <2> QED BY <2>1, <2>2 DEF Processes
<1>6. op.pc = "idle" /\ op.who = Nobody /\ op.target = NoLedger
  BY <1>1, IdleIs
<1>7. OpPlaced
  BY <1>6 DEF OpPlaced, Free, Writing
<1>8. NoDenials
  <2>1. Written = {NoLedger}
    BY <1>1, <1>2, <1>3, <1>6 DEF Written
  <2> QED BY <2>1, NothingDenies DEF NoDenials
<1>9. AsWritten /\ NothingForgotten /\ CrashRecovers
  BY <1>1, <1>3, <1>6 DEF AsWritten, NothingForgotten, CrashRecovers
<1>10. Launching = {} /\ Occupying = {} /\ Launched = {} /\ Running = {}
  BY <1>1 DEF Launching, Occupying, Launched, Running
<1>11. Bounded(spend, {}, {})
  BY <1>1, SpendType, FS_EmptySet DEF Bounded, Spending
<1>12. LatestIsSound /\ CeilingsHold
  BY <1>3, <1>6, <1>10, <1>11 DEF LatestIsSound, WithinCeilings, CeilingsHold, Bounded
<1> QED
  BY <1>4, <1>5, <1>7, <1>8, <1>9, <1>12, Parts

LEMMA NextKeeps == ASSUME FleetInv, [Next]_vars PROVE FleetInv'
<1>1. CASE Read
  BY <1>1, RecoverKeeps, ExamineKeeps, GenesisKeeps, ReconcileKeeps, AdoptKeeps, DecideKeeps
  DEF Read
<1>2. CASE WriteLedger
  BY <1>2, StageKeeps, PrepareKeeps, PromoteKeeps, CommitKeeps DEF WriteLedger
<1>3. CASE \E d \in Dispatcher : Dispatch(d) \/ Die(d)
  BY <1>3, BeginKeeps, RefuseInactiveKeeps, LaunchKeeps, DieKeeps DEF Dispatch
<1>4. CASE Fail \/ Lapse \/ Tamper
  BY <1>4, FailKeeps, LapseKeeps, TamperKeeps
<1>5. CASE UNCHANGED vars
  BY <1>5, StutterKeeps
<1> QED
  BY <1>1, <1>2, <1>3, <1>4, <1>5 DEF Next, Done

(* Whatever fails, dies, is deleted or put back, and however many           *)
(* dispatchers there are: the ceilings of the approval hold, no result is   *)
(* a false denial, and what a crash leaves behind can be read again.        *)
THEOREM FleetInvariance == Spec => []FleetInv
<1> QED
  BY InitKeeps, NextKeeps, PTL DEF Spec

(* An operation decides only on a ledger that has every transition some     *)
(* dispatcher was told of: the anchor agrees with no earlier one.           *)
THEOREM DecisionsOnLatest == Spec => []DecidesOnLatest
<1>1. FleetInv => DecidesOnLatest
  <2> SUFFICES ASSUME FleetInv, op.pc = "decide"
               PROVE  \A d \in Dispatcher : Rank(acked[d]) =< Rank(Phase(disk.ledger, d))
    BY DEF DecidesOnLatest
  <2>1. FileTypes /\ LatestIsSound /\ AsWritten
    BY Parts
  <2>2. disk.anchor # NoAnchor /\ Latest = disk.ledger
    BY <2>1, Fields DEF AsWritten, Latest
  <2> QED
    BY <2>1, <2>2 DEF LatestIsSound, Sound, Remembers
<1> QED
  BY <1>1, FleetInvariance, PTL

(* No result and no ledger on disk denies that a provider was contacted     *)
(* when a process was started.                                              *)
THEOREM DenialsAreTrue == Spec => []DenialIsTrue
<1>1. FleetInv => DenialIsTrue
  <2> SUFFICES ASSUME FleetInv, NEW d \in Launched
               PROVE  /\ answer[d] # "no"
                      /\ Phase(disk.ledger, d) \notin {"cancelled_pre_spawn", "spawn_failed"}
    BY DEF DenialIsTrue
  <2>1. Processes /\ NoDenials /\ d \in Dispatcher
    BY Parts DEF Launched
  <2>2. answer[d] # "no"
    BY <2>1 DEF Processes, Fits
  <2>3. ~Denies(disk.ledger, d)
    BY <2>1 DEF NoDenials, Written, Barred, Launched
  <2> QED
    BY <2>2, <2>3 DEF Denies
<1> QED
  BY <1>1, FleetInvariance, PTL

===============================================================================

---------------------------- MODULE LockFileProofs ----------------------------
(***************************************************************************)
(* Exclusion under the cautious lock files (LockFile!LockInv), for any     *)
(* number of processes, creations and deaths.                              *)
(*                                                                         *)
(* The tokens are numbered as they are drawn, so a token names one owner;  *)
(* a contender that is about to remove a lock holds flock and has seen,    *)
(* while it held it, that the owner is dead, and dead owners stay dead.    *)
(***************************************************************************)
EXTENDS LockFile, TLAPS

\* What the repository's rules are like where they are cautious.
LEMMA CautiousRules ==
  ASSUME rule \in RepositoryRules, Cautious
  PROVE  /\ rule.blank = "kept"
         /\ rule.stale \in {"never", "old and dead"}
         /\ rule.stale = "never" => rule.guard = "none"
         /\ rule.guard \in {"none", "flock"}
         /\ rule.guard = "flock" => rule.stale = "old and dead"
<1>1. BudgetLock.stale # "never" /\ BudgetLock.guard # "flock"
  BY DEF BudgetLock
<1>2. RegistryLock.stale # "never" /\ RegistryLock.guard # "flock"
  BY DEF RegistryLock
<1>3. WorktreeLock.stale # "never" /\ WorktreeLock.guard # "flock"
  BY DEF WorktreeLock, RegistryLock
<1>4. OutLock.stale # "never" /\ OutLock.guard # "flock"
  BY DEF OutLock
<1>5. SpoolLock.stale # "never" /\ SpoolLock.guard # "flock"
  BY DEF SpoolLock
<1>6. ProbeLock.stale # "never" /\ ProbeLock.guard # "flock"
  BY DEF ProbeLock
<1>7. KimiLock.stale # "never" /\ KimiLock.guard # "flock"
  BY DEF KimiLock
<1>8. rule \in {AppendLock, MutationLock, SnapshotLock}
  BY <1>1, <1>2, <1>3, <1>4, <1>5, <1>6, <1>7 DEF RepositoryRules, Cautious
<1>9. AppendLock.blank = "kept" /\ AppendLock.stale = "old and dead" /\ AppendLock.guard = "flock"
  BY DEF AppendLock
<1>10. MutationLock.blank = "kept" /\ MutationLock.stale = "never" /\ MutationLock.guard = "none"
  BY DEF MutationLock
<1>11. SnapshotLock.blank = "kept" /\ SnapshotLock.stale = "never" /\ SnapshotLock.guard = "none"
  BY DEF SnapshotLock, MutationLock
<1> QED
  BY <1>8, <1>9, <1>10, <1>11

\* Under a cautious rule only the lock of a dead owner is judged stale, and
\* under one that never judges, none is.
LEMMA CautiousStale ==
  ASSUME rule \in RepositoryRules, Cautious, Stale
  PROVE  OwnerDead /\ rule.guard = "flock"
<1>1. written
  BY CautiousRules DEF Stale
<1>2. CASE rule.stale = "never"
  BY <1>1, <1>2 DEF Stale
<1>3. CASE rule.stale = "old and dead"
  BY <1>1, <1>3 DEF Stale, Cautious
<1> QED BY <1>2, <1>3, CautiousRules

-----------------------------------------------------------------------------
(* Types.  The Boolean variables go by themselves: the provers are better  *)
(* at them alone.                                                          *)
Flags == written \in BOOLEAN /\ old \in BOOLEAN /\ guardOld \in BOOLEAN

Values ==
  /\ rule \in Rules
  /\ lock \in 0 .. MaxLocks
  /\ owner \in [Token -> Process \cup {None}]
  /\ made \in 0 .. MaxLocks
  /\ guard \in Process \cup {None}
  /\ alive \in [Process -> BOOLEAN]
  /\ pc \in [Process -> Steps]
  /\ mine \in [Process -> 0 .. MaxLocks]
  /\ seen \in [Process -> 0 .. MaxLocks]

Links ==
  /\ written \/ old => lock # 0
  /\ lock # 0 => owner[lock] \in Process
  /\ guardOld => guard # None /\ rule.guard = "mkdir"

LEMMA TypeParts == TypeOK <=> Flags /\ Values /\ Links
  BY DEF TypeOK, Flags, Values, Links

LEMMA TypeInit == Init => TypeOK
<1> SUFFICES ASSUME Init PROVE Flags /\ Values /\ Links
  BY TypeParts
<1>1. Flags
  BY DEF Init, Flags
<1>2. Values
  BY LockAssumption DEF Init, Values, Steps
<1>3. Links
  BY DEF Init, Links
<1> QED BY <1>1, <1>2, <1>3

LEMMA GotoType ==
  ASSUME Values, NEW p, NEW l \in Steps, Goto(p, l) PROVE pc' \in [Process -> Steps]
  BY DEF Values, Goto

LEMMA PlacesStep ==
  ASSUME Values, NEW p \in Process, Step(p) PROVE pc' \in [Process -> Steps]
<1>1. CASE Create(p) \/ Write(p) \/ Refused(p) \/ Remove(p) \/ DropGuard(p) \/ Unlink(p)
  BY <1>1, GotoType DEF Create, Write, Refused, Remove, DropGuard, Unlink, Steps
<1>2. CASE Look(p)
  BY <1>2, GotoType DEF Look, Steps
<1>3. CASE TakeGuard(p) \/ Recheck(p) \/ Leave(p)
  BY <1>3, GotoType DEF TakeGuard, Recheck, Leave, Steps
<1> QED BY <1>1, <1>2, <1>3 DEF Step

LEMMA ValuesStep ==
  ASSUME Values, [Next]_vars PROVE Values'
<1> USE DEF fileVars, guardVars
<1>1. ASSUME NEW p \in Process, Step(p) PROVE Values'
  <2>1. pc' \in [Process -> Steps]
    BY <1>1, PlacesStep
  <2>2. CASE Create(p)
    BY <2>1, <2>2, LockAssumption DEF Create, Values, Token
  <2>3. CASE Write(p)
    BY <2>1, <2>3 DEF Write, Values
  <2>4. CASE Refused(p) \/ Recheck(p) \/ Leave(p)
    BY <2>1, <2>4 DEF Refused, Recheck, Leave, Values
  <2>5. CASE Remove(p) \/ Unlink(p)
    BY <2>1, <2>5, LockAssumption DEF Remove, Unlink, Values
  <2>6. CASE Look(p)
    BY <2>1, <2>6 DEF Look, Values
  <2>7. CASE TakeGuard(p) \/ DropGuard(p)
    BY <2>1, <2>7 DEF TakeGuard, DropGuard, Values
  <2> QED BY <1>1, <2>2, <2>3, <2>4, <2>5, <2>6, <2>7 DEF Step
<1>2. ASSUME NEW p \in Process, Die(p) PROVE Values'
  BY <1>2 DEF Die, Values
<1>3. CASE LockAges \/ GuardAges \/ UNCHANGED vars
  BY <1>3 DEF LockAges, GuardAges, vars, Values
<1> QED BY <1>1, <1>2, <1>3 DEF Next

LEMMA FlagsStep ==
  ASSUME Flags, [Next]_vars PROVE Flags'
<1> USE DEF Flags, fileVars, guardVars
<1>1. ASSUME NEW p \in Process, Step(p) PROVE Flags'
  BY <1>1 DEF Step, Create, Write, Refused, Look, TakeGuard, Recheck, Remove, DropGuard,
              Leave, Unlink
<1>2. ASSUME NEW p \in Process, Die(p) PROVE Flags'
  BY <1>2 DEF Die
<1>3. CASE LockAges \/ GuardAges \/ UNCHANGED vars
  BY <1>3 DEF LockAges, GuardAges, vars
<1> QED BY <1>1, <1>2, <1>3 DEF Next

LEMMA LinksStep ==
  ASSUME Flags, Values, Links, TokensKnown, [Next]_vars PROVE Links'
<1> USE DEF Links, fileVars, guardVars
<1>1. ASSUME NEW p \in Process, Create(p) PROVE Links'
  <2>1. lock' = made + 1 /\ lock' # 0 /\ owner'[lock'] = p
    BY <1>1, LockAssumption DEF Create, Values, Token
  <2> QED BY <1>1, <2>1 DEF Create
<1>2. ASSUME NEW p \in Process, Write(p) PROVE Links'
  BY <1>2 DEF Write, TokensKnown
<1>3. ASSUME NEW p \in Process,
             Refused(p) \/ Look(p) \/ Recheck(p) \/ Remove(p) \/ Leave(p) \/ Unlink(p)
      PROVE  Links'
  BY <1>3 DEF Refused, Look, Recheck, Remove, Leave, Unlink
<1>4. ASSUME NEW p \in Process, TakeGuard(p) \/ DropGuard(p) PROVE Links'
  BY <1>4 DEF TakeGuard, DropGuard
<1>5. ASSUME NEW p \in Process, Die(p) PROVE Links'
  BY <1>5 DEF Die
<1>6. CASE LockAges
  BY <1>6 DEF LockAges
<1>7. CASE GuardAges
  BY <1>7 DEF GuardAges
<1>8. CASE UNCHANGED vars
  BY <1>8 DEF vars
<1> QED BY <1>1, <1>2, <1>3, <1>4, <1>5, <1>6, <1>7, <1>8 DEF Next, Step

LEMMA TypeStep ==
  ASSUME TypeOK, TokensKnown, [Next]_vars PROVE TypeOK'
<1>1. Flags' /\ Values' /\ Links'
  BY TypeParts, FlagsStep, ValuesStep, LinksStep
<1> QED BY <1>1 DEF TypeOK, Flags, Values, Links

-----------------------------------------------------------------------------
(* Exclusion. *)

LEMMA LockInit == Init => LockInv
<1> SUFFICES ASSUME Init PROVE LockInv
  OBVIOUS
<1>1. TypeOK
  BY TypeInit
<1>2. MutualExclusion
  BY DEF Init, MutualExclusion, Inside
<1>3. TokensKnown
  BY DEF Init, TokensKnown
<1>4. OwnersHold /\ RemoversGuarded
  BY DEF Init, OwnersHold, RemoversGuarded
<1> QED BY <1>1, <1>2, <1>3, <1>4 DEF LockInv

\* A token has one owner, who drew it.
LEMMA TokensStep ==
  ASSUME TypeOK, TokensKnown, [Next]_vars PROVE TokensKnown'
<1> USE DEF TokensKnown, Goto, fileVars, guardVars
<1>v. Values
  BY TypeParts
<1> USE <1>v DEF Values
<1>1. ASSUME NEW p \in Process, Create(p) PROVE TokensKnown'
  BY <1>1, LockAssumption DEF Create, Token
<1>2. ASSUME NEW p \in Process,
             \/ Write(p) \/ Leave(p) \/ Unlink(p) \/ Refused(p) \/ Recheck(p) \/ Remove(p)
             \/ Look(p) \/ TakeGuard(p) \/ DropGuard(p) \/ Die(p)
      PROVE  TokensKnown'
  BY <1>2 DEF Write, Leave, Unlink, Refused, Recheck, Remove, Look, TakeGuard, DropGuard, Die
<1>3. CASE LockAges \/ GuardAges \/ UNCHANGED vars
  BY <1>3 DEF LockAges, GuardAges, vars
<1> QED BY <1>1, <1>2, <1>3 DEF Next, Step

\* No step takes the lock away from a live process that has created it, and
\* none brings a second remover in.
LEMMA CautionStep ==
  ASSUME TypeOK, TokensKnown, Cautious, OwnersHold, RemoversGuarded, [Next]_vars
  PROVE  OwnersHold' /\ RemoversGuarded'
<1>r. rule \in RepositoryRules
  BY LockAssumption DEF TypeOK
<1> USE DEF TypeOK, OwnersHold, RemoversGuarded, Goto, fileVars, guardVars
<1>1. ASSUME NEW p \in Process, Create(p), alive[p] PROVE OwnersHold' /\ RemoversGuarded'
  <2>1. \A q \in Process : alive[q] => pc[q] \notin {"write", "in", "unlink", "remove"}
    BY <1>1 DEF Create, OwnerDead
  <2>2. OwnersHold'
    BY <1>1, <2>1 DEF Create
  <2>3. RemoversGuarded'
    BY <1>1, <2>1 DEF Create
  <2> QED BY <2>2, <2>3
<1>2. ASSUME NEW p \in Process, Write(p) \/ Leave(p) PROVE OwnersHold' /\ RemoversGuarded'
  BY <1>2 DEF Write, Leave, OwnerDead
<1>3. ASSUME NEW p \in Process, Unlink(p), alive[p] PROVE OwnersHold' /\ RemoversGuarded'
  <2>1. lock # 0 /\ lock = mine[p] /\ owner[lock] = p
    BY <1>3 DEF Unlink, TokensKnown
  <2>2. \A q \in Process : alive[q] /\ q # p => pc[q] \notin {"write", "in", "unlink", "remove"}
    BY <1>3, <2>1 DEF TokensKnown, OwnerDead
  <2> QED BY <1>3, <2>2 DEF Unlink
<1>4. ASSUME NEW p \in Process, Remove(p), alive[p] PROVE OwnersHold' /\ RemoversGuarded'
  <2>1. OwnerDead /\ guard = p
    BY <1>4 DEF Remove
  <2>2. \A q \in Process : alive[q] => pc[q] \notin {"write", "in", "unlink"}
    BY <2>1 DEF TokensKnown, OwnerDead
  <2>3. \A q \in Process : alive[q] /\ q # p => pc[q] # "remove"
    BY <2>1
  <2> QED BY <1>4, <2>2, <2>3 DEF Remove
<1>5. ASSUME NEW p \in Process, Look(p) PROVE OwnersHold' /\ RemoversGuarded'
  <2>1. lock # 0 /\ Stale => rule.guard = "flock"
    BY <1>r, CautiousStale
  <2> QED BY <1>5, <2>1 DEF Look, OwnerDead
<1>6. ASSUME NEW p \in Process, Recheck(p), alive[p] PROVE OwnersHold' /\ RemoversGuarded'
  <2>1. rule.guard = "flock" /\ guard = p
    BY <1>6 DEF Recheck
  <2>2. StillTheOneSeen(p) => OwnerDead
    BY <1>r, CautiousStale DEF StillTheOneSeen
  <2>3. /\ pc'[p] \in {"remove", "drop"} /\ (pc'[p] = "remove" => OwnerDead)
        /\ \A q \in Process : q # p => pc'[q] = pc[q]
    BY <1>6, <2>2 DEF Recheck
  <2>4. UNCHANGED <<rule, lock, owner, guard, alive, mine>>
    BY <1>6 DEF Recheck
  <2>5. OwnersHold'
    BY <2>3, <2>4
  <2>6. RemoversGuarded'
    BY <2>1, <2>3, <2>4 DEF OwnerDead
  <2> QED BY <2>5, <2>6
<1>7. ASSUME NEW p \in Process, TakeGuard(p) \/ DropGuard(p), alive[p]
      PROVE  OwnersHold' /\ RemoversGuarded'
  <2>1. rule.guard = "flock"
    BY <1>7 DEF TakeGuard, DropGuard
  <2> QED BY <1>7, <2>1, LockAssumption DEF TakeGuard, DropGuard, OwnerDead
<1>8. ASSUME NEW p \in Process, Refused(p) PROVE OwnersHold' /\ RemoversGuarded'
  BY <1>8 DEF Refused, OwnerDead
<1>9. ASSUME NEW p \in Process, Die(p) PROVE OwnersHold' /\ RemoversGuarded'
  BY <1>9 DEF Die, OwnerDead
<1>10. CASE LockAges \/ GuardAges \/ UNCHANGED vars
  BY <1>10 DEF LockAges, GuardAges, vars, OwnerDead
<1> QED BY <1>1, <1>2, <1>3, <1>4, <1>5, <1>6, <1>7, <1>8, <1>9, <1>10 DEF Next, Step

LEMMA RuleStands == [Next]_vars => rule' = rule
  BY DEF Next, Step, vars, LockAges, GuardAges, Create, Write, Refused, Look, TakeGuard,
         Recheck, Remove, DropGuard, Leave, Unlink, Die

LEMMA LockStep == LockInv /\ [Next]_vars => LockInv'
<1> SUFFICES ASSUME LockInv, [Next]_vars PROVE LockInv'
  OBVIOUS
<1>1. TypeOK' /\ TokensKnown'
  BY TypeStep, TokensStep DEF LockInv
<1>2. Cautious' => Cautious
  BY RuleStands DEF Cautious
<1>3. Cautious' => OwnersHold' /\ RemoversGuarded'
  BY <1>2, CautionStep DEF LockInv
<1>4. MutualExclusion'
  <2>1. CASE Cautious'
    <3>1. OwnersHold'
      BY <1>3, <2>1
    <3>2. ASSUME NEW p \in Process, NEW q \in Process, Inside(p)', Inside(q)' PROVE p = q
      <4>1. lock' # 0 /\ lock' = mine'[p] /\ lock' = mine'[q]
        BY <3>1, <3>2 DEF OwnersHold, Inside
      <4> QED BY <1>1, <4>1 DEF TokensKnown
    <3> QED BY <3>2 DEF MutualExclusion
  <2>2. CASE ~Cautious'
    BY <2>2 DEF MutualExclusion
  <2> QED BY <2>1, <2>2
<1> QED BY <1>1, <1>3, <1>4 DEF LockInv

(* A contender that judged a lock dead, however long it was suspended      *)
(* since, removes that lock or none (LockFile!LockInv), where the rule     *)
(* makes it look again under an OS lock, as _exclusive_file_lock of        *)
(* _conversation.py does, or where nobody ever removes, as in              *)
(* _record_mutation of _jobs.py: for any number of processes and deaths.   *)
THEOREM LockInvariance == Spec => []LockInv
  BY LockInit, LockStep, PTL DEF Spec

(* Two live processes are never inside a section under such a lock file.   *)
THEOREM Exclusion == Spec => []MutualExclusion
<1>1. LockInv => MutualExclusion
  BY DEF LockInv
<1> QED BY <1>1, LockInvariance, PTL
===============================================================================

------------------------------ MODULE LockFile ------------------------------
(***************************************************************************)
(* The lock files of the repository: a file created with O_CREAT|O_EXCL    *)
(* that holds the pid and token of its owner.  They differ in when a       *)
(* contender may judge a lock stale, in what it does before it removes it, *)
(* and in what the owner looks at before it removes it.  A rule says       *)
(* which; one module covers all of them.                                   *)
(*                                                                         *)
(* One action per file operation.  Abstracted: the 24 hours after which    *)
(* an out lock expires under a live owner, reused pids, and time-outs of   *)
(* a waiter (a waiter that gives up is one that takes no further step).    *)
(***************************************************************************)
EXTENDS Naturals, FiniteSets

CONSTANTS Process,    \* the processes that contend
          Rules,      \* the rules looked at
          MaxLocks,   \* bound: how often the file is created
          MaxDeaths,  \* bound: processes that die
          None

Token == 1 .. MaxLocks

(* stale: what makes a lock with a readable owner stale.  blank: whether a *)
(* lock without contents is kept for ever or stale once old.  guard: what  *)
(* a contender holds while it removes.  recheck: it reads the lock again   *)
(* before removing.  verify: the owner removes only a lock with its token. *)
Rule == [stale   : {"dead", "old", "old and dead", "old or dead", "never"},
         blank   : {"kept", "old"},
         guard   : {"none", "flock", "mkdir"},
         recheck : BOOLEAN,
         verify  : BOOLEAN]

BudgetLock == [stale |-> "dead", blank |-> "old", guard |-> "none",
               recheck |-> FALSE, verify |-> TRUE]
HookLock == BudgetLock
RegistryLock == [stale |-> "old and dead", blank |-> "kept", guard |-> "none",
                 recheck |-> FALSE, verify |-> TRUE]
WorktreeLock == [RegistryLock EXCEPT !.recheck = TRUE]
AppendLock_Old == [stale |-> "old", blank |-> "kept", guard |-> "flock",
                   recheck |-> TRUE, verify |-> FALSE]
AppendLock == [stale |-> "old and dead", blank |-> "kept", guard |-> "flock",
               recheck |-> TRUE, verify |-> FALSE]
OutLock == [stale |-> "dead", blank |-> "old", guard |-> "mkdir",
            recheck |-> TRUE, verify |-> TRUE]
SpoolLock == [stale |-> "old", blank |-> "old", guard |-> "none",
              recheck |-> TRUE, verify |-> TRUE]
ProbeLock == [stale |-> "old or dead", blank |-> "old", guard |-> "none",
              recheck |-> FALSE, verify |-> TRUE]
KimiLock == [stale |-> "old", blank |-> "old", guard |-> "none",
             recheck |-> FALSE, verify |-> FALSE]
MutationLock == [stale |-> "never", blank |-> "kept", guard |-> "none",
                 recheck |-> FALSE, verify |-> TRUE]
SnapshotLock == [MutationLock EXCEPT !.verify = FALSE]

RepositoryRules == {BudgetLock, RegistryLock, WorktreeLock, AppendLock, OutLock,
                    SpoolLock, ProbeLock, KimiLock, MutationLock, SnapshotLock}

ASSUME LockAssumption == /\ Rules \subseteq RepositoryRules
                         /\ MaxLocks \in Nat
                         /\ MaxDeaths \in Nat
                         /\ None \notin Process

VARIABLES rule,      \* the rule in force; never changes
          lock,      \* the token of the lock file, 0 when there is none
          written,   \* the lock file holds its owner's pid and token
          old,       \* the lock file is older than the rule's threshold
          owner,     \* who created each token
          made,      \* tokens created so far
          guard,     \* who holds the guard of the removal
          guardOld,  \* the guard directory is older than its threshold
          alive, pc,
          mine,      \* the token a process created last
          seen       \* the token a process judged stale

vars == <<rule, lock, written, old, owner, made, guard, guardOld, alive, pc,
          mine, seen>>

fileVars  == <<lock, written, old, owner, made>>
guardVars == <<guard, guardOld>>

Steps == {"idle", "write", "in", "unlink", "look", "guard", "recheck",
          "remove", "drop"}

TypeOK ==
  /\ rule \in Rules
  /\ lock \in 0 .. MaxLocks
  /\ written \in BOOLEAN /\ old \in BOOLEAN /\ guardOld \in BOOLEAN
  /\ owner \in [Token -> Process \cup {None}]
  /\ made \in 0 .. MaxLocks
  /\ guard \in Process \cup {None}
  /\ alive \in [Process -> BOOLEAN]
  /\ pc \in [Process -> Steps]
  /\ mine \in [Process -> 0 .. MaxLocks]
  /\ seen \in [Process -> 0 .. MaxLocks]
  /\ written \/ old => lock # 0
  /\ lock # 0 => owner[lock] \in Process
  /\ guardOld => guard # None /\ rule.guard = "mkdir"

Init ==
  /\ rule \in Rules
  /\ lock = 0 /\ made = 0 /\ guard = None
  /\ written = FALSE /\ old = FALSE /\ guardOld = FALSE
  /\ owner = [t \in Token |-> None]
  /\ alive = [p \in Process |-> TRUE]
  /\ pc = [p \in Process |-> "idle"]
  /\ mine = [p \in Process |-> 0]
  /\ seen = [p \in Process |-> 0]

Goto(p, l) == pc' = [pc EXCEPT ![p] = l]

OwnerDead == lock # 0 /\ ~alive[owner[lock]]

Stale_BlankKept ==
  /\ written
  /\ rule.stale = "old" \/ rule.stale = "old or dead" => old \/ OwnerDead
  /\ rule.stale = "dead" => OwnerDead
  /\ rule.stale # "never"

(* What a contender that reads the lock file concludes.                    *)
Stale ==
  \/ ~written /\ rule.blank = "old" /\ old
  \/ /\ written
     /\ \/ rule.stale = "dead" /\ OwnerDead
        \/ rule.stale = "old" /\ old
        \/ rule.stale = "old and dead" /\ old /\ OwnerDead
        \/ rule.stale = "old or dead" /\ (old \/ OwnerDead)

----------------------------------------------------------------------------
(* Creation of the lock file, and then of its contents.                    *)
Create(p) ==
  /\ pc[p] = "idle" /\ lock = 0 /\ made < MaxLocks
  /\ made' = made + 1
  /\ lock' = made + 1 /\ written' = FALSE /\ old' = FALSE
  /\ owner' = [owner EXCEPT ![made + 1] = p]
  /\ mine' = [mine EXCEPT ![p] = made + 1]
  /\ Goto(p, "write")
  /\ UNCHANGED <<rule, guardVars, alive, seen>>

Write_ByName(p) ==
  /\ pc[p] = "write"
  /\ written' = TRUE
  /\ Goto(p, "in")
  /\ UNCHANGED <<rule, lock, old, owner, made, guardVars, alive, mine, seen>>

(* The contents go to the file that was created, under whatever name it    *)
(* has by now.                                                             *)
Write(p) ==
  /\ pc[p] = "write"
  /\ written' = (written \/ lock = mine[p])
  /\ Goto(p, "in")
  /\ UNCHANGED <<rule, lock, old, owner, made, guardVars, alive, mine, seen>>

Refused(p) ==
  /\ pc[p] = "idle" /\ lock # 0
  /\ Goto(p, "look")
  /\ UNCHANGED <<rule, fileVars, guardVars, alive, mine, seen>>

(* The contender reads the lock and probes its owner.                      *)
Look(p) ==
  /\ pc[p] = "look"
  /\ IF lock # 0 /\ Stale
       THEN /\ seen' = [seen EXCEPT ![p] = lock]
            /\ Goto(p, IF rule.guard # "none" THEN "guard"
                       ELSE IF rule.recheck THEN "recheck" ELSE "remove")
       ELSE Goto(p, "idle") /\ UNCHANGED seen
  /\ UNCHANGED <<rule, fileVars, guardVars, alive, mine>>

(* flock is refused while it is held; a guard directory that looks         *)
(* abandoned is replaced.                                                  *)
TakeGuard(p) ==
  /\ pc[p] = "guard"
  /\ IF guard = None \/ (rule.guard = "mkdir" /\ guardOld)
       THEN guard' = p /\ guardOld' = FALSE /\ Goto(p, "recheck")
       ELSE Goto(p, "idle") /\ UNCHANGED guardVars
  /\ UNCHANGED <<rule, fileVars, alive, mine, seen>>

StillTheOneSeen(p) == lock = seen[p] /\ Stale

Recheck(p) ==
  /\ pc[p] = "recheck"
  /\ Goto(p, IF StillTheOneSeen(p) THEN "remove" ELSE "drop")
  /\ UNCHANGED <<rule, fileVars, guardVars, alive, mine, seen>>

(* A rename or unlink takes whatever has the name now.                     *)
Remove(p) ==
  /\ pc[p] = "remove"
  /\ lock' = 0 /\ written' = FALSE /\ old' = FALSE
  /\ Goto(p, "drop")
  /\ UNCHANGED <<rule, owner, made, guardVars, alive, mine, seen>>

(* rmdir removes the guard directory, whoever made it.                     *)
DropGuard(p) ==
  /\ pc[p] = "drop"
  /\ IF rule.guard = "mkdir" \/ guard = p
       THEN guard' = None /\ guardOld' = FALSE
       ELSE UNCHANGED guardVars
  /\ Goto(p, "idle")
  /\ UNCHANGED <<rule, fileVars, alive, mine, seen>>

(* The end of the critical section.                                        *)
Owns(p) == lock = mine[p] /\ written

Leave(p) ==
  /\ pc[p] = "in"
  /\ Goto(p, IF rule.verify => Owns(p) THEN "unlink" ELSE "idle")
  /\ UNCHANGED <<rule, fileVars, guardVars, alive, mine, seen>>

Unlink(p) ==
  /\ pc[p] = "unlink"
  /\ lock' = 0 /\ written' = FALSE /\ old' = FALSE
  /\ Goto(p, "idle")
  /\ UNCHANGED <<rule, owner, made, guardVars, alive, mine, seen>>

(* The surroundings: time passes, processes are killed.  flock falls with  *)
(* its holder; a directory stays.                                          *)
LockAges ==
  /\ lock # 0 /\ ~old
  /\ old' = TRUE
  /\ UNCHANGED <<rule, lock, written, owner, made, guardVars, alive, pc, mine, seen>>

GuardAges ==
  /\ rule.guard = "mkdir" /\ guard # None /\ ~guardOld
  /\ guardOld' = TRUE
  /\ UNCHANGED <<rule, fileVars, guard, alive, pc, mine, seen>>

Die(p) ==
  /\ alive[p]
  /\ Cardinality({q \in Process : ~alive[q]}) < MaxDeaths
  /\ alive' = [alive EXCEPT ![p] = FALSE]
  /\ IF rule.guard = "flock" /\ guard = p THEN guard' = None ELSE UNCHANGED guard
  /\ UNCHANGED <<rule, fileVars, guardOld, pc, mine, seen>>

Step(p) ==
  /\ alive[p]
  /\ \/ Create(p) \/ Write(p) \/ Refused(p) \/ Look(p) \/ TakeGuard(p)
     \/ Recheck(p) \/ Remove(p) \/ DropGuard(p) \/ Leave(p) \/ Unlink(p)

Next == LockAges \/ GuardAges \/ \E p \in Process : Step(p) \/ Die(p)

Spec == Init /\ [][Next]_vars

(* Time passes, and a process that is not killed is scheduled again: it    *)
(* leaves its critical section and, if it is refused, keeps asking.        *)
FairSpec == Spec /\ WF_vars(LockAges) /\ WF_vars(GuardAges)
                 /\ \A p \in Process : WF_vars(Step(p))

----------------------------------------------------------------------------
(* Rules under which nobody removes a lock but its owner, or only while    *)
(* flock keeps every other contender from removing one.                    *)
Cautious == rule.stale = "never" \/ rule.guard = "flock"

Inside(p) == alive[p] /\ pc[p] \in {"write", "in"}

(* Two live processes are never inside a section guarded by one lock file, *)
(* however long either was suspended.  Without Cautious a contender that   *)
(* is suspended before its removal takes away the lock of a live owner.    *)
MutualExclusion ==
  Cautious => \A p, q \in Process : Inside(p) /\ Inside(q) => p = q

(* Why: a live process that has created the lock finds it there until it   *)
(* removes it itself, because a contender that is about to remove a lock   *)
(* holds flock, and has seen under it that the owner is dead.              *)
TokensKnown ==
  /\ lock <= made
  /\ \A p \in Process : /\ mine[p] <= made
                        /\ mine[p] # 0 => owner[mine[p]] = p
                        /\ pc[p] = "write" => mine[p] # 0

OwnersHold ==
  \A p \in Process :
    alive[p] /\ pc[p] \in {"write", "in", "unlink"} => lock # 0 /\ lock = mine[p]

RemoversGuarded ==
  \A p \in Process : alive[p] =>
    /\ pc[p] \in {"guard", "recheck", "remove", "drop"} => rule.guard = "flock"
    /\ pc[p] \in {"recheck", "remove", "drop"} => guard = p
    /\ pc[p] = "remove" => OwnerDead

(* Types, exclusion, and the reasons for it.                               *)
LockInv == /\ TypeOK
           /\ MutualExclusion
           /\ TokensKnown
           /\ Cautious => OwnersHold /\ RemoversGuarded

(* The lock of a process that was killed goes away in the end, at whatever *)
(* step it was killed, so that it disables nobody for ever: where a lock   *)
(* without contents becomes stale with age, as the cautious ones do not.   *)
LeftLockFreed ==
  \A t \in Token :
    (rule.blank = "old" /\ lock = t /\ ~alive[owner[t]]) ~> (lock # t)
============================================================================

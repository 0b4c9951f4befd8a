-------------------------- MODULE ResourceGovernor --------------------------
(***************************************************************************)
(* The host-wide registry of worker leases: threads of several processes   *)
(* wait for a slot, run one worker under it and give it back, while time   *)
(* passes, releases fail, processes die and their pids are used again.     *)
(*                                                                         *)
(* Every operation on the registry reads, changes and replaces it under    *)
(* the registry lock and is one step (LockFile is about the lock).  The    *)
(* hardware is probed before the lock is taken, so that a decision may be  *)
(* made on an old sample.  Memory is counted in workers; other programs'   *)
(* use of it is left out, and each worker stays within its estimate.       *)
(***************************************************************************)
EXTENDS Integers, FiniteSets

CONSTANTS User,        \* threads that want a slot; a lease is named after its user
          Proc,        \* the processes they belong to
          ProcOf,      \* which belongs to which
          Limits,      \* what max_auto_workers may be
          Ram,         \* memory of the host, in workers
          MinFree,     \* min_free_ram_mb, in workers
          TTL, Lifetime, Window,  \* of a lease, in ticks
          Wait,        \* wait_timeout_sec, in ticks
          MaxDeaths,   \* bound: processes that die
          None

ASSUME GovernorAssumption ==
  /\ IsFiniteSet(User) /\ ProcOf \in [User -> Proc]
  /\ {Ram, MinFree, TTL, Lifetime, Window, Wait, MaxDeaths} \subseteq Nat
  /\ Limits \subseteq Nat
  /\ MinFree <= Ram /\ TTL > 0 /\ None \notin Nat

VARIABLES lease,       \* the registry
          phase,       \* of acquire_slot, per user
          wait,        \* until the user's deadline
          sample,      \* the user's last probe of the hardware
          resident,    \* users whose worker occupies memory
          process,     \* alive, dead, or dead and its pid used again
          birthKnown,  \* the platform tells when a process was born
          maxWorkers,  \* max_auto_workers
          blind        \* history: a slot was given without a memory sample

host == <<birthKnown, maxWorkers>>
vars == <<lease, phase, wait, sample, resident, process, host, blind>>

Lease == [age : 0 .. Lifetime + 1, left : 0 .. TTL, state : {"reserved", "launching", "running"}]
ASSUME NoneAssumption == None \notin Lease

Sample == [ram : (0 .. Ram) \cup {None}, cpuSaturated : BOOLEAN, diskLow : BOOLEAN]
Phases == {"idle", "asking", "probed", "holding", "leaving", "done", "refused", "killed"}

TypeOK ==
  /\ lease \in [User -> Lease \cup {None}]
  /\ phase \in [User -> Phases]
  /\ wait \in [User -> 0 .. Wait]
  /\ sample \in [User -> Sample \cup {None}]
  /\ resident \subseteq User
  /\ process \in [Proc -> {"alive", "dead", "reused"}]
  /\ birthKnown \in BOOLEAN /\ maxWorkers \in Limits /\ blind \in BOOLEAN
  /\ \A u \in User : phase[u] = "probed" => sample[u] \in Sample
  /\ \A u \in User : phase[u] \in {"idle", "asking", "probed", "refused"} => lease[u] = None
  /\ \A u \in resident : phase[u] \in {"holding", "killed"}

Init ==
  /\ lease = [u \in User |-> None]
  /\ phase = [u \in User |-> "idle"]
  /\ wait = [u \in User |-> 0]
  /\ sample = [u \in User |-> None]
  /\ resident = {}
  /\ process = [p \in Proc |-> "alive"]
  /\ birthKnown \in BOOLEAN
  /\ maxWorkers \in Limits
  /\ blind = FALSE

Owner(u) == process[ProcOf[u]]
Alive(u) == Owner(u) = "alive"

----------------------------------------------------------------------------
(* The owner is alive for sure, under the pid on record.                   *)
OwnerVerified(u) == birthKnown /\ Alive(u)
OwnerGone(u) == Owner(u) = "dead" \/ (birthKnown /\ Owner(u) = "reused")

IsLeaseLive_Expired(u) ==
  ~OwnerGone(u) /\ lease[u].age <= Lifetime /\ lease[u].left > 0

IsLeaseLive_NoLifetime(u) ==
  ~OwnerGone(u) /\ (lease[u].left > 0 \/ OwnerVerified(u))

IsLeaseLive(u) ==
  /\ ~OwnerGone(u)
  /\ lease[u].age <= Lifetime
  /\ lease[u].left > 0 \/ OwnerVerified(u)

LiveLeases == {u \in User : lease[u] # None /\ IsLeaseLive(u)}

Reaped == [u \in User |-> IF u \in LiveLeases THEN lease[u] ELSE None]

(* Leases whose memory the probe is taken not to show yet.                 *)
PendingRam_Young(L) == {u \in L : lease[u].age < Window}

PendingRam(L) ==
  {u \in L : lease[u].state \in {"reserved", "launching"} \/ lease[u].age < Window}

Minus(a, b) == IF a > b THEN a - b ELSE 0

RamSlots(ram, L) ==
  IF ram = None THEN Minus(2, Cardinality(L))
  ELSE Minus(Minus(ram, Cardinality(PendingRam(L))), MinFree)

Admitted_AtCap(s, L) == ~s.diskLow /\ RamSlots(s.ram, L) > 0 /\ Cardinality(L) <= maxWorkers

Admitted(s, L) ==
  /\ ~s.diskLow
  /\ RamSlots(s.ram, L) > 0
  /\ s.cpuSaturated => L = {}
  /\ Cardinality(L) < maxWorkers

----------------------------------------------------------------------------
Avail == Minus(Ram, Cardinality(resident))

EnterAcquireSlot(u) ==
  /\ phase[u] = "idle"
  /\ phase' = [phase EXCEPT ![u] = "asking"]
  /\ wait' = [wait EXCEPT ![u] = Wait]
  /\ UNCHANGED <<lease, sample, resident, process, host, blind>>

Probe(u) ==
  /\ phase[u] = "asking"
  /\ \E ram \in {Avail, None}, cpu, disk \in BOOLEAN :
       sample' = [sample EXCEPT ![u] = [ram |-> ram, cpuSaturated |-> cpu, diskLow |-> disk]]
  /\ phase' = [phase EXCEPT ![u] = "probed"]
  /\ UNCHANGED <<lease, wait, resident, process, host, blind>>

NewLease == [age |-> 0, left |-> TTL, state |-> "reserved"]

TryAcquireLease(u) ==
  /\ phase[u] = "probed"
  /\ LET ok == Admitted(sample[u], LiveLeases) IN
       /\ lease' = IF ok THEN [Reaped EXCEPT ![u] = NewLease] ELSE Reaped
       /\ phase' = [phase EXCEPT ![u] = IF ok THEN "holding"
                                        ELSE IF wait[u] = 0 THEN "refused" ELSE "asking"]
       /\ blind' = (blind \/ (ok /\ sample[u].ram = None))
  /\ sample' = [sample EXCEPT ![u] = None]
  /\ UNCHANGED <<wait, resident, process, host>>

(* The registry lock could not be had in time.                             *)
AcquireFails(u) ==
  /\ phase[u] = "probed"
  /\ phase' = [phase EXCEPT ![u] = "refused"]
  /\ sample' = [sample EXCEPT ![u] = None]
  /\ UNCHANGED <<lease, wait, resident, process, host, blind>>

StartWorker(u) ==
  /\ phase[u] = "holding" /\ u \notin resident
  /\ resident' = resident \cup {u}
  /\ UNCHANGED <<lease, phase, wait, sample, process, host, blind>>

FinishWorker_Detached(u) ==
  /\ phase[u] = "holding"
  /\ phase' = [phase EXCEPT ![u] = "leaving"]
  /\ UNCHANGED <<lease, wait, sample, resident, process, host, blind>>

FinishWorker(u) ==
  /\ phase[u] = "holding"
  /\ resident' = resident \ {u}
  /\ phase' = [phase EXCEPT ![u] = "leaving"]
  /\ UNCHANGED <<lease, wait, sample, process, host, blind>>

(* The thread that renews a lease asks only whether it is still there.     *)
RenewLease(u) ==
  /\ phase[u] = "holding" /\ lease[u] # None
  /\ lease' = [lease EXCEPT ![u].left = TTL]
  /\ UNCHANGED <<phase, wait, sample, resident, process, host, blind>>

ReleaseLease(u) ==
  /\ phase[u] = "leaving"
  /\ lease' = [lease EXCEPT ![u] = None]
  /\ phase' = [phase EXCEPT ![u] = "done"]
  /\ UNCHANGED <<wait, sample, resident, process, host, blind>>

(* The registry lock could not be had in time: the entry stays.            *)
ReleaseFails(u) ==
  /\ phase[u] = "leaving"
  /\ phase' = [phase EXCEPT ![u] = "done"]
  /\ UNCHANGED <<lease, wait, sample, resident, process, host, blind>>

ReconcileLeases ==
  /\ lease' = Reaped
  /\ UNCHANGED <<phase, wait, sample, resident, process, host, blind>>

----------------------------------------------------------------------------
Tick ==
  /\ lease' = [u \in User |->
       IF lease[u] = None THEN None
       ELSE [lease[u] EXCEPT !.age = IF @ > Lifetime THEN @ ELSE @ + 1,
                             !.left = Minus(@, 1)]]
  /\ wait' = [u \in User |-> Minus(wait[u], 1)]
  /\ UNCHANGED <<phase, sample, resident, process, host, blind>>

(* The workers of a killed process go on by themselves.                    *)
Die(p) ==
  /\ process[p] = "alive"
  /\ Cardinality({q \in Proc : process[q] # "alive"}) < MaxDeaths
  /\ process' = [process EXCEPT ![p] = "dead"]
  /\ phase' = [u \in User |-> IF ProcOf[u] = p /\ phase[u] \notin {"done", "refused"}
                              THEN "killed" ELSE phase[u]]
  /\ UNCHANGED <<lease, wait, sample, resident, host, blind>>

PidReused(p) ==
  /\ process[p] = "dead"
  /\ process' = [process EXCEPT ![p] = "reused"]
  /\ UNCHANGED <<lease, phase, wait, sample, resident, host, blind>>

OrphanEnds(u) ==
  /\ phase[u] = "killed" /\ u \in resident
  /\ resident' = resident \ {u}
  /\ UNCHANGED <<lease, phase, wait, sample, process, host, blind>>

Poll(u) == Probe(u) \/ TryAcquireLease(u)

Next ==
  \/ \E u \in User : \/ EnterAcquireSlot(u) \/ Poll(u) \/ AcquireFails(u)
                     \/ StartWorker(u) \/ FinishWorker(u) \/ RenewLease(u)
                     \/ ReleaseLease(u) \/ ReleaseFails(u) \/ OrphanEnds(u)
  \/ \E p \in Proc : Die(p) \/ PidReused(p)
  \/ ReconcileLeases \/ Tick

Spec == Init /\ [][Next]_vars

(* Time passes and a live process polls (poll_interval_sec).  Nothing is   *)
(* assumed of workers, of releases or of the renewing thread.              *)
FairSpec == Spec /\ WF_vars(Tick) /\ \A u \in User : WF_vars(Poll(u))

----------------------------------------------------------------------------
(* A worker that runs under a slot of a live process, not older than a     *)
(* lease can get.                                                          *)
Holding(u) == phase[u] = "holding" /\ Alive(u)
Entitled(u) == Holding(u) /\ lease[u] # None /\ lease[u].age <= Lifetime

(* Slots that are in use, by live processes and within the longest life of *)
(* a lease, never outnumber max_auto_workers, whoever else asked, died or  *)
(* was reaped in between.                                                  *)
CapacityHeld ==
  birthKnown => Cardinality({u \in User : Entitled(u)}) <= maxWorkers

(* Where births are known, no operation of anybody else takes the lease of *)
(* a live process away, however late its renewals are.                     *)
LiveOwnerKeepsLease ==
  [][\A u \in User : birthKnown /\ Entitled(u) /\ phase'[u] = "holding"
                       => lease'[u] # None]_vars

(* Decisions made on samples that were taken before other workers started  *)
(* still leave the memory floor alone, as long as the workers are those    *)
(* the registry knows and every decision had a memory sample.              *)
FloorHeld ==
  (~blind /\ \A u \in resident : u \in LiveLeases) => Avail >= MinFree

(* Why the floor holds: an admission counts every lease that is left in    *)
(* the registry against the memory of its sample, however old it is, since *)
(* nobody calls mark_lease_state; so the registry, stale leases included,  *)
(* never asks for more than the host has to give.                          *)
LeasesFit ==
  /\ \A u \in User : lease[u] # None => lease[u].state = "reserved"
  /\ ~blind => Cardinality({u \in User : lease[u] # None}) <= Ram - MinFree

(* Types, the number of workers and the memory they leave.                 *)
GovernorInv == TypeOK /\ CapacityHeld /\ LeasesFit /\ FloorHeld

(* A slot whose user has left, whose process was killed or whose release   *)
(* failed stops counting in the end, also if its pid is used again.        *)
SlotComesBack ==
  \A u \in User : (lease[u] # None /\ phase[u] \in {"done", "killed"})
                    ~> u \notin LiveLeases

(* "Automatically renews the lease while the with block is active so       *)
(* long-horizon runs do not expire."                                       *)
(* (It does not hold, and no run checks it: README, "What was found".)     *)
LongRunKeepsSlot == \A u \in User : birthKnown /\ Holding(u) => u \in LiveLeases

(* "Only subtract reserved_ram_mb for reservations not yet reflected in OS *)
(* RSS": a worker that has been running for the window is not subtracted.  *)
(* (It does not hold, and no run checks it: README, "What was found".)     *)
ResidentNotSubtracted ==
  \A u \in resident : lease[u] # None /\ lease[u].age >= Window
                        => u \notin PendingRam(LiveLeases)
============================================================================

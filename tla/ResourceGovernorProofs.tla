------------------------ MODULE ResourceGovernorProofs ------------------------
(***************************************************************************)
(* The lease registry keeps its promises (ResourceGovernor!GovernorInv     *)
(* and LiveOwnerKeepsLease) for any finite set of users and any processes, *)
(* limits, memory, times and deaths.                                       *)
(*                                                                         *)
(* Only TryAcquireLease adds a lease.  It first reaps, and it counts what  *)
(* is left; every entitled worker is among what is left, because its       *)
(* owner's birth is known and its lease is not older than a lease can get. *)
(***************************************************************************)
EXTENDS ResourceGovernor, FiniteSetTheorems, TLAPS

Leased == {u \in User : lease[u] # None}
Workers == {u \in User : Entitled(u)}

LEMMA FiniteCount ==
  ASSUME NEW S \in SUBSET User
  PROVE  IsFiniteSet(S) /\ Cardinality(S) \in Nat
  BY GovernorAssumption, FS_Subset, FS_CardinalityType

\* A subset has no more members.
LEMMA Fewer ==
  ASSUME NEW S \in SUBSET User, NEW T \in SUBSET S
  PROVE  /\ Cardinality(S) \in Nat /\ Cardinality(T) \in Nat
         /\ Cardinality(T) <= Cardinality(S)
  BY FiniteCount, FS_Subset

\* One more member adds one at most.
LEMMA OneMore ==
  ASSUME NEW S \in SUBSET User, NEW u \in User, NEW T \in SUBSET (S \cup {u})
  PROVE  /\ Cardinality(S) \in Nat /\ Cardinality(T) \in Nat
         /\ Cardinality(T) <= Cardinality(S) + 1
<1>1. /\ IsFiniteSet(S) /\ IsFiniteSet(S \cup {u}) /\ S \cup {u} \in SUBSET User
      /\ Cardinality(S \cup {u}) <= Cardinality(S) + 1
  BY FiniteCount, FS_AddElement
<1> QED BY <1>1, FiniteCount, FS_Subset

LEMMA MinusType ==
  \A a, b \in Nat : Minus(a, b) \in 0 .. a
  BY DEF Minus

-----------------------------------------------------------------------------
(* Types. *)

LEMMA Numbers ==
  /\ {Ram, MinFree, Wait} \subseteq Nat /\ MinFree <= Ram
  /\ TTL \in Nat /\ Lifetime \in Nat
  BY GovernorAssumption

LEMMA TypeInit == Init => TypeOK
<1> SUFFICES ASSUME Init PROVE TypeOK
  OBVIOUS
<1>1. /\ lease \in [User -> Lease \cup {None}] /\ phase \in [User -> Phases]
      /\ process \in [Proc -> {"alive", "dead", "reused"}]
      /\ sample \in [User -> Sample \cup {None}]
  BY DEF Init, Phases
<1>2. wait \in [User -> 0 .. Wait]
  BY Numbers DEF Init
<1>3. birthKnown \in BOOLEAN /\ blind \in BOOLEAN /\ maxWorkers \in Limits
  BY DEF Init
<1> QED BY <1>1, <1>2, <1>3 DEF Init, TypeOK

LEMMA ReapedType == TypeOK => Reaped \in [User -> Lease \cup {None}]
  BY DEF TypeOK, Reaped

LEMMA NewLeaseType == NewLease \in Lease
  BY GovernorAssumption DEF NewLease, Lease

\* A lease that has grown older by one tick.
Aged(l) == [l EXCEPT !.age = IF @ > Lifetime THEN @ ELSE @ + 1, !.left = Minus(@, 1)]

LEMMA AgedType == ASSUME NEW l \in Lease PROVE Aged(l) \in Lease
<1> DEFINE a == l.age
           b == l.left
<1>1. a \in 0 .. Lifetime + 1 /\ b \in 0 .. TTL
  BY DEF Lease
<1>2. (IF a > Lifetime THEN a ELSE a + 1) \in 0 .. Lifetime + 1
  BY <1>1, Numbers
<1>3. Minus(b, 1) \in 0 .. TTL
  BY <1>1, Numbers DEF Minus
<1> QED BY <1>2, <1>3 DEF Lease, Aged

LEMMA TypeStep ==
  ASSUME TypeOK, [Next]_vars PROVE TypeOK'
<1> USE GovernorAssumption DEF TypeOK, host
<1>1. ASSUME NEW u \in User, EnterAcquireSlot(u) PROVE TypeOK'
  BY <1>1 DEF EnterAcquireSlot, Phases
<1>2. ASSUME NEW u \in User, Probe(u) PROVE TypeOK'
  <2>1. Cardinality(resident) \in Nat
    BY FiniteCount
  <2>2. Avail \in 0 .. Ram
    BY <2>1, MinusType DEF Avail
  <2>3. sample' \in [User -> Sample \cup {None}] /\ sample'[u] \in Sample
    BY <1>2, <2>2 DEF Probe, Sample
  <2> QED BY <1>2, <2>3 DEF Probe, Phases
<1>3. ASSUME NEW u \in User, TryAcquireLease(u) PROVE TypeOK'
  <2> DEFINE ok == Admitted(sample[u], LiveLeases)
  <2>1. lease' \in [User -> Lease \cup {None}]
    BY <1>3, ReapedType, NewLeaseType DEF TryAcquireLease
  <2>2. \A v \in User : v # u => lease'[v] \in {lease[v], None}
    BY <1>3 DEF TryAcquireLease, Reaped
  <2>3. /\ phase' \in [User -> Phases]
        /\ \A v \in User : v # u => phase'[v] = phase[v]
        /\ phase[u] = "probed"
    BY <1>3 DEF TryAcquireLease, Phases
  <2>4. phase'[u] # "holding" => ~ok
    BY <1>3 DEF TryAcquireLease
  <2>5. ~ok => lease'[u] = None
    BY <1>3 DEF TryAcquireLease, Reaped
  <2>6. phase'[u] \in {"holding", "refused", "asking"}
    BY <1>3 DEF TryAcquireLease
  <2>7. blind' \in BOOLEAN
    BY <1>3 DEF TryAcquireLease
  <2>8. /\ sample' \in [User -> Sample \cup {None}]
        /\ \A v \in User : v # u => sample'[v] = sample[v]
        /\ UNCHANGED <<wait, resident, process, birthKnown, maxWorkers>>
    BY <1>3 DEF TryAcquireLease
  <2> QED BY <2>1, <2>2, <2>3, <2>4, <2>5, <2>6, <2>7, <2>8
<1>4. ASSUME NEW u \in User, AcquireFails(u) PROVE TypeOK'
  BY <1>4 DEF AcquireFails, Phases
<1>5. ASSUME NEW u \in User, StartWorker(u) \/ FinishWorker(u) PROVE TypeOK'
  BY <1>5 DEF StartWorker, FinishWorker, Phases
<1>6. ASSUME NEW u \in User, RenewLease(u) PROVE TypeOK'
  <2>1. lease' \in [User -> Lease \cup {None}]
    BY <1>6 DEF RenewLease, Lease
  <2> QED BY <1>6, <2>1 DEF RenewLease
<1>7. ASSUME NEW u \in User, ReleaseLease(u) \/ ReleaseFails(u) PROVE TypeOK'
  BY <1>7 DEF ReleaseLease, ReleaseFails, Phases
<1>8. ASSUME NEW u \in User, OrphanEnds(u) PROVE TypeOK'
  BY <1>8 DEF OrphanEnds
<1>9. CASE ReconcileLeases
  BY <1>9, ReapedType DEF ReconcileLeases, Reaped
<1>10. CASE Tick
  <2>1. lease' \in [User -> Lease \cup {None}]
    BY <1>10, AgedType DEF Tick, Aged
  <2>2. wait' \in [User -> 0 .. Wait]
    <3>1. \A w \in 0 .. Wait : Minus(w, 1) \in 0 .. Wait
      BY Numbers DEF Minus
    <3> QED BY <1>10, <3>1 DEF Tick
  <2>3. \A u \in User : lease[u] = None => lease'[u] = None
    BY <1>10 DEF Tick
  <2> QED BY <1>10, <2>1, <2>2, <2>3 DEF Tick
<1>11. ASSUME NEW p \in Proc, Die(p) PROVE TypeOK'
  BY <1>11 DEF Die, Phases
<1>12. ASSUME NEW p \in Proc, PidReused(p) PROVE TypeOK'
  BY <1>12 DEF PidReused
<1>13. CASE UNCHANGED vars
  BY <1>13 DEF vars
<1> QED
  BY <1>1, <1>2, <1>3, <1>4, <1>5, <1>6, <1>7, <1>8, <1>9, <1>10, <1>11, <1>12, <1>13
  DEF Next, Poll
-----------------------------------------------------------------------------
(* Who loses and who gains a lease.                                        *)

\* Where births are known, an entitled worker's lease is live.
LEMMA EntitledIsLive ==
  birthKnown => \A u \in User : Entitled(u) => u \in LiveLeases
  BY DEF Entitled, Holding, Alive, LiveLeases, IsLeaseLive, OwnerGone, OwnerVerified

\* An admission leaves the live leases and, if it is one, the new one.
LEMMA AdmissionKeeps ==
  ASSUME TypeOK, NEW u \in User, TryAcquireLease(u)
  PROVE  /\ \A v \in User : lease'[v] # None => v \in LiveLeases \cup {u}
         /\ \A v \in LiveLeases : v # u => lease'[v] = lease[v]
         /\ \A v \in User : v # u => phase'[v] = phase[v]
         /\ ~Admitted(sample[u], LiveLeases) => lease' = Reaped /\ phase'[u] # "holding"
         /\ UNCHANGED <<process, birthKnown, maxWorkers, resident>>
  BY DEF TryAcquireLease, Reaped, LiveLeases, host, TypeOK

\* A step that is not an admission: nobody becomes entitled, no lease is made.
Losing ==
  /\ \A u \in User : Entitled(u)' => Entitled(u)
  /\ \A u \in User : lease'[u] # None => lease[u] # None
  /\ blind' = blind /\ UNCHANGED host

LEMMA OthersLose ==
  ASSUME TypeOK, [Next]_vars, ~ \E u \in User : TryAcquireLease(u)
  PROVE  Losing
<1> USE DEF Losing, Entitled, Holding, Alive, Owner, host, TypeOK
<1>1. ASSUME NEW u \in User, EnterAcquireSlot(u) \/ Probe(u) \/ AcquireFails(u) PROVE Losing
  BY <1>1 DEF EnterAcquireSlot, Probe, AcquireFails
<1>2. ASSUME NEW u \in User, StartWorker(u) \/ FinishWorker(u) \/ OrphanEnds(u) PROVE Losing
  BY <1>2 DEF StartWorker, FinishWorker, OrphanEnds
<1>3. ASSUME NEW u \in User, RenewLease(u) PROVE Losing
  <2>1. /\ \A v \in User : v # u => lease'[v] = lease[v]
        /\ lease[u] # None /\ lease'[u].age = lease[u].age
    BY <1>3 DEF RenewLease, Lease
  <2> QED BY <1>3, <2>1 DEF RenewLease
<1>4. ASSUME NEW u \in User, ReleaseLease(u) \/ ReleaseFails(u) PROVE Losing
  BY <1>4 DEF ReleaseLease, ReleaseFails
<1>5. CASE ReconcileLeases
  BY <1>5 DEF ReconcileLeases, Reaped
<1>6. CASE Tick
  <2>1. ASSUME NEW u \in User, lease'[u] # None
        PROVE  lease[u] # None /\ lease[u].age \in Int /\ lease'[u].age >= lease[u].age
    <3>1. lease[u] # None /\ lease[u] \in Lease
      BY <1>6, <2>1 DEF Tick
    <3>2. lease[u].age \in Int
      BY <3>1 DEF Lease
    <3>3. lease'[u].age = IF lease[u].age > Lifetime THEN lease[u].age ELSE lease[u].age + 1
      BY <1>6, <3>1 DEF Tick, Lease
    <3> QED BY <3>1, <3>2, <3>3, Numbers
  <2>2. \A u \in User : lease'[u] # None => lease'[u].age \in Int
    <3> SUFFICES ASSUME NEW u \in User, lease'[u] # None PROVE lease'[u].age \in Int
      OBVIOUS
    <3>1. TypeOK'
      BY TypeStep
    <3> QED BY <3>1 DEF Lease
  <2>3. ASSUME NEW u \in User, Entitled(u)' PROVE Entitled(u)
    <3>1. lease'[u] # None /\ lease'[u].age <= Lifetime
      BY <2>3
    <3>2. lease[u].age <= Lifetime
      BY <2>1, <2>2, <3>1, Numbers
    <3> QED BY <1>6, <2>1, <2>3, <3>1, <3>2 DEF Tick
  <2> QED BY <1>6, <2>1, <2>3 DEF Tick
<1>7. ASSUME NEW p \in Proc, Die(p) \/ PidReused(p) PROVE Losing
  <2>1. /\ \A u \in User : process'[ProcOf[u]] = "alive" => process[ProcOf[u]] = "alive"
        /\ \A u \in User : phase'[u] = "holding" => phase[u] = "holding"
        /\ UNCHANGED <<lease, blind, birthKnown, maxWorkers>>
    BY <1>7, GovernorAssumption DEF Die, PidReused
  <2> QED BY <2>1
<1>8. CASE UNCHANGED vars
  BY <1>8 DEF vars
<1> HIDE DEF Losing, Entitled, Holding, Alive, Owner, host, TypeOK
<1> QED BY <1>1, <1>2, <1>3, <1>4, <1>5, <1>6, <1>7, <1>8 DEF Next, Poll

-----------------------------------------------------------------------------
(* The limits. *)

LEMMA CapacityStep ==
  ASSUME TypeOK, CapacityHeld, [Next]_vars PROVE CapacityHeld'
<1>1. /\ Workers \in SUBSET User /\ LiveLeases \in SUBSET User
      /\ maxWorkers \in Nat /\ maxWorkers' = maxWorkers /\ birthKnown' = birthKnown
  <2>1. maxWorkers \in Nat
    BY GovernorAssumption DEF TypeOK
  <2>2. UNCHANGED host
    BY OthersLose DEF Losing, TryAcquireLease
  <2> QED BY <2>1, <2>2 DEF Workers, LiveLeases, host
<1>2. CASE Workers' \subseteq Workers
  BY <1>1, <1>2, Fewer DEF CapacityHeld, Workers
<1>3. ASSUME NEW u \in User, TryAcquireLease(u), ~Admitted(sample[u], LiveLeases)
      PROVE  Workers' \subseteq Workers
  BY <1>3, AdmissionKeeps DEF Workers, Entitled, Holding, Alive, Owner, Reaped
<1>4. ASSUME NEW u \in User, TryAcquireLease(u), Admitted(sample[u], LiveLeases)
      PROVE  CapacityHeld'
  <2>1. Workers' \in SUBSET (LiveLeases \cup {u})
    BY <1>4, AdmissionKeeps DEF Workers, Entitled
  <2>2. Cardinality(LiveLeases) < maxWorkers
    BY <1>4 DEF Admitted
  <2>3. Cardinality(Workers') <= maxWorkers
    BY <1>1, <2>1, <2>2, OneMore
  <2> QED BY <1>1, <2>3 DEF CapacityHeld, Workers
<1>5. ASSUME ~ \E u \in User : TryAcquireLease(u) PROVE Workers' \subseteq Workers
  BY <1>5, OthersLose DEF Losing, Workers
<1> QED BY <1>2, <1>3, <1>4, <1>5

\* An admission with a memory sample found room above the floor for all leases
\* that it left.
LEMMA RoomFound ==
  ASSUME TypeOK, LeasesFit, NEW u \in User, sample[u] \in Sample, sample[u].ram # None,
         Admitted(sample[u], LiveLeases)
  PROVE  Cardinality(LiveLeases) + 1 <= Ram - MinFree
<1>1. sample[u].ram \in 0 .. Ram
  BY DEF TypeOK, Sample
<1>2. PendingRam(LiveLeases) = LiveLeases
  BY DEF PendingRam, LiveLeases, LeasesFit
<1>3. Cardinality(LiveLeases) \in Nat
  BY FiniteCount DEF LiveLeases
<1>4. Minus(Minus(sample[u].ram, Cardinality(LiveLeases)), MinFree) > 0
  BY <1>2 DEF Admitted, RamSlots
<1> QED BY <1>1, <1>3, <1>4, Numbers DEF Minus

LEMMA LeasesStep ==
  ASSUME TypeOK, LeasesFit, [Next]_vars PROVE LeasesFit'
<1>1. ASSUME NEW u \in User, TryAcquireLease(u), Admitted(sample[u], LiveLeases)
      PROVE  LeasesFit'
  <2>1. Leased' \in SUBSET (LiveLeases \cup {u}) /\ LiveLeases \in SUBSET User
    BY <1>1, AdmissionKeeps DEF Leased, LiveLeases
  <2>2. \A v \in User : lease'[v] # None => lease'[v].state = "reserved"
    <3>1. lease'[u].state = "reserved"
      <4>1. lease' = [Reaped EXCEPT ![u] = NewLease]
        BY <1>1 DEF TryAcquireLease
      <4>2. lease'[u] = NewLease
        BY <4>1, ReapedType
      <4> QED BY <4>2 DEF NewLease
    <3> QED BY <1>1, <2>1, <3>1, AdmissionKeeps DEF LeasesFit, LiveLeases
  <2>3. ASSUME ~blind' PROVE Cardinality(Leased') <= Ram - MinFree
    <3>1. sample[u] \in Sample /\ sample[u].ram # None
      BY <1>1, <2>3 DEF TryAcquireLease, TypeOK
    <3> QED BY <1>1, <2>1, <3>1, RoomFound, OneMore, Numbers
  <2> QED BY <2>2, <2>3 DEF LeasesFit, Leased
<1>2. ASSUME Leased' \subseteq Leased, blind => blind',
             \A v \in User : lease'[v] # None => lease'[v].state = "reserved"
      PROVE  LeasesFit'
  <2>1. Leased \in SUBSET User /\ Leased' \in SUBSET Leased
    BY <1>2 DEF Leased
  <2>2. ASSUME ~blind' PROVE Cardinality(Leased') <= Ram - MinFree
    BY <1>2, <2>1, <2>2, Fewer, Numbers DEF LeasesFit, Leased
  <2> QED BY <1>2, <2>2 DEF LeasesFit, Leased
<1>3. ASSUME NEW u \in User, TryAcquireLease(u), ~Admitted(sample[u], LiveLeases)
      PROVE  LeasesFit'
  BY <1>2, <1>3, AdmissionKeeps DEF Leased, Reaped, LeasesFit, TryAcquireLease
<1>4. ASSUME ~ \E u \in User : TryAcquireLease(u) PROVE LeasesFit'
  <2>1. Leased' \subseteq Leased /\ blind' = blind
    BY <1>4, OthersLose DEF Losing, Leased
  <2>2. ASSUME NEW v \in User, lease'[v] # None PROVE lease'[v].state = "reserved"
    <3>1. lease[v] # None /\ lease[v].state = "reserved" /\ lease[v] \in Lease
      BY <2>1, <2>2 DEF LeasesFit, Leased, TypeOK
    <3>2. lease'[v] = lease[v] \/ lease'[v].state = lease[v].state
      <4>1. CASE Tick
        BY <3>1, <4>1 DEF Tick, Lease
      <4>2. ASSUME NEW u \in User, RenewLease(u) PROVE lease'[v].state = lease[v].state
        BY <3>1, <4>2 DEF RenewLease, TypeOK, Lease
      <4>3. ASSUME NEW u \in User, ReleaseLease(u) PROVE lease'[v] = lease[v]
        BY <2>2, <4>3 DEF ReleaseLease, TypeOK
      <4>4. CASE ReconcileLeases
        BY <2>2, <4>4 DEF ReconcileLeases, Reaped
      <4>5. ASSUME lease' = lease PROVE lease'[v] = lease[v]
        BY <4>5
      <4> QED BY <1>4, <4>1, <4>2, <4>3, <4>4, <4>5
              DEF Next, Poll, EnterAcquireSlot, Probe, AcquireFails, StartWorker, FinishWorker,
                  ReleaseFails, OrphanEnds, Die, PidReused, vars
    <3> QED BY <3>1, <3>2
  <2> QED BY <1>2, <2>1, <2>2
<1> QED BY <1>1, <1>3, <1>4

\* What fits in the registry leaves the floor, as long as no worker is outside it.
LEMMA FloorFollows == TypeOK /\ LeasesFit => FloorHeld
<1> SUFFICES ASSUME TypeOK, LeasesFit, ~blind, \A u \in resident : u \in LiveLeases
             PROVE  Avail >= MinFree
  BY DEF FloorHeld
<1>1. resident \in SUBSET Leased /\ Leased \in SUBSET User
  BY DEF LiveLeases, Leased, TypeOK
<1>2. /\ Cardinality(resident) \in Nat /\ Cardinality(Leased) \in Nat
      /\ Cardinality(resident) <= Cardinality(Leased)
  BY <1>1, Fewer
<1>3. Cardinality(Leased) <= Ram - MinFree
  BY DEF LeasesFit, Leased
<1> QED BY <1>2, <1>3, Numbers DEF Avail, Minus

\* The inductive part of the invariant.
Core == TypeOK /\ CapacityHeld /\ LeasesFit

LEMMA CoreInit == Init => Core
<1> SUFFICES ASSUME Init PROVE Core
  OBVIOUS
<1>1. TypeOK
  BY TypeInit
<1>2. CapacityHeld
  <2>1. Workers = {} /\ maxWorkers \in Nat
    BY GovernorAssumption DEF Init, Workers, Entitled, Holding
  <2> QED BY <2>1, FS_EmptySet DEF CapacityHeld, Workers
<1>3. LeasesFit
  <2>1. Leased = {}
    BY DEF Init, Leased
  <2> QED BY <2>1, FS_EmptySet, Numbers DEF Init, LeasesFit, Leased
<1> QED BY <1>1, <1>2, <1>3 DEF Core

LEMMA CoreStep == Core /\ [Next]_vars => Core'
  BY TypeStep, CapacityStep, LeasesStep DEF Core

(* The slots in use never outnumber max_auto_workers, and the workers the  *)
(* registry knows leave the memory floor alone (try_acquire_lease), for    *)
(* any users, limits, memory and times, whoever dies and whatever pid is   *)
(* used again.                                                             *)
THEOREM GovernorInvariance == Spec => []GovernorInv
<1>1. Core => GovernorInv
  BY FloorFollows DEF Core, GovernorInv
<1> QED BY <1>1, CoreInit, CoreStep, PTL DEF Spec

(* The slots in use never outnumber max_auto_workers (evaluate_admission).   *)
THEOREM CapacityIsHeld == Spec => []CapacityHeld
<1>1. GovernorInv => CapacityHeld
  BY DEF GovernorInv
<1> QED BY <1>1, GovernorInvariance, PTL

LEMMA KeepStep ==
  ASSUME TypeOK, [Next]_vars, NEW u \in User, birthKnown, Entitled(u), phase'[u] = "holding"
  PROVE  lease'[u] # None
<1>1. lease[u] # None /\ lease[u] \in Lease /\ u \in LiveLeases /\ phase[u] = "holding"
  BY EntitledIsLive DEF Entitled, Holding, TypeOK
<1>2. ASSUME NEW v \in User, TryAcquireLease(v) PROVE lease'[u] # None
  <2>1. u # v
    BY <1>1, <1>2 DEF TryAcquireLease
  <2> QED BY <1>1, <1>2, <2>1, AdmissionKeeps
<1>3. ASSUME NEW v \in User, RenewLease(v) PROVE lease'[u] # None
  <2>1. lease'[u] \in Lease
    BY <1>1, <1>3, Numbers DEF RenewLease, TypeOK, Lease
  <2> QED BY <2>1, NoneAssumption
<1>4. ASSUME NEW v \in User, ReleaseLease(v) PROVE lease'[u] # None
  <2>1. u # v
    BY <1>1, <1>4 DEF ReleaseLease
  <2> QED BY <1>1, <1>4, <2>1 DEF ReleaseLease, TypeOK
<1>5. CASE ReconcileLeases
  BY <1>1, <1>5 DEF ReconcileLeases, Reaped
<1>6. CASE Tick
  <2>1. lease'[u] \in Lease
    BY <1>1, <1>6, AgedType DEF Tick, Aged
  <2> QED BY <2>1, NoneAssumption
<1>7. ASSUME lease' = lease PROVE lease'[u] # None
  BY <1>1, <1>7
<1> QED BY <1>2, <1>3, <1>4, <1>5, <1>6, <1>7
        DEF Next, Poll, EnterAcquireSlot, Probe, AcquireFails, StartWorker, FinishWorker,
            ReleaseFails, OrphanEnds, Die, PidReused, vars

(* Where births are known, nobody takes the lease of a live process away,  *)
(* however late its renewals are (_is_lease_live).                         *)
THEOREM LiveOwnersKeepLeases == Spec => LiveOwnerKeepsLease
<1>1. TypeOK /\ [Next]_vars
        => [\A u \in User : birthKnown /\ Entitled(u) /\ phase'[u] = "holding"
                              => lease'[u] # None]_vars
  BY KeepStep
<1>2. GovernorInv => TypeOK
  BY DEF GovernorInv
<1> QED BY <1>1, <1>2, GovernorInvariance, PTL DEF Spec, LiveOwnerKeepsLease
===============================================================================

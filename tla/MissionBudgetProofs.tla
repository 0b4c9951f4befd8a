------------------------ MODULE MissionBudgetProofs ------------------------
(***************************************************************************)
(* Proofs about the mission budget, for any attempts, processes, caps and  *)
(* reservations.  The totals are sums over the ledger; the first part      *)
(* proves of sums what the rest needs.                                     *)
(***************************************************************************)
EXTENDS MissionBudget, FiniteSetTheorems, TLAPS

-----------------------------------------------------------------------------
(* Sums.  SumFunction folds over the subsets of a finite set; the theorems  *)
(* of induction cannot be instantiated, so each induction is a set of the   *)
(* cases that hold, and the least case outside it.                          *)

\* What holds of 0, and of the successor of what it holds of, holds of all.
LEMMA NumberInduction ==
    ASSUME NEW G \in SUBSET Nat, 0 \in G, \A n \in G : n + 1 \in G
    PROVE  \A n \in Nat : n \in G
<1> SUFFICES ASSUME Nat \ G # {} PROVE FALSE
  OBVIOUS
<1>1. PICK n \in Nat \ G : \A k \in Nat \ G : ~ (<<k, n>> \in OpToRel(<, Nat))
  <2>1. Nat \ G \subseteq Nat
    OBVIOUS
  <2> QED
    BY <2>1, NatLessThanWellFounded, WFMin
<1>2. \A k \in Nat \ G : ~ (k < n)
  BY <1>1 DEF OpToRel
<1>3. n \in Nat /\ n \notin G /\ n # 0
  BY <1>1
<1>4. n - 1 \in Nat /\ n - 1 < n
  BY <1>3
<1>5. n - 1 \in G
  BY <1>2, <1>4
<1>6. (n - 1) + 1 \in G /\ (n - 1) + 1 = n
  BY <1>3, <1>5
<1> QED
  BY <1>3, <1>6

\* What holds of a subset when it holds of it without any one of its elements
\* holds of all subsets.
LEMMA SubsetInduction ==
    ASSUME NEW D, IsFiniteSet(D), NEW G,
           \A s \in SUBSET D : (\A x \in s : s \ {x} \in G) => s \in G
    PROVE  \A s \in SUBSET D : s \in G
<1> DEFINE T == {s \in SUBSET D : s \notin G}
<1> SUFFICES ASSUME T # {} PROVE FALSE
  OBVIOUS
<1>1. IsWellFoundedOn(StrictSubsetOrdering(D), SUBSET D)
  <2>1. FiniteSubsetsOf(D) = SUBSET D
    BY FS_FiniteSubsetsOfFinite
  <2>2. IsWellFoundedOn(StrictSubsetOrdering(D), FiniteSubsetsOf(D))
    BY FS_StrictSubsetOrderingWellFounded
  <2> QED
    BY <2>1, <2>2
<1>2. T \subseteq SUBSET D
  OBVIOUS
<1> HIDE DEF T
<1>3. PICK s \in T : \A r \in T : ~ (<<r, s>> \in StrictSubsetOrdering(D))
  BY <1>1, <1>2, WFMin
<1>4. s \in SUBSET D /\ s \notin G
  BY <1>3 DEF T
<1>5. ASSUME NEW x \in s PROVE s \ {x} \in G
  <2>1. s \ {x} \in SUBSET D /\ <<s \ {x}, s>> \in StrictSubsetOrdering(D)
    BY <1>4 DEF StrictSubsetOrdering
  <2> QED
    BY <1>3, <2>1 DEF T
<1> QED
  BY <1>4, <1>5

One(s) == CHOOSE x \in s : TRUE

\* The sums of f over the subsets of its domain, as SumFunction computes them.
Sums(f) ==
    CHOOSE sum : sum =
        [s \in SUBSET DOMAIN f |-> IF s = {} THEN 0 ELSE f[One(s)] + sum[s \ {One(s)}]]

LEMMA SumIsSums ==
    ASSUME NEW f
    PROVE  SumFunction(f) = Sums(f)[DOMAIN f]
BY DEF SumFunction, SumFunctionOnSet, FoldFunctionOnSet, MapThenFoldSet, Sums, One

\* The sums exist, and are natural numbers.
LEMMA SumsExist ==
    ASSUME NEW D, IsFiniteSet(D), NEW f \in [D -> Nat]
    PROVE  \A s \in SUBSET D :
              /\ Sums(f)[s] \in Nat
              /\ Sums(f)[s] = IF s = {} THEN 0 ELSE f[One(s)] + Sums(f)[s \ {One(s)}]
<1> DEFINE Add(g, s) == IF s = {} THEN 0 ELSE f[One(s)] + g[s \ {One(s)}]
           G == {n \in Nat : \E g \in [SUBSET D -> Nat] :
                    \A s \in SUBSET D : Cardinality(s) <= n => g[s] = Add(g, s)}
<1>0. \A s \in SUBSET D : s # {} =>
         /\ One(s) \in s /\ f[One(s)] \in Nat
         /\ s \ {One(s)} \in SUBSET D
  BY DEF One
<1>1. \A s \in SUBSET D : /\ IsFiniteSet(s)
                          /\ Cardinality(s) \in Nat
                          /\ Cardinality(s) <= Cardinality(D)
                          /\ Cardinality(s) = 0 => s = {}
  BY FS_Subset, FS_CardinalityType, FS_EmptySet
<1>2. \A s \in SUBSET D : s # {} => Cardinality(s \ {One(s)}) = Cardinality(s) - 1
  BY <1>0, <1>1, FS_RemoveElement
<1>3. 0 \in G
  <2> DEFINE g == [s \in SUBSET D |-> 0]
  <2>1. g \in [SUBSET D -> Nat]
    OBVIOUS
  <2>2. \A s \in SUBSET D : Cardinality(s) <= 0 => g[s] = Add(g, s)
    BY <1>1
  <2> QED
    BY <2>1, <2>2
<1>4. ASSUME NEW n \in G PROVE n + 1 \in G
  <2>1. PICK g \in [SUBSET D -> Nat] :
           \A s \in SUBSET D : Cardinality(s) <= n => g[s] = Add(g, s)
    OBVIOUS
  <2> DEFINE h == [s \in SUBSET D |-> IF Cardinality(s) <= n THEN g[s] ELSE Add(g, s)]
  <2>2. \A s \in SUBSET D : Add(g, s) \in Nat
    BY <1>0
  <2>3. h \in [SUBSET D -> Nat]
    BY <2>2
  <2>4. ASSUME NEW s \in SUBSET D, Cardinality(s) <= n + 1 PROVE h[s] = Add(h, s)
    <3>1. h[s] = Add(g, s)
      BY <2>1
    <3>2. CASE s = {}
      BY <3>1, <3>2
    <3>3. CASE s # {}
      <4>1. Cardinality(s \ {One(s)}) <= n /\ s \ {One(s)} \in SUBSET D
        BY <1>0, <1>1, <1>2, <2>4, <3>3
      <4>2. h[s \ {One(s)}] = g[s \ {One(s)}]
        BY <4>1
      <4> HIDE DEF h
      <4> QED
        BY <3>1, <3>3, <4>2
    <3> QED
      BY <3>2, <3>3
  <2>5. n + 1 \in Nat
    OBVIOUS
  <2> HIDE DEF h
  <2>6. \E k \in [SUBSET D -> Nat] :
           \A s \in SUBSET D : Cardinality(s) <= n + 1 => k[s] = Add(k, s)
    BY <2>3, <2>4
  <2> QED
    BY <2>5, <2>6
<1>5. Cardinality(D) \in G
  <2>1. Cardinality(D) \in Nat
    BY FS_CardinalityType
  <2> HIDE DEF G
  <2>2. G \in SUBSET Nat
    BY DEF G
  <2> QED
    BY <1>3, <1>4, <2>1, <2>2, NumberInduction
<1>6. PICK g \in [SUBSET D -> Nat] : \A s \in SUBSET D : g[s] = Add(g, s)
  BY <1>1, <1>5
<1>7. DOMAIN f = D
  OBVIOUS
<1>8. g = [s \in SUBSET DOMAIN f |-> IF s = {} THEN 0 ELSE f[One(s)] + g[s \ {One(s)}]]
  BY <1>6, <1>7
<1>9. Sums(f) = [s \in SUBSET D |-> IF s = {} THEN 0 ELSE f[One(s)] + Sums(f)[s \ {One(s)}]]
  BY <1>7, <1>8 DEF Sums
<1>10. \A s \in SUBSET D :
          Sums(f)[s] = IF s = {} THEN 0 ELSE f[One(s)] + Sums(f)[s \ {One(s)}]
  BY <1>9
<1> DEFINE N == {s \in SUBSET D : Sums(f)[s] \in Nat}
<1>11. \A s \in SUBSET D : (\A x \in s : s \ {x} \in N) => s \in N
  <2> SUFFICES ASSUME NEW s \in SUBSET D, \A x \in s : s \ {x} \in N
               PROVE  Sums(f)[s] \in Nat
    OBVIOUS
  <2>1. CASE s = {}
    BY <1>10, <2>1
  <2>2. CASE s # {}
    <3>1. Sums(f)[s \ {One(s)}] \in Nat /\ f[One(s)] \in Nat
      BY <1>0, <2>2
    <3>2. Sums(f)[s] = f[One(s)] + Sums(f)[s \ {One(s)}]
      BY <1>10, <2>2
    <3> QED
      BY <3>1, <3>2
  <2> QED
    BY <2>1, <2>2
<1>12. \A s \in SUBSET D : s \in N
  <2> HIDE DEF N
  <2> QED
    BY <1>11, SubsetInduction
<1> QED
  BY <1>10, <1>12

\* The elements may be added in any order.
LEMMA SumsAnyOrder ==
    ASSUME NEW D, IsFiniteSet(D), NEW f \in [D -> Nat]
    PROVE  \A s \in SUBSET D : \A x \in s : Sums(f)[s] = f[x] + Sums(f)[s \ {x}]
<1> DEFINE G == {s \in SUBSET D : \A x \in s : Sums(f)[s] = f[x] + Sums(f)[s \ {x}]}
<1>1. ASSUME NEW s \in SUBSET D, \A x \in s : s \ {x} \in G, NEW x \in s
      PROVE  Sums(f)[s] = f[x] + Sums(f)[s \ {x}]
  <2> DEFINE c == One(s)
             r == (s \ {x}) \ {c}
  <2>0. c \in s
    BY DEF One
  <2>1. c \in s /\ Sums(f)[s] = f[c] + Sums(f)[s \ {c}]
    BY <2>0, SumsExist
  <2>2. CASE x = c
    BY <2>1, <2>2
  <2>3. CASE x # c
    <3>1. Sums(f)[s \ {c}] = f[x] + Sums(f)[(s \ {c}) \ {x}]
      BY <1>1, <2>1, <2>3
    <3>2. Sums(f)[s \ {x}] = f[c] + Sums(f)[r]
      BY <1>1, <2>1, <2>3
    <3>3. (s \ {c}) \ {x} = r
      OBVIOUS
    <3>4. r \in SUBSET D /\ x \in D /\ c \in D
      BY <2>1
    <3> HIDE DEF c, r
    <3>5. Sums(f)[r] \in Nat /\ f[x] \in Nat /\ f[c] \in Nat
      BY <3>4, SumsExist
    <3>6. Sums(f)[s] = f[c] + (f[x] + Sums(f)[r])
      BY <2>1, <3>1, <3>3
    <3> QED
      BY <3>2, <3>5, <3>6
  <2> QED
    BY <2>2, <2>3
<1>2. \A s \in SUBSET D : (\A x \in s : s \ {x} \in G) => s \in G
  BY <1>1
<1>3. \A s \in SUBSET D : s \in G
  <2> HIDE DEF G
  <2> QED
    BY <1>2, SubsetInduction
<1> QED
  BY <1>3

\* A sum of zeros is zero.
LEMMA NothingIsZero ==
    ASSUME NEW D, IsFiniteSet(D), NEW f \in [D -> Nat], \A x \in D : f[x] = 0
    PROVE  Sums(f)[D] = 0
<1> DEFINE G == {s \in SUBSET D : Sums(f)[s] = 0}
<1>1. ASSUME NEW s \in SUBSET D, \A x \in s : s \ {x} \in G PROVE Sums(f)[s] = 0
  <2>1. CASE s = {}
    BY <2>1, SumsExist
  <2>2. CASE s # {}
    <3>1. PICK x : x \in s
      BY <2>2
    <3>2. Sums(f)[s] = f[x] + Sums(f)[s \ {x}]
      BY <3>1, SumsAnyOrder
    <3> QED
      BY <1>1, <3>1, <3>2
  <2> QED
    BY <2>1, <2>2
<1>2. \A s \in SUBSET D : (\A x \in s : s \ {x} \in G) => s \in G
  BY <1>1
<1> HIDE DEF G
<1>3. \A s \in SUBSET D : s \in G
  BY <1>2, SubsetInduction
<1> QED
  BY <1>3 DEF G

\* A sum is no larger than one that has, for each of its terms, a term of its own
\* that is no smaller.
LEMMA SumsMapped ==
    ASSUME NEW D, IsFiniteSet(D), NEW f \in [D -> Nat],
           NEW E, IsFiniteSet(E), NEW g \in [E -> Nat],
           NEW t \in [D -> E], \A x, y \in D : t[x] = t[y] => x = y,
           NEW s0 \in SUBSET D, \A x \in s0 : f[x] <= g[t[x]]
    PROVE  Sums(f)[s0] <= Sums(g)[E]
<1> DEFINE G == {s \in SUBSET s0 : \A u \in SUBSET E :
                   (\A x \in s : t[x] \in u) => Sums(f)[s] <= Sums(g)[u]}
<1>0. IsFiniteSet(s0)
  BY FS_Subset
<1>1. ASSUME NEW s \in SUBSET s0, \A x \in s : s \ {x} \in G,
             NEW u \in SUBSET E, \A x \in s : t[x] \in u
      PROVE  Sums(f)[s] <= Sums(g)[u]
  <2>1. CASE s = {}
    <3>1. Sums(f)[s] = 0
      BY <2>1, SumsExist
    <3>2. Sums(g)[u] \in Nat
      BY SumsExist
    <3> QED
      BY <3>1, <3>2
  <2>2. CASE s # {}
    <3>1. PICK x : x \in s
      BY <2>2
    <3>2. Sums(f)[s] = f[x] + Sums(f)[s \ {x}] /\ Sums(g)[u] = g[t[x]] + Sums(g)[u \ {t[x]}]
      BY <1>1, <3>1, SumsAnyOrder
    <3>3. \A y \in s \ {x} : t[y] \in u \ {t[x]}
      BY <1>1, <3>1
    <3>4. Sums(f)[s \ {x}] <= Sums(g)[u \ {t[x]}]
      BY <1>1, <3>1, <3>3
    <3>5. /\ Sums(f)[s \ {x}] \in Nat /\ Sums(g)[u \ {t[x]}] \in Nat
          /\ f[x] \in Nat /\ g[t[x]] \in Nat /\ f[x] <= g[t[x]]
      BY <3>1, SumsExist
    <3> QED
      BY <3>2, <3>4, <3>5
  <2> QED
    BY <2>1, <2>2
<1>2. \A s \in SUBSET s0 : (\A x \in s : s \ {x} \in G) => s \in G
  BY <1>1
<1>3. s0 \in G
  <2> HIDE DEF G
  <2> QED
    BY <1>0, <1>2, SubsetInduction
<1> QED
  BY <1>3

-----------------------------------------------------------------------------
(* The records of the ledger. *)

\* Reaping changes the status and the reservation of records, nothing else, and
\* those of a living owner not at all.
LEMMA ReapedRecordFacts ==
    ASSUME NEW r \in Records
    PROVE  /\ ReapedRecord(r) \in Records
           /\ ReapedRecord(r).work = r.work
           /\ ReapedRecord(r).established = r.established
           /\ ReapedRecord(r).unknown = r.unknown
           /\ r.owner \in alive => ReapedRecord(r) = r
           /\ r.status # "in_flight" => ReapedRecord(r) = r
BY DEF ReapedRecord, Records, Statuses

\* What every operation of the ledger does to it when it stores rec.
LEMMA StoreFacts ==
    ASSUME NEW rec \in [Ids -> Records], unknownSpend \in BOOLEAN, Store(rec)
    PROVE  /\ record' \in [Ids -> Records]
           /\ unknownSpend' \in BOOLEAN
           /\ unknownSpend => unknownSpend'
           /\ \A i \in Ids :
                 /\ record'[i].work = rec[i].work
                 /\ record'[i].established = rec[i].established
                 /\ record'[i].unknown = rec[i].unknown
                 /\ rec[i].unknown => unknownSpend'
                 /\ rec[i].owner \in alive => record'[i] = rec[i]
<1>1. record' = [i \in Ids |-> ReapedRecord(rec[i])]
  BY DEF Store, Reaped
<1>2. unknownSpend' = (unknownSpend \/ \E i \in Ids : ReapedRecord(rec[i]).unknown)
  BY DEF Store, Reaped, SpendUnknown
<1>3. \A i \in Ids : rec[i] \in Records
  OBVIOUS
<1>4. \A i \in Ids : /\ record'[i] = ReapedRecord(rec[i])
                     /\ record'[i] \in Records
                     /\ record'[i].work = rec[i].work
                     /\ record'[i].established = rec[i].established
                     /\ record'[i].unknown = rec[i].unknown
                     /\ rec[i].owner \in alive => record'[i] = rec[i]
  BY <1>1, <1>3, ReapedRecordFacts
<1> QED
  BY <1>1, <1>2, <1>4

\* An observation keeps a record's type, what it established and its hold.
LEMMA ObservedFacts ==
    ASSUME NEW r \in Records, NEW total \in 0..MaxUse \cup {NoTotal}
    PROVE  /\ Observed(r, total) \in Records
           /\ r.established => Observed(r, total).established
           /\ total # NoTotal => Observed(r, total).established
           /\ total = NoTotal => Observed(r, total) = r
           /\ Observed(r, total).reserved = r.reserved
           /\ Observed(r, total).owner = r.owner
BY AmountsAssumption DEF Observed, Records, Greater, Statuses

\* A settled record is established or marked unknown, unless the provider was
\* certainly not contacted.
LEMMA SettledRecordFacts ==
    ASSUME NEW r \in Records, NEW total \in 0..MaxUse \cup {NoTotal},
           NEW contacted \in {"yes", "no", "unknown"}
    PROVE  /\ SettledRecord(r, total, contacted) \in Records
           /\ r.established => SettledRecord(r, total, contacted).established
           /\ contacted # "no" =>
                 \/ SettledRecord(r, total, contacted).established
                 \/ SettledRecord(r, total, contacted).unknown
           /\ total = NoTotal =>
                 SettledRecord(r, total, contacted).established = r.established
<1> DEFINE o == Observed(r, total)
<1>1. o \in Records /\ (r.established => o.established) /\ (total = NoTotal => o = r)
  BY ObservedFacts
<1>2. SettledRecord(r, total, contacted) =
        [o EXCEPT !.status = "settled", !.reserved = 0,
                  !.unknown = contacted # "no" /\ ~o.established]
  BY DEF SettledRecord, LeavesUnknown
<1> HIDE DEF o
<1> DEFINE s == [o EXCEPT !.status = "settled", !.reserved = 0,
                          !.unknown = contacted # "no" /\ ~o.established]
<1>3. s \in Records
  BY <1>1 DEF Records, Statuses
<1>4. s.established = o.established
  BY <1>1 DEF Records
<1>5. s.unknown = (contacted # "no" /\ ~o.established)
  BY <1>1 DEF Records
<1> HIDE DEF s
<1>6. SettledRecord(r, total, contacted) = s
  BY <1>2 DEF s
<1> QED
  BY <1>1, <1>3, <1>4, <1>5, <1>6

-----------------------------------------------------------------------------
(* The invariant. *)

LEMMA BudgetInit == Init => BudgetInv
<1> SUFFICES ASSUME Init PROVE BudgetInv
  OBVIOUS
<1> USE DEF Init
<1>1. NoRecord \in Records /\ ~NoRecord.established
  BY AmountsAssumption DEF NoRecord, Records, Statuses
<1>2. TypeOK
  <2>1. record \in [Ids -> Records]
    BY <1>1
  <2>2. stage \in [Attempts -> Stages]
    BY DEF Stages
  <2>3. /\ used \in [Attempts -> 0..MaxUse] /\ granted \in [Attempts -> Nat]
        /\ allowance \in Nat /\ deaths \in 0..MaxDeaths
    BY AmountsAssumption
  <2> QED
    BY <2>1, <2>2, <2>3 DEF TypeOK
<1>3. \A a \in Attempts : used[a] = 0 /\ stage[a] = "new" /\ ~record[a].established
  BY <1>1, AttemptsAssumption
<1> QED
  BY <1>2, <1>3 DEF BudgetInv, SettledSpendShows

\* What a settlement of key i does to the ledger, beside giving back its hold.
LEMMA SettleAttemptFacts ==
    ASSUME TypeOK, NEW i \in Ids, NEW total \in 0..MaxUse \cup {NoTotal},
           NEW contacted \in {"yes", "no", "unknown"},
           SettleAttempt(i, total, contacted)
    PROVE  /\ record' \in [Ids -> Records]
           /\ unknownSpend' \in BOOLEAN
           /\ unknownSpend => unknownSpend'
           /\ \A j \in Ids : record[j].established => record'[j].established
           /\ \A j \in Ids : j # i => record'[j].established = record[j].established
           /\ total = NoTotal => record'[i].established = record[i].established
           /\ contacted # "no" => unknownSpend' \/ record'[i].established
           /\ \A j \in Ids : j # i /\ record[j].owner \in alive => record'[j] = record[j]
           /\ cap' = cap /\ forced' = forced
<1> DEFINE s == SettledRecord(record[i], total, contacted)
           rec == [record EXCEPT ![i] = s]
<1>1. record \in [Ids -> Records] /\ record[i] \in Records /\ unknownSpend \in BOOLEAN
  BY DEF TypeOK
<1>2. /\ s \in Records
      /\ record[i].established => s.established
      /\ contacted # "no" => s.established \/ s.unknown
      /\ total = NoTotal => s.established = record[i].established
  BY <1>1, SettledRecordFacts
<1>3. Store(rec) /\ cap' = cap /\ forced' = forced
  BY DEF SettleAttempt
<1> HIDE DEF s
<1>4. rec \in [Ids -> Records] /\ rec[i] = s /\ \A j \in Ids : j # i => rec[j] = record[j]
  BY <1>1, <1>2
<1> HIDE DEF rec
<1>5. /\ record' \in [Ids -> Records]
      /\ unknownSpend' \in BOOLEAN
      /\ unknownSpend => unknownSpend'
      /\ \A j \in Ids : /\ record'[j].established = rec[j].established
                        /\ rec[j].unknown => unknownSpend'
                        /\ rec[j].owner \in alive => record'[j] = rec[j]
  <2>1. Store(rec) /\ rec \in [Ids -> Records] /\ unknownSpend \in BOOLEAN
    BY <1>1, <1>3, <1>4
  <2> HIDE <1>3, <1>4
  <2> QED
    BY <2>1, StoreFacts
<1>6. \A j \in Ids : j # i => /\ record'[j].established = record[j].established
                              /\ record[j].owner \in alive => record'[j] = record[j]
  BY <1>4, <1>5
<1>7. record'[i].established = s.established
  BY <1>4, <1>5
<1>8. contacted # "no" => unknownSpend' \/ record'[i].established
  BY <1>2, <1>4, <1>5, <1>7
<1>9. \A j \in Ids : record[j].established => record'[j].established
  BY <1>2, <1>6, <1>7
<1> QED
  BY <1>2, <1>3, <1>5, <1>6, <1>7, <1>8, <1>9

\* What an operation does to the ledger that stores it as it was read.
LEMMA RestoreFacts ==
    ASSUME TypeOK, Store(record)
    PROVE  /\ record' \in [Ids -> Records]
           /\ unknownSpend' \in BOOLEAN
           /\ unknownSpend => unknownSpend'
           /\ \A j \in Ids : /\ record'[j].established = record[j].established
                             /\ record[j].owner \in alive => record'[j] = record[j]
BY StoreFacts DEF TypeOK

\* What an admission does to the ledger.
LEMMA AdmitFacts ==
    ASSUME TypeOK, NEW p \in Processes, NEW a \in Attempts,
           NEW c \in Caps \cup {NoCap}, NEW n \in Reserves, Admit(p, a, c, n)
    PROVE  /\ record' \in [Ids -> Records]
           /\ unknownSpend' \in BOOLEAN
           /\ unknownSpend => unknownSpend'
           /\ ~record'[a].established
           /\ \A j \in Ids \ {a} :
                 /\ record'[j].work = record[j].work
                 /\ record'[j].established = record[j].established
                 /\ record[j].owner \in alive => record'[j] = record[j]
<1> DEFINE m == IF Tightened(c) = NoCap THEN 0 ELSE n
           r == [NoRecord EXCEPT !.status = "in_flight", !.owner = p, !.reserved = m]
           rec == [record EXCEPT ![a] = r]
<1>0. m \in Nat
  BY AmountsAssumption
<1>1. record \in [Ids -> Records] /\ unknownSpend \in BOOLEAN /\ a \in Ids
  BY AttemptsAssumption DEF TypeOK
<1>3. Store(rec)
  BY DEF Admit
<1> HIDE DEF m
<1>a. NoRecord \in Records /\ ~NoRecord.established
  BY AmountsAssumption DEF NoRecord, Records, Statuses
<1>2. r \in Records /\ ~r.established
  BY <1>0, <1>a DEF Records, Statuses
<1> HIDE DEF r
<1>4. rec \in [Ids -> Records] /\ rec[a] = r /\ \A j \in Ids \ {a} : rec[j] = record[j]
  BY <1>1, <1>2
<1> HIDE DEF rec
<1> QED
  BY <1>1, <1>2, <1>3, <1>4, StoreFacts

\* What a heartbeat does to the ledger.
LEMMA HeartbeatFacts ==
    ASSUME TypeOK, NEW q \in Processes, NEW a \in Attempts,
           NEW total \in 0..MaxUse \cup {NoTotal}, HeartbeatUsage(q, a, total)
    PROVE  /\ record' \in [Ids -> Records]
           /\ unknownSpend' \in BOOLEAN
           /\ unknownSpend => unknownSpend'
           /\ \A j \in Ids : record[j].established => record'[j].established
           /\ \A j \in Ids \ {a} : record'[j].established = record[j].established
           /\ \A j \in Ids :
                 record[j].owner \in alive => record'[j].reserved = record[j].reserved
<1> DEFINE r == Observed(record[a], total)
           rec == [record EXCEPT ![a] = r]
<1>1. record \in [Ids -> Records] /\ unknownSpend \in BOOLEAN /\ a \in Ids
      /\ record[a] \in Records
  BY AttemptsAssumption DEF TypeOK
<1>2. /\ r \in Records /\ (record[a].established => r.established)
      /\ r.reserved = record[a].reserved /\ r.owner = record[a].owner
  BY <1>1, ObservedFacts
<1>3. Store(rec)
  BY DEF HeartbeatUsage
<1> HIDE DEF r
<1>4. rec \in [Ids -> Records] /\ rec[a] = r /\ \A j \in Ids \ {a} : rec[j] = record[j]
  BY <1>1, <1>2
<1> HIDE DEF rec
<1> QED
  BY <1>1, <1>2, <1>3, <1>4, StoreFacts

\* Every step preserves the invariant.
LEMMA BudgetStep == BudgetInv /\ [Next]_vars => BudgetInv'
<1> SUFFICES ASSUME BudgetInv, [Next]_vars PROVE BudgetInv'
  OBVIOUS
<1>0. /\ TypeOK /\ SettledSpendShows
      /\ \A a \in Attempts : stage[a] \in {"new", "held", "spawned", "refused"} => used[a] = 0
      /\ \A a \in Attempts : Physical[a] # a => ~record[a].established
  BY DEF BudgetInv
<1>a. \A a \in Attempts : a \in Ids /\ Physical[a] \in Ids
  BY AttemptsAssumption
<1>b. \A a, b \in Attempts : Physical[a] = Physical[b] \/ Physical[a] = b => a = b
  BY AttemptsAssumption
<1>1. ASSUME NEW c \in Caps \cup {NoCap}, Configure(c) PROVE BudgetInv'
  <2>1. Store(record) /\ cap' = Tightened(c)
        /\ UNCHANGED <<forced, alive, stage, runner, history, deaths>>
    BY <1>1 DEF Configure
  <2>2. cap' \in Caps \cup {NoCap}
    BY <1>0, <2>1 DEF Tightened, TypeOK
  <2>3. TypeOK'
    BY <1>0, <2>1, <2>2, RestoreFacts DEF TypeOK, history
  <2> QED
    BY <1>0, <1>a, <2>1, <2>3, RestoreFacts DEF BudgetInv, SettledSpendShows, history
<1>2. ASSUME NEW p \in Processes, NEW a \in Attempts, NEW c \in Caps \cup {NoCap},
             NEW n \in Reserves, Admit(p, a, c, n)
      PROVE  BudgetInv'
  <2>1. /\ stage[a] = "new" /\ stage' = [stage EXCEPT ![a] = "held"]
        /\ cap' = Tightened(c)
        /\ granted' = [granted EXCEPT ![a] = IF Tightened(c) = NoCap THEN 0 ELSE n]
        /\ allowance' = IF Tightened(c) = NoCap THEN allowance ELSE Tightened(c)
        /\ UNCHANGED <<forced, alive, runner, used, orphans, deaths>>
    BY <1>2 DEF Admit
  <2>2. cap' \in Caps \cup {NoCap} /\ granted' \in [Attempts -> Nat] /\ allowance' \in Nat
    BY <1>0, <2>1, AmountsAssumption DEF Tightened, TypeOK
  <2>3. stage' \in [Attempts -> Stages]
    BY <1>0, <2>1 DEF TypeOK, Stages
  <2>4. TypeOK'
    BY <1>0, <1>2, <2>1, <2>2, <2>3, AdmitFacts DEF TypeOK
  <2>5. /\ unknownSpend => unknownSpend'
        /\ ~record'[a].established
        /\ \A j \in Ids \ {a} : record'[j].established = record[j].established
    BY <1>0, <1>2, AdmitFacts
  <2>6. \A b \in Attempts : /\ used'[b] = used[b]
                            /\ b = a => stage[b] = "new" /\ stage'[b] = "held"
                            /\ b # a => stage'[b] = stage[b]
    BY <1>0, <2>1 DEF TypeOK
  <2>7. \A b \in Attempts : stage'[b] \in {"new", "held", "spawned", "refused"} => used'[b] = 0
    BY <1>0, <2>6
  <2>8. \A b \in Attempts : Physical[b] # b => ~record'[b].established
    BY <1>0, <1>a, <2>5
  <2>9. SettledSpendShows'
    <3>1. ASSUME NEW b \in Attempts, stage'[b] \in {"superseding", "ended"}, used'[b] > 0
          PROVE  unknownSpend' \/ record'[Physical[b]].established
      <4>1. b # a /\ stage[b] \in {"superseding", "ended"} /\ used[b] > 0
        BY <2>6, <3>1
      <4>2. unknownSpend \/ record[Physical[b]].established
        BY <1>0, <4>1 DEF SettledSpendShows
      <4>3. Physical[b] \in Ids /\ Physical[b] # a
        BY <1>a, <1>b, <4>1
      <4> QED
        BY <2>5, <4>2, <4>3
    <3> QED
      BY <3>1 DEF SettledSpendShows
  <2> QED
    BY <2>4, <2>7, <2>8, <2>9 DEF BudgetInv
<1>3. ASSUME NEW p \in Processes, NEW a \in Attempts, NEW c \in Caps \cup {NoCap},
             NEW n \in Reserves, Refuse(p, a, c, n)
      PROVE  BudgetInv'
  <2>1. /\ stage[a] = "new" /\ stage' = [stage EXCEPT ![a] = "refused"]
        /\ cap' = Tightened(c) /\ Store(record)
        /\ UNCHANGED <<forced, alive, runner, history, deaths>>
    BY <1>3 DEF Refuse
  <2>2. cap' \in Caps \cup {NoCap}
    BY <1>0, <2>1 DEF Tightened, TypeOK
  <2>3. stage' \in [Attempts -> Stages]
    BY <1>0, <2>1 DEF TypeOK, Stages
  <2>4. TypeOK'
    BY <1>0, <2>1, <2>2, <2>3, RestoreFacts DEF TypeOK, history
  <2> QED
    BY <1>0, <1>a, <2>1, <2>4, RestoreFacts DEF BudgetInv, SettledSpendShows, history, TypeOK
<1>4. ASSUME NEW p \in Processes, NEW a \in Attempts, Launch(p, a) PROVE BudgetInv'
  <2>1. /\ stage[a] = "held" /\ stage' = [stage EXCEPT ![a] = "running"]
        /\ runner' = [runner EXCEPT ![a] = p]
        /\ UNCHANGED <<ledger, alive, history, deaths>>
    BY <1>4 DEF Launch
  <2>2. TypeOK'
    BY <1>0, <2>1 DEF TypeOK, Stages, ledger, history
  <2> QED
    BY <1>0, <2>1, <2>2 DEF BudgetInv, SettledSpendShows, TypeOK, ledger, history
<1>5. ASSUME NEW p \in Processes, NEW q \in Processes, NEW a \in Attempts, Spawn(p, q, a)
      PROVE  BudgetInv'
  <2>1. /\ stage[a] = "held" /\ stage' = [stage EXCEPT ![a] = "spawned"]
        /\ runner' = [runner EXCEPT ![a] = q]
        /\ UNCHANGED <<ledger, alive, history, deaths>>
    BY <1>5 DEF Spawn
  <2>2. TypeOK'
    BY <1>0, <2>1 DEF TypeOK, Stages, ledger, history
  <2> QED
    BY <1>0, <2>1, <2>2 DEF BudgetInv, SettledSpendShows, TypeOK, ledger, history
<1>6. ASSUME NEW q \in Processes, NEW a \in Attempts, NEW c \in Caps \cup {NoCap},
             Recheck(q, a, c)
      PROVE  BudgetInv'
  <2>1. stage[a] = "spawned" /\ UNCHANGED <<forced, alive, runner, history, deaths>>
    BY <1>6 DEF Recheck
  <2>2. CASE /\ cap' = Tightened(c) /\ Store(record)
             /\ stage' = [stage EXCEPT ![a] = "refused"]
    <3>1. cap' \in Caps \cup {NoCap}
      BY <1>0, <2>2 DEF Tightened, TypeOK
    <3>2. stage' \in [Attempts -> Stages]
      BY <1>0, <2>2 DEF TypeOK, Stages
    <3>3. TypeOK'
      BY <1>0, <2>1, <2>2, <3>1, <3>2, RestoreFacts DEF TypeOK, history
    <3> QED
      BY <1>0, <1>a, <2>1, <2>2, <3>3, RestoreFacts
      DEF BudgetInv, SettledSpendShows, history, TypeOK
  <2>3. CASE /\ stage' = [stage EXCEPT ![a] = "running"]
             /\ UNCHANGED <<cap, record, unknownSpend>>
    <3>1. TypeOK'
      BY <1>0, <2>1, <2>3 DEF TypeOK, Stages, history
    <3> QED
      BY <1>0, <2>1, <2>3, <3>1 DEF BudgetInv, SettledSpendShows, TypeOK, history
  <2> QED
    BY <1>6, <2>2, <2>3 DEF Recheck
<1>7. ASSUME NEW p \in Processes, NEW a \in Attempts, Abort(p, a) PROVE BudgetInv'
  <2>1. /\ stage[a] = "held" /\ stage' = [stage EXCEPT ![a] = "ended"]
        /\ SettleAttempt(a, NoTotal, "no")
        /\ UNCHANGED <<alive, runner, history, deaths>>
    BY <1>7 DEF Abort
  <2>2. /\ record' \in [Ids -> Records] /\ unknownSpend' \in BOOLEAN
        /\ unknownSpend => unknownSpend'
        /\ \A j \in Ids : record'[j].established = record[j].established
        /\ cap' = cap /\ forced' = forced
    BY <1>0, <1>a, <2>1, SettleAttemptFacts
  <2>3. stage' \in [Attempts -> Stages]
    BY <1>0, <2>1 DEF TypeOK, Stages
  <2>4. TypeOK'
    BY <1>0, <2>1, <2>2, <2>3 DEF TypeOK, history
  <2> QED
    BY <1>0, <1>a, <2>1, <2>2, <2>4 DEF BudgetInv, SettledSpendShows, TypeOK, history
<1>8. ASSUME NEW a \in Attempts, UseTokens(a) PROVE BudgetInv'
  <2>1. /\ stage[a] = "running" /\ used[a] < MaxUse /\ used' = [used EXCEPT ![a] = @ + 1]
        /\ UNCHANGED <<ledger, alive, stage, runner, granted, allowance, orphans, deaths>>
    BY <1>8 DEF UseTokens
  <2>2. TypeOK'
    BY <1>0, <2>1, AmountsAssumption DEF TypeOK, ledger
  <2> QED
    BY <1>0, <2>1, <2>2 DEF BudgetInv, SettledSpendShows, TypeOK, ledger
<1>9. ASSUME NEW q \in Processes, NEW a \in Attempts, NEW total \in 0..MaxUse \cup {NoTotal},
             HeartbeatUsage(q, a, total)
      PROVE  BudgetInv'
  <2>1. /\ Physical[a] = a
        /\ UNCHANGED <<cap, forced, alive, stage, runner, history, deaths>>
    BY <1>9 DEF HeartbeatUsage
  <2>2. TypeOK'
    BY <1>0, <1>9, <2>1, HeartbeatFacts DEF TypeOK, history
  <2> QED
    BY <1>0, <1>9, <1>a, <2>1, <2>2, HeartbeatFacts DEF BudgetInv, SettledSpendShows, history
<1>10. ASSUME NEW q \in Processes, NEW a \in Attempts, NEW total \in 0..MaxUse \cup {NoTotal},
              NEW contacted \in {"yes", "no", "unknown"}, Settle(q, a, total, contacted)
       PROVE  BudgetInv'
  <2>1. /\ stage[a] = "running"
        /\ stage' = [stage EXCEPT ![a] = IF Physical[a] = a THEN "ended" ELSE "superseding"]
        /\ contacted = "no" => used[a] = 0
        /\ SettleAttempt(Physical[a], total, contacted)
        /\ UNCHANGED <<alive, runner, history, deaths>>
    BY <1>10 DEF Settle
  <2>2. /\ record' \in [Ids -> Records] /\ unknownSpend' \in BOOLEAN
        /\ unknownSpend => unknownSpend'
        /\ \A j \in Ids : record[j].established => record'[j].established
        /\ \A j \in Ids : j # Physical[a] => record'[j].established = record[j].established
        /\ contacted # "no" => unknownSpend' \/ record'[Physical[a]].established
        /\ cap' = cap /\ forced' = forced
    BY <1>0, <1>a, <2>1, SettleAttemptFacts
  <2>3. stage' \in [Attempts -> Stages]
    BY <1>0, <2>1 DEF TypeOK, Stages
  <2>4. TypeOK'
    BY <1>0, <2>1, <2>2, <2>3 DEF TypeOK, history
  <2>5. SettledSpendShows'
    BY <1>0, <1>a, <2>1, <2>2 DEF SettledSpendShows, TypeOK, history
  <2>6. \A b \in Attempts : Physical[b] # b => ~record'[b].established
    BY <1>0, <1>a, <1>b, <2>2
  <2>7. \A b \in Attempts : stage'[b] \in {"new", "held", "spawned", "refused"} => used'[b] = 0
    BY <1>0, <2>1 DEF TypeOK, history
  <2> QED
    BY <2>4, <2>5, <2>6, <2>7 DEF BudgetInv
<1>11. ASSUME NEW a \in Attempts, stage[a] = "superseding", SettleAttempt(a, NoTotal, "no"),
              stage' = [stage EXCEPT ![a] = "ended"],
              UNCHANGED <<alive, runner, history, deaths>>
       PROVE  BudgetInv'
  <2>2. /\ record' \in [Ids -> Records] /\ unknownSpend' \in BOOLEAN
        /\ unknownSpend => unknownSpend'
        /\ \A j \in Ids : record'[j].established = record[j].established
        /\ cap' = cap /\ forced' = forced
    BY <1>0, <1>a, <1>11, SettleAttemptFacts
  <2>3. stage' \in [Attempts -> Stages]
    BY <1>0, <1>11 DEF TypeOK, Stages
  <2>4. TypeOK'
    BY <1>0, <1>11, <2>2, <2>3 DEF TypeOK, history
  <2> QED
    BY <1>0, <1>a, <1>11, <2>2, <2>4 DEF BudgetInv, SettledSpendShows, TypeOK, history
<1>12. ASSUME NEW p \in Processes, NEW a \in Attempts, PoolSettles(p, a) PROVE BudgetInv'
  <2>1. /\ SettleAttempt(a, NoTotal, "unknown")
        /\ stage[a] \in {"spawned", "running", "superseding"}
        /\ stage' = [stage EXCEPT ![a] = "ended"]
        /\ UNCHANGED <<alive, runner, history, deaths>>
    BY <1>12 DEF PoolSettles
  <2>2. /\ record' \in [Ids -> Records] /\ unknownSpend' \in BOOLEAN
        /\ unknownSpend => unknownSpend'
        /\ \A j \in Ids : record'[j].established = record[j].established
        /\ unknownSpend' \/ record'[a].established
        /\ cap' = cap /\ forced' = forced
    BY <1>0, <1>a, <2>1, SettleAttemptFacts
  <2>3. stage' \in [Attempts -> Stages]
    BY <1>0, <2>1 DEF TypeOK, Stages
  <2>4. TypeOK'
    BY <1>0, <2>1, <2>2, <2>3 DEF TypeOK, history
  <2>5. SettledSpendShows'
    <3>1. ASSUME NEW b \in Attempts, stage'[b] \in {"superseding", "ended"}, used'[b] > 0
          PROVE  unknownSpend' \/ record'[Physical[b]].established
      <4>1. CASE b # a
        BY <1>0, <1>a, <2>1, <2>2, <3>1, <4>1 DEF SettledSpendShows, TypeOK, history
      <4>2. CASE b = a /\ Physical[a] = a
        BY <2>2, <4>2
      <4>3. CASE b = a /\ Physical[a] # a
        BY <1>0, <1>a, <2>2, <4>3
      <4> QED
        BY <4>1, <4>2, <4>3
    <3> QED
      BY <3>1 DEF SettledSpendShows
  <2> QED
    BY <1>0, <1>a, <2>1, <2>2, <2>4, <2>5 DEF BudgetInv, TypeOK, history
<1>13. ASSUME NEW killed \in SUBSET Processes, CancelMission(killed) PROVE BudgetInv'
  <2>1. /\ record' = [i \in Ids |->
                        IF record[i].status = "in_flight"
                        THEN [record[i] EXCEPT !.status = "cancelled", !.reserved = 0]
                        ELSE record[i]]
        /\ forced' = TRUE
        /\ alive' = alive \ killed
        /\ orphans' = orphans \cup Orphaned(alive \cap killed)
        /\ UNCHANGED <<cap, unknownSpend, stage, runner, used, granted, allowance, deaths>>
    BY <1>13 DEF CancelMission
  <2>2. \A i \in Ids : record[i] \in Records
    BY <1>0 DEF TypeOK
  <2>3. \A i \in Ids : record'[i] \in Records /\ record'[i].established = record[i].established
    BY <2>1, <2>2 DEF Records, Statuses
  <2>4. record' \in [Ids -> Records]
    BY <2>1, <2>3
  <2>5. TypeOK'
    BY <1>0, <2>1, <2>4 DEF TypeOK, Orphaned
  <2> QED
    BY <1>0, <1>a, <2>1, <2>3, <2>5 DEF BudgetInv, SettledSpendShows
<1>14. ASSUME NEW p \in Processes, Exit(p) \/ Die(p) PROVE BudgetInv'
  <2>1. /\ alive' = alive \ {p} /\ orphans' = orphans \cup Orphaned({p})
        /\ UNCHANGED <<ledger, stage, runner, used, granted, allowance>>
    BY <1>14 DEF Exit, Die
  <2>2. deaths' \in 0..MaxDeaths
    <3>1. CASE Exit(p)
      BY <1>0, <3>1 DEF Exit, TypeOK
    <3>2. CASE Die(p)
      BY <1>0, <3>2, AmountsAssumption DEF Die, TypeOK
    <3> QED
      BY <1>14, <3>1, <3>2
  <2>3. TypeOK'
    BY <1>0, <2>1, <2>2 DEF TypeOK, Orphaned, ledger
  <2> QED
    BY <1>0, <2>1, <2>3 DEF BudgetInv, SettledSpendShows, ledger
<1>15. CASE UNCHANGED vars
  BY <1>0, <1>15 DEF BudgetInv, TypeOK, SettledSpendShows, vars, ledger, history
<1> QED
  BY <1>1, <1>2, <1>3, <1>4, <1>5, <1>6, <1>7, <1>8, <1>9, <1>10, <1>11, <1>12, <1>13, <1>14,
     <1>15 DEF Next, ReserveLaunch, Supersede

-----------------------------------------------------------------------------
(* The theorems. *)

\* The inductive invariant holds of every behaviour: whatever attempts, processes,
\* keys, caps and reservations there are.
THEOREM BudgetInvariance == Spec => []BudgetInv
BY BudgetInit, BudgetStep, PTL DEF Spec

\* The ledger keeps its types; no record holds more work than an attempt can use,
\* however often and in whatever order totals are reported and settled.
THEOREM BudgetTypeCorrect == Spec => []TypeOK
<1>1. BudgetInv => TypeOK
  BY DEF BudgetInv
<1> QED
  BY <1>1, BudgetInvariance, PTL

\* The settlements of _mission_budget.py never lose the spend of an attempt: what
\* was settled after tokens were used is in the ledger, or marked unknown for good.
THEOREM SettledSpendIsShown == Spec => []SettledSpendShows
<1>1. BudgetInv => SettledSpendShows
  BY DEF BudgetInv
<1> QED
  BY <1>1, BudgetInvariance, PTL

\* The reservation of a living owner is given back by nothing but the settlement of
\* that attempt or a cancellation: no operation on another attempt disturbs it.
THEOREM HoldsStand == Spec => HoldStands
<1> DEFINE A == \A a \in Attempts :
                  /\ record[a].status = "in_flight" /\ record[a].owner \in alive
                  /\ record'[a].reserved # record[a].reserved
                  => forced' \/ stage'[a] # stage[a]
<1>1. ASSUME TypeOK, [Next]_vars PROVE [A]_vars
  <2> SUFFICES ASSUME NEW b \in Attempts,
                      record[b].owner \in alive,
                      record'[b].reserved # record[b].reserved
               PROVE  forced' \/ stage'[b] # stage[b]
    OBVIOUS
  <2>0. /\ \A a \in Attempts : a \in Ids /\ Physical[a] \in Ids
        /\ \A a, c \in Attempts : Physical[a] = c => a = c
    BY AttemptsAssumption
  <2>1. record' # record
    OBVIOUS
  <2>2. stage \in [Attempts -> Stages]
    BY <1>1 DEF TypeOK
  <2>3. ~Store(record)
    BY <1>1, <2>0, RestoreFacts
  <2>4. ASSUME NEW p \in Processes, NEW a \in Attempts, NEW c \in Caps \cup {NoCap},
               NEW n \in Reserves, Admit(p, a, c, n)
        PROVE  stage'[b] # stage[b]
    <3>1. stage[a] = "new" /\ stage' = [stage EXCEPT ![a] = "held"]
      BY <2>4 DEF Admit
    <3>2. \A j \in Ids \ {a} : record[j].owner \in alive => record'[j] = record[j]
      BY <1>1, <2>4, AdmitFacts
    <3>3. b = a
      BY <2>0, <3>2
    <3> QED
      BY <2>2, <3>1, <3>3
  <2>5. ASSUME NEW a \in Attempts, NEW contacted \in {"yes", "no", "unknown"},
               SettleAttempt(a, NoTotal, contacted),
               stage[a] # "ended", stage' = [stage EXCEPT ![a] = "ended"]
        PROVE  stage'[b] # stage[b]
    <3>1. a \in Ids /\ NoTotal \in 0..MaxUse \cup {NoTotal}
      BY <2>0
    <3>2. \A j \in Ids : j # a /\ record[j].owner \in alive => record'[j] = record[j]
      BY <1>1, <2>5, <3>1, SettleAttemptFacts
    <3>3. b = a
      BY <2>0, <3>2
    <3> QED
      BY <2>2, <2>5, <3>3
  <2>6. ASSUME NEW p \in Processes, NEW a \in Attempts, Abort(p, a)
        PROVE  stage'[b] # stage[b]
    BY <2>0, <2>5, <2>6 DEF Abort
  <2>7. ASSUME NEW q \in Processes, NEW a \in Attempts,
               NEW total \in 0..MaxUse \cup {NoTotal},
               NEW contacted \in {"yes", "no", "unknown"}, Settle(q, a, total, contacted)
        PROVE  stage'[b] # stage[b]
    <3>1. SettleAttempt(Physical[a], total, contacted) /\ Physical[a] \in Ids
      BY <2>0, <2>7 DEF Settle
    <3>2. \A j \in Ids : j # Physical[a] /\ record[j].owner \in alive => record'[j] = record[j]
      BY <1>1, <3>1, SettleAttemptFacts
    <3>3. b = a
      BY <2>0, <3>2
    <3>4. /\ stage[a] = "running"
          /\ stage' = [stage EXCEPT ![a] = IF Physical[a] = a THEN "ended" ELSE "superseding"]
      BY <2>7 DEF Settle
    <3> QED
      BY <2>2, <3>3, <3>4
  <2>8. ASSUME NEW q \in Processes, NEW a \in Attempts, Supersede(q, a)
        PROVE  stage'[b] # stage[b]
    BY <2>0, <2>5, <2>8 DEF Supersede
  <2>9. ASSUME NEW p \in Processes, NEW a \in Attempts, PoolSettles(p, a)
        PROVE  stage'[b] # stage[b]
    BY <2>0, <2>5, <2>9 DEF PoolSettles
  <2>10. ASSUME NEW q \in Processes, NEW a \in Attempts,
                NEW total \in 0..MaxUse \cup {NoTotal}, HeartbeatUsage(q, a, total)
         PROVE  FALSE
    BY <1>1, <2>0, <2>10, HeartbeatFacts
  <2>11. ASSUME NEW killed \in SUBSET Processes, CancelMission(killed) PROVE forced'
    BY <2>11 DEF CancelMission
  <2>12. ASSUME NEW p \in Processes, NEW a \in Attempts, NEW q \in Processes,
                Launch(p, a) \/ Spawn(p, q, a)
         PROVE  FALSE
    BY <2>1, <2>12 DEF Launch, Spawn, ledger
  <2>13. ASSUME NEW c \in Caps \cup {NoCap}, Configure(c) PROVE FALSE
    BY <2>3, <2>13 DEF Configure
  <2>14. ASSUME NEW p \in Processes, NEW a \in Attempts, NEW c \in Caps \cup {NoCap},
                NEW n \in Reserves, Refuse(p, a, c, n)
         PROVE  FALSE
    BY <2>3, <2>14 DEF Refuse
  <2>15. ASSUME NEW p \in Processes, NEW a \in Attempts, NEW c \in Caps \cup {NoCap},
                Recheck(p, a, c)
         PROVE  FALSE
    BY <2>1, <2>3, <2>15 DEF Recheck
  <2>16. CASE UNCHANGED vars
    BY <2>1, <2>16 DEF vars, ledger
  <2>17. ASSUME NEW p \in Processes, NEW a \in Attempts, ReserveLaunch(p, a)
         PROVE  stage'[b] # stage[b]
    BY <2>4, <2>14, <2>17 DEF ReserveLaunch
  <2> DEFINE Goal == forced' \/ stage'[b] # stage[b]
  <2>18. ASSUME NEW p \in Processes, NEW a \in Attempts,
                \/ ReserveLaunch(p, a)
                \/ Launch(p, a)
                \/ \E q \in Processes : Spawn(p, q, a)
                \/ \E c \in Caps \cup {NoCap} : Recheck(p, a, c)
                \/ Abort(p, a)
                \/ \E total \in 0..MaxUse \cup {NoTotal} : HeartbeatUsage(p, a, total)
                \/ \E total \in 0..MaxUse \cup {NoTotal}, contacted \in {"yes", "no", "unknown"} :
                      Settle(p, a, total, contacted)
                \/ Supersede(p, a)
                \/ PoolSettles(p, a)
         PROVE  Goal
    BY <2>6, <2>7, <2>8, <2>9, <2>10, <2>12, <2>15, <2>17, <2>18
  <2>19. CASE \E a \in Attempts : UseTokens(a)
    BY <2>1, <2>19 DEF UseTokens, ledger
  <2>20. CASE \E p \in Processes : Exit(p) \/ Die(p)
    BY <2>1, <2>20 DEF Exit, Die, ledger
  <2>21. CASE \E c \in Caps \cup {NoCap} : Configure(c)
    BY <2>13, <2>21
  <2>22. CASE \E killed \in SUBSET Processes : CancelMission(killed)
    BY <2>11, <2>22
  <2> HIDE DEF Goal
  <2>23. Goal
    BY <1>1, <2>16, <2>18, <2>19, <2>20, <2>21, <2>22 DEF Next, Goal
  <2> QED
    BY <2>23 DEF Goal
<1>2. TypeOK /\ [Next]_vars => [A]_vars
  BY <1>1
<1> QED
  BY <1>2, BudgetTypeCorrect, PTL DEF Spec, HoldStands

-----------------------------------------------------------------------------
(* Nothing is booked twice, and what is exhausted stays so. *)

\* The reservation of an attempt under way, whose reserving process lives, is in
\* the ledger; an attempt not yet admitted was granted nothing.
Backed ==
    \A a \in Attempts :
        /\ stage[a] = "new" => granted[a] = 0
        /\ ~forced /\ stage[a] \in Unfinished /\ a \notin orphans =>
              /\ record[a].status = "in_flight"
              /\ record[a].owner \in alive
              /\ record[a].reserved = granted[a]

\* A mark in a record is a mark in the ledger.
MarksKept == \A i \in Ids : record[i].unknown => unknownSpend

\* The steps, by what they do to the ledger: they leave it alone,
LedgerKept ==
    /\ UNCHANGED <<ledger, granted, allowance>>
    /\ \/ UNCHANGED stage
       \/ \E a \in Attempts, s \in Unfinished :
             stage[a] \in Unfinished /\ stage' = [stage EXCEPT ![a] = s]
    /\ \/ UNCHANGED <<alive, orphans>>
       \/ \E p \in Processes :
             alive' = alive \ {p} /\ orphans' = orphans \cup Orphaned({p})

\* store it as it is, with a cap,
Restored(c) ==
    /\ Store(record) /\ cap' = Tightened(c)
    /\ UNCHANGED <<forced, alive, orphans, granted, allowance>>
    /\ \/ UNCHANGED stage
       \/ \E a \in Attempts :
             stage[a] \in {"new", "spawned"} /\ stage' = [stage EXCEPT ![a] = "refused"]

\* or store a record r of attempt a under key i.
Entered(a, i, r) ==
    /\ stage[a] \in Unfinished
    /\ Store([record EXCEPT ![i] = r])
    /\ r \in Records /\ r.work >= record[i].work
    /\ i = a \/ i = Physical[a]
    /\ UNCHANGED <<cap, forced, alive, orphans, granted, allowance>>
    /\ \/ /\ UNCHANGED stage /\ i = a
          /\ r.status = record[a].status /\ r.owner = record[a].owner
          /\ r.reserved = record[a].reserved
       \/ i # a /\ stage' = [stage EXCEPT ![a] = "superseding"]
       \/ stage' = [stage EXCEPT ![a] = "ended"]

\* Work is never taken out of a record.
LEMMA SettledWork ==
    ASSUME NEW r \in Records, NEW total \in 0..MaxUse \cup {NoTotal},
           NEW contacted \in {"yes", "no", "unknown"}
    PROVE  /\ Observed(r, total).work >= r.work
           /\ Observed(r, total).status = r.status
           /\ SettledRecord(r, total, contacted).work >= r.work
<1>1. Observed(r, total).work >= r.work /\ Observed(r, total).status = r.status
  BY AmountsAssumption DEF Observed, Records, Greater
<1>2. Observed(r, total) \in Records
  BY ObservedFacts
<1>3. SettledRecord(r, total, contacted).work = Observed(r, total).work
  BY <1>2 DEF SettledRecord, Records
<1> QED
  BY <1>1, <1>3

\* Every step is one of these, an admission or a cancellation.
LEMMA LedgerCases ==
    ASSUME TypeOK, [Next]_vars
    PROVE  \/ LedgerKept
           \/ \E c \in Caps \cup {NoCap} : Restored(c)
           \/ \E a \in Attempts, i \in Ids, r \in Records : Entered(a, i, r)
           \/ \E p \in Processes, a \in Attempts, c \in Caps \cup {NoCap}, n \in Reserves :
                 Admit(p, a, c, n)
           \/ \E killed \in SUBSET Processes : CancelMission(killed)
<1> USE DEF ledger, history
<1> DEFINE Goal == \/ LedgerKept
                   \/ \E c \in Caps \cup {NoCap} : Restored(c)
                   \/ \E a \in Attempts, i \in Ids, r \in Records : Entered(a, i, r)
                   \/ \E p \in Processes, a \in Attempts, c \in Caps \cup {NoCap},
                         n \in Reserves : Admit(p, a, c, n)
                   \/ \E killed \in SUBSET Processes : CancelMission(killed)
<1>a. \A a \in Attempts : a \in Ids /\ Physical[a] \in Ids
  BY AttemptsAssumption
<1>b. record \in [Ids -> Records] /\ \A i \in Ids : record[i] \in Records
  BY DEF TypeOK
<1>c. "superseding" \in Unfinished /\ "running" \in Unfinished /\ "held" \in Unfinished
      /\ "spawned" \in Unfinished
  BY DEF Unfinished
<1>1. ASSUME NEW c \in Caps \cup {NoCap}, Configure(c) PROVE Goal
  <2>1. Restored(c)
    BY <1>1 DEF Configure, Restored
  <2> QED
    BY <2>1
<1>2. ASSUME NEW p \in Processes, NEW a \in Attempts, ReserveLaunch(p, a) PROVE Goal
  <2>1. PICK c \in Caps \cup {NoCap}, n \in Reserves : Admit(p, a, c, n) \/ Refuse(p, a, c, n)
    BY <1>2 DEF ReserveLaunch
  <2>2. CASE Refuse(p, a, c, n)
    <3>1. Restored(c)
      BY <2>2 DEF Refuse, Restored
    <3> QED
      BY <3>1
  <2> QED
    BY <2>1, <2>2
<1>3. ASSUME NEW p \in Processes, NEW a \in Attempts, Launch(p, a) PROVE Goal
  <2>1. LedgerKept
    BY <1>c, <1>3 DEF Launch, LedgerKept
  <2> QED
    BY <2>1
<1>4. ASSUME NEW p \in Processes, NEW a \in Attempts, NEW q \in Processes, Spawn(p, q, a)
      PROVE  Goal
  <2>1. LedgerKept
    BY <1>c, <1>4 DEF Spawn, LedgerKept
  <2> QED
    BY <2>1
<1>5. ASSUME NEW p \in Processes, NEW a \in Attempts, NEW c \in Caps \cup {NoCap},
             Recheck(p, a, c)
      PROVE  Goal
  <2>1. LedgerKept \/ Restored(c)
    BY <1>c, <1>5 DEF Recheck, LedgerKept, Restored
  <2> QED
    BY <2>1
<1>6. ASSUME NEW a \in Attempts, NEW i \in Ids, NEW total \in 0..MaxUse \cup {NoTotal},
             NEW contacted \in {"yes", "no", "unknown"},
             SettleAttempt(i, total, contacted), stage[a] \in Unfinished,
             i = a \/ i = Physical[a],
             \/ i # a /\ stage' = [stage EXCEPT ![a] = "superseding"]
             \/ stage' = [stage EXCEPT ![a] = "ended"],
             UNCHANGED <<alive, history>>
      PROVE  Goal
  <2>1. Entered(a, i, SettledRecord(record[i], total, contacted))
    BY <1>b, <1>6, SettledRecordFacts, SettledWork DEF SettleAttempt, Entered
  <2>2. SettledRecord(record[i], total, contacted) \in Records
    BY <1>b, SettledRecordFacts
  <2> QED
    BY <2>1, <2>2
<1>7. ASSUME NEW p \in Processes, NEW a \in Attempts, Abort(p, a) PROVE Goal
  BY <1>a, <1>c, <1>6, <1>7 DEF Abort
<1>8. ASSUME NEW p \in Processes, NEW a \in Attempts,
             NEW total \in 0..MaxUse \cup {NoTotal}, HeartbeatUsage(p, a, total)
      PROVE  Goal
  <2>1. Observed(record[a], total) \in Records
    BY <1>a, <1>b, ObservedFacts
  <2>2. Store([record EXCEPT ![a] = Observed(record[a], total)])
        /\ stage[a] = "running" /\ UNCHANGED <<cap, forced, alive, stage, history>>
    BY <1>8 DEF HeartbeatUsage
  <2>3. Entered(a, a, Observed(record[a], total))
    BY <1>a, <1>b, <1>c, <2>1, <2>2, ObservedFacts, SettledWork DEF Entered
  <2> QED
    BY <1>a, <2>1, <2>3
<1>9. ASSUME NEW p \in Processes, NEW a \in Attempts, NEW total \in 0..MaxUse \cup {NoTotal},
             NEW contacted \in {"yes", "no", "unknown"}, Settle(p, a, total, contacted)
      PROVE  Goal
  BY <1>a, <1>c, <1>6, <1>9 DEF Settle
<1>10. ASSUME NEW p \in Processes, NEW a \in Attempts, Supersede(p, a) PROVE Goal
  BY <1>a, <1>c, <1>6, <1>10 DEF Supersede
<1>11. ASSUME NEW p \in Processes, NEW a \in Attempts, PoolSettles(p, a) PROVE Goal
  BY <1>a, <1>c, <1>6, <1>11 DEF PoolSettles
<1>12. ASSUME NEW p \in Processes, Exit(p) \/ Die(p) PROVE Goal
  BY <1>12 DEF Exit, Die, LedgerKept
<1>13. CASE \E a \in Attempts : UseTokens(a)
  BY <1>13 DEF UseTokens, LedgerKept
<1>14. CASE UNCHANGED vars
  BY <1>14 DEF vars, LedgerKept
<1> HIDE DEF Goal
<1>15. Goal
  BY <1>1, <1>2, <1>3, <1>4, <1>5, <1>7, <1>8, <1>9, <1>10, <1>11, <1>12, <1>13, <1>14
  DEF Next, Goal
<1> QED
  BY <1>15 DEF Goal

\* The reservations stay backed, and the marks kept.
LEMMA BackedStep ==
    ASSUME TypeOK, Backed, MarksKept, [Next]_vars
    PROVE  Backed' /\ MarksKept'
<1> DEFINE B(a) == /\ stage[a] = "new" => granted[a] = 0
                   /\ ~forced /\ stage[a] \in Unfinished /\ a \notin orphans =>
                         /\ record[a].status = "in_flight"
                         /\ record[a].owner \in alive
                         /\ record[a].reserved = granted[a]
<1>a. /\ \A a \in Attempts : a \in Ids /\ Physical[a] \in Ids
      /\ \A a, b \in Attempts : Physical[a] = b => a = b
  BY AttemptsAssumption
<1>b. /\ record \in [Ids -> Records] /\ \A i \in Ids : record[i] \in Records
      /\ stage \in [Attempts -> Stages] /\ granted \in [Attempts -> Nat]
      /\ unknownSpend \in BOOLEAN
  BY DEF TypeOK
<1>c. /\ "new" \notin Unfinished /\ "ended" \notin Unfinished /\ "refused" \notin Unfinished
      /\ "superseding" # "new"
  BY DEF Unfinished
<1>d. \A a \in Attempts : B(a)
  BY DEF Backed
<1>1. CASE LedgerKept
  <2>1. MarksKept'
    BY <1>1 DEF LedgerKept, ledger, MarksKept
  <2>2. ASSUME NEW a \in Attempts PROVE B(a)'
    <3>1. /\ UNCHANGED <<record, forced, granted>>
          /\ stage'[a] \in Unfinished => stage[a] \in Unfinished
          /\ stage'[a] = "new" => stage[a] = "new"
      BY <1>1, <1>b, <1>c DEF LedgerKept, ledger
    <3>2. CASE UNCHANGED <<alive, orphans>>
      BY <1>d, <3>1, <3>2
    <3>3. ASSUME NEW p \in Processes,
                 alive' = alive \ {p}, orphans' = orphans \cup Orphaned({p})
          PROVE  B(a)'
      BY <1>d, <3>1, <3>3 DEF Orphaned
    <3> QED
      BY <1>1, <3>2, <3>3 DEF LedgerKept
  <2> QED
    BY <2>1, <2>2 DEF Backed
<1>2. ASSUME NEW c \in Caps \cup {NoCap}, Restored(c) PROVE Backed' /\ MarksKept'
  <2>1. \A i \in Ids : /\ record'[i].unknown => unknownSpend'
                       /\ record[i].owner \in alive => record'[i] = record[i]
    BY <1>2, <1>b, StoreFacts DEF Restored
  <2>2. ASSUME NEW a \in Attempts PROVE B(a)'
    <3>1. /\ UNCHANGED <<forced, alive, orphans, granted>>
          /\ stage'[a] \in Unfinished => stage[a] \in Unfinished
          /\ stage'[a] = "new" => stage[a] = "new"
      BY <1>2, <1>b, <1>c DEF Restored
    <3> QED
      BY <1>a, <1>d, <2>1, <3>1
  <2> QED
    BY <2>1, <2>2 DEF Backed, MarksKept
<1>3. ASSUME NEW b \in Attempts, NEW i \in Ids, NEW r \in Records, Entered(b, i, r)
      PROVE  Backed' /\ MarksKept'
  <2> DEFINE rec == [record EXCEPT ![i] = r]
  <2>1. rec \in [Ids -> Records] /\ rec[i] = r /\ \A j \in Ids \ {i} : rec[j] = record[j]
    BY <1>b
  <2>2. Store(rec)
    BY <1>3 DEF Entered
  <2>3. /\ UNCHANGED <<forced, alive, orphans, granted>>
        /\ stage[b] \in Unfinished
        /\ i = b \/ i = Physical[b]
    BY <1>3 DEF Entered
  <2>4. \/ /\ UNCHANGED stage /\ i = b
           /\ r.status = record[b].status /\ r.owner = record[b].owner
           /\ r.reserved = record[b].reserved
        \/ i # b /\ stage' = [stage EXCEPT ![b] = "superseding"]
        \/ stage' = [stage EXCEPT ![b] = "ended"]
    BY <1>3 DEF Entered
  <2> HIDE DEF rec
  <2>5. \A j \in Ids : /\ record'[j].unknown => unknownSpend'
                       /\ rec[j].owner \in alive => record'[j] = rec[j]
    BY <1>b, <2>1, <2>2, StoreFacts
  <2>6. ASSUME NEW a \in Attempts PROVE B(a)'
    <3>1. /\ stage'[a] \in Unfinished => stage[a] \in Unfinished
          /\ stage'[a] = "new" => stage[a] = "new"
      BY <1>b, <1>c, <2>3, <2>4
    <3>2. CASE a # b
      <4>1. rec[a] = record[a]
        BY <1>a, <2>1, <2>3, <3>2
      <4> QED
        BY <1>a, <1>d, <2>3, <2>5, <3>1, <4>1
    <3>3. CASE a = b
      <4>1. CASE /\ i = a /\ r.status = record[a].status /\ r.owner = record[a].owner
                 /\ r.reserved = record[a].reserved
        BY <1>a, <1>d, <2>1, <2>3, <2>5, <3>1, <4>1
      <4>2. CASE i # a
        BY <1>a, <1>d, <2>1, <2>3, <2>5, <3>1, <4>2
      <4>3. CASE stage' = [stage EXCEPT ![a] = "ended"]
        BY <1>b, <1>c, <4>3
      <4> QED
        BY <2>4, <3>3, <4>1, <4>2, <4>3
    <3> QED
      BY <3>2, <3>3
  <2> QED
    BY <2>5, <2>6 DEF Backed, MarksKept
<1>4. ASSUME NEW p \in Processes, NEW b \in Attempts, NEW c \in Caps \cup {NoCap},
             NEW n \in Reserves, Admit(p, b, c, n)
      PROVE  Backed' /\ MarksKept'
  <2> DEFINE m == IF Tightened(c) = NoCap THEN 0 ELSE n
             r == [NoRecord EXCEPT !.status = "in_flight", !.owner = p, !.reserved = m]
             rec == [record EXCEPT ![b] = r]
  <2>1. /\ p \in alive /\ Store(rec)
        /\ stage' = [stage EXCEPT ![b] = "held"] /\ granted' = [granted EXCEPT ![b] = m]
        /\ UNCHANGED <<forced, alive, orphans>>
    BY <1>4 DEF Admit
  <2>2. m \in Nat
    BY AmountsAssumption
  <2> HIDE DEF m
  <2>a. NoRecord \in Records
    BY AmountsAssumption DEF NoRecord, Records, Statuses
  <2>3. /\ r \in Records
        /\ r.status = "in_flight" /\ r.owner = p /\ r.reserved = m
    BY <2>2, <2>a DEF Records, Statuses
  <2> HIDE DEF r
  <2>4. rec \in [Ids -> Records] /\ rec[b] = r /\ \A j \in Ids \ {b} : rec[j] = record[j]
    BY <1>a, <1>b, <2>3
  <2> HIDE DEF rec
  <2>5. \A j \in Ids : /\ record'[j].unknown => unknownSpend'
                       /\ rec[j].owner \in alive => record'[j] = rec[j]
    BY <1>b, <2>1, <2>4, StoreFacts
  <2>6. ASSUME NEW a \in Attempts PROVE B(a)'
    <3>1. CASE a # b
      <4>1. stage'[a] = stage[a] /\ granted'[a] = granted[a] /\ rec[a] = record[a]
        BY <1>a, <1>b, <2>1, <2>4, <3>1
      <4> QED
        BY <1>a, <1>d, <2>1, <2>5, <4>1
    <3>2. CASE a = b
      <4>1. stage'[a] = "held" /\ granted'[a] = m
        BY <1>b, <2>1, <3>2
      <4>2. record'[a] = r
        BY <1>a, <2>1, <2>3, <2>4, <2>5, <3>2
      <4> QED
        BY <2>1, <2>3, <4>1, <4>2
    <3> QED
      BY <3>1, <3>2
  <2> QED
    BY <2>5, <2>6 DEF Backed, MarksKept
<1>5. ASSUME NEW killed \in SUBSET Processes, CancelMission(killed)
      PROVE  Backed' /\ MarksKept'
  <2>1. /\ forced' /\ UNCHANGED <<stage, granted, unknownSpend>>
        /\ record' = [i \in Ids |->
                        IF record[i].status = "in_flight"
                        THEN [record[i] EXCEPT !.status = "cancelled", !.reserved = 0]
                        ELSE record[i]]
    BY <1>5 DEF CancelMission
  <2>2. \A i \in Ids : record'[i].unknown = record[i].unknown
    BY <1>b, <2>1 DEF Records
  <2> QED
    BY <1>d, <2>1, <2>2 DEF Backed, MarksKept
<1> QED
  BY <1>1, <1>2, <1>3, <1>4, <1>5, LedgerCases

\* What an attempt takes up, and what a record is charged with, are numbers.
LEMMA AmountsAreNat ==
    TypeOK => /\ \A a \in Attempts : TakenUp(a) \in Nat
              /\ \A i \in Ids : record[i].work \in Nat
              /\ IsFiniteSet(Attempts)
<1> SUFFICES ASSUME TypeOK
             PROVE  /\ \A a \in Attempts : TakenUp(a) \in Nat
                    /\ \A i \in Ids : record[i].work \in Nat
                    /\ IsFiniteSet(Attempts)
  OBVIOUS
<1>1. \A i \in Ids : record[i].work \in Nat
  BY AmountsAssumption DEF TypeOK, Records
<1>2. \A a \in Attempts : granted[a] \in Nat /\ Physical[a] \in Ids
  BY AttemptsAssumption DEF TypeOK
<1>3. \A a \in Attempts : TakenUp(a) \in Nat
  BY <1>1, <1>2 DEF TakenUp, Smaller
<1>4. IsFiniteSet(Attempts)
  BY IdsAssumption, AttemptsAssumption, FS_Subset
<1> QED
  BY <1>1, <1>3, <1>4

\* A sum over fewer terms, none of them larger, is no larger.
LEMMA SumsBelow ==
    ASSUME NEW E, IsFiniteSet(E), NEW g \in [E -> Nat],
           NEW D \in SUBSET E, NEW f \in [D -> Nat], \A x \in D : f[x] <= g[x]
    PROVE  /\ SumFunction(f) \in Nat /\ SumFunction(g) \in Nat
           /\ SumFunction(f) <= SumFunction(g)
<1> DEFINE t == [x \in D |-> x]
<1>1. IsFiniteSet(D)
  BY FS_Subset
<1>2. t \in [D -> E] /\ (\A x, y \in D : t[x] = t[y] => x = y) /\ \A x \in D : f[x] <= g[t[x]]
  OBVIOUS
<1> HIDE DEF t
<1>3. Sums(f)[D] <= Sums(g)[E]
  BY <1>1, <1>2, SumsMapped
<1>4. Sums(f)[D] \in Nat /\ Sums(g)[E] \in Nat
  BY <1>1, SumsExist
<1>5. SumFunction(f) = Sums(f)[D] /\ SumFunction(g) = Sums(g)[E]
  <2>1. DOMAIN f = D /\ DOMAIN g = E
    OBVIOUS
  <2>2. SumFunction(f) = Sums(f)[DOMAIN f] /\ SumFunction(g) = Sums(g)[DOMAIN g]
    BY SumIsSums
  <2> QED
    BY <2>1, <2>2
<1> QED
  BY <1>3, <1>4, <1>5

\* When no attempt takes up more than before, no more is taken up.
LEMMA NoMoreTaken ==
    ASSUME TypeOK, TypeOK', NoOverbooking, orphans \subseteq orphans', allowance' = allowance,
           \A a \in Attempts : TakenUp(a)' <= TakenUp(a)
    PROVE  NoOverbooking'
<1> DEFINE S == Attempts \ orphans
           S2 == Attempts \ orphans'
           f == [a \in S2 |-> TakenUp(a)']
           g == [a \in S |-> TakenUp(a)]
<1>a. \A a \in Attempts : TakenUp(a) \in Nat
  BY AmountsAreNat
<1>b. (\A a \in Attempts : TakenUp(a) \in Nat)'
  BY AmountsAreNat, PTL
<1>1. \A a \in Attempts : TakenUp(a) \in Nat /\ TakenUp(a)' \in Nat
  BY <1>a, <1>b
<1>2. IsFiniteSet(S) /\ S2 \in SUBSET S
  BY AmountsAreNat, FS_Subset
<1>3. f \in [S2 -> Nat] /\ g \in [S -> Nat] /\ \A a \in S2 : f[a] <= g[a]
  BY <1>1, <1>2
<1>4. SumFunction(g) <= allowance
  BY DEF NoOverbooking, TakenUpBy
<1>5. allowance \in Nat
  BY DEF TypeOK
<1> HIDE DEF f, g, S, S2
<1>6. SumFunction(f) \in Nat /\ SumFunction(g) \in Nat /\ SumFunction(f) <= SumFunction(g)
  BY <1>2, <1>3, SumsBelow
<1>7. SumFunction(f) <= allowance'
  BY <1>4, <1>5, <1>6
<1> QED
  BY <1>7 DEF NoOverbooking, TakenUpBy, f, S2

\* An admission under a cap: what the others take up is charged in the ledger, each
\* to a record of its own, and the reservation fits beside all that is charged.
LEMMA AdmittedFits ==
    ASSUME TypeOK, TypeOK', Backed, NEW p \in Processes, NEW b \in Attempts,
           NEW c \in Caps \cup {NoCap}, NEW n \in Reserves, Admit(p, b, c, n),
           Tightened(c) # NoCap
    PROVE  NoOverbooking'
<1> DEFINE now == Reaped(record)
           C == Tightened(c)
           S == Attempts \ orphans
           f == [a \in S |-> TakenUp(a)']
           g == [i \in Ids |-> now[i].work + Held(now[i])]
           t == [a \in S |-> IF stage[a] \in Unfinished THEN a ELSE Physical[a]]
<1>1. /\ ~forced /\ Committed(now) + Greater(1, n) <= C
      /\ stage' = [stage EXCEPT ![b] = "held"]
      /\ granted' = [granted EXCEPT ![b] = n]
      /\ allowance' = C /\ orphans' = orphans
  BY DEF Admit, Exhausted, Fits
<1>2. /\ \A a \in Attempts : a \in Ids /\ Physical[a] \in Ids
      /\ \A a, x \in Attempts : Physical[a] = Physical[x] \/ Physical[a] = x => a = x
  BY AttemptsAssumption
<1>3. /\ record \in [Ids -> Records] /\ \A i \in Ids : record[i] \in Records
      /\ stage \in [Attempts -> Stages] /\ granted \in [Attempts -> Nat]
  BY DEF TypeOK
<1>4. n \in Nat /\ C \in Nat
  BY AmountsAssumption DEF TypeOK, Tightened
<1>5. \A i \in Ids : /\ now[i] \in Records
                     /\ now[i].work = record[i].work
                     /\ record[i].owner \in alive => now[i] = record[i]
  BY <1>3, ReapedRecordFacts DEF Reaped
<1>6. ASSUME NEW i \in Ids
      PROVE  /\ now[i].work \in Nat /\ Held(now[i]) \in Nat
             /\ now[i].status = "in_flight" => now[i].work + Held(now[i]) >= now[i].reserved
  <2>1. now[i] \in Records
    BY <1>5
  <2> QED
    BY <2>1, AmountsAssumption DEF Held, Records
<1> HIDE DEF now
<1>7. g \in [Ids -> Nat]
  BY <1>6
<1>8. \A i \in Ids \ {b} : record'[i].work = record[i].work
  BY AdmitFacts
<1>9. f \in [S -> Nat]
  <2>1. (\A a \in Attempts : TakenUp(a) \in Nat)'
    BY AmountsAreNat, PTL
  <2> QED
    BY <2>1
<1>10. ASSUME NEW a \in S \ {b} PROVE TakenUp(a)' <= g[t[a]]
  <2>1. /\ stage'[a] = stage[a] /\ granted'[a] = granted[a] /\ granted[a] \in Nat
        /\ a \in Ids /\ Physical[a] \in Ids \ {b}
    BY <1>1, <1>2, <1>3
  <2>2. record'[Physical[a]].work = record[Physical[a]].work
    BY <1>8, <2>1
  <2>3. CASE stage[a] \in Unfinished
    <3>1. record[a].status = "in_flight" /\ record[a].owner \in alive
          /\ record[a].reserved = granted[a]
      BY <1>1, <2>3 DEF Backed
    <3>2. now[a] = record[a]
      BY <1>5, <2>1, <3>1
    <3>3. g[a] >= granted[a] /\ t[a] = a
      BY <1>6, <2>1, <2>3, <3>1, <3>2
    <3>4. TakenUp(a)' = granted[a]
      BY <2>1, <2>3 DEF TakenUp
    <3> HIDE DEF g, t
    <3> QED
      BY <1>7, <2>1, <3>3, <3>4
  <2>4. CASE stage[a] \notin Unfinished
    <3>1. TakenUp(a)' = Smaller(granted[a], record[Physical[a]].work)
      BY <2>1, <2>2, <2>4 DEF TakenUp
    <3>2. record[Physical[a]].work \in Nat /\ now[Physical[a]].work = record[Physical[a]].work
      BY <1>5, <1>6, <2>1
    <3>3. TakenUp(a)' <= record[Physical[a]].work
      BY <2>1, <3>1, <3>2 DEF Smaller
    <3>4. TakenUp(a)' \in Nat
      BY <2>1, <3>1, <3>2 DEF Smaller
    <3>5. t[a] = Physical[a] /\ g[t[a]] >= record[Physical[a]].work /\ g[t[a]] \in Nat
      BY <1>6, <2>1, <2>4, <3>2
    <3> HIDE DEF g, t
    <3> QED
      BY <3>2, <3>3, <3>4, <3>5
  <2> QED
    BY <2>3, <2>4
<1>11. t \in [S -> Ids] /\ \A x, y \in S : t[x] = t[y] => x = y
  BY <1>2
<1>12. IsFiniteSet(S) /\ IsFiniteSet(Ids)
  BY AmountsAreNat, FS_Subset, IdsAssumption
<1>13. \A x \in S \ {b} : f[x] <= g[t[x]]
  BY <1>10
<1>14. Committed(now) = SumFunction(g)
  BY DEF Committed
<1>15. DOMAIN f = S /\ DOMAIN g = Ids
  OBVIOUS
<1>16. TakenUp(b)' = n
  <2>1. stage'[b] = "held" /\ granted'[b] = n
    BY <1>1, <1>3
  <2> QED
    BY <2>1 DEF TakenUp, Unfinished
<1>17. b \in S => f[b] = n
  BY <1>16
<1>18. SumFunction(f) <= C => NoOverbooking'
  BY <1>1 DEF NoOverbooking, TakenUpBy
<1> HIDE DEF f, g, t, S, C
<1>19. Sums(f)[S \ {b}] <= Sums(g)[Ids]
  BY <1>7, <1>9, <1>11, <1>12, <1>13, SumsMapped
<1>20. SumFunction(f) = Sums(f)[S] /\ SumFunction(g) = Sums(g)[Ids]
  BY <1>15, SumIsSums
<1>21. Sums(f)[S] \in Nat /\ Sums(f)[S \ {b}] \in Nat /\ Sums(g)[Ids] \in Nat
  <2>1. S \in SUBSET S /\ S \ {b} \in SUBSET S /\ Ids \in SUBSET Ids
    OBVIOUS
  <2> QED
    BY <1>7, <1>9, <1>12, <2>1, SumsExist
<1>22. Sums(f)[S] <= n + Sums(f)[S \ {b}]
  <2>1. CASE b \in S
    <3>1. Sums(f)[S] = f[b] + Sums(f)[S \ {b}]
      BY <1>9, <1>12, <2>1, SumsAnyOrder
    <3> QED
      BY <1>4, <1>17, <1>21, <2>1, <3>1
  <2>2. CASE b \notin S
    <3>1. S \ {b} = S
      BY <2>2
    <3>2. Sums(f)[S \ {b}] = Sums(f)[S]
      BY <3>1
    <3> QED
      BY <1>4, <1>21, <3>2
  <2> QED
    BY <2>1, <2>2
<1>23. SumFunction(g) + n <= C
  BY <1>1, <1>4, <1>14, <1>20, <1>21 DEF Greater
<1> QED
  BY <1>4, <1>18, <1>19, <1>20, <1>21, <1>22, <1>23

\* The work of every record is kept or grows, except when an attempt is admitted.
LEMMA WorkGrows ==
    ASSUME TypeOK,
           \/ LedgerKept
           \/ \E c \in Caps \cup {NoCap} : Restored(c)
           \/ \E a \in Attempts, i \in Ids, r \in Records : Entered(a, i, r)
           \/ \E killed \in SUBSET Processes : CancelMission(killed)
    PROVE  \A i \in Ids : record'[i].work >= record[i].work
<1>1. /\ record \in [Ids -> Records]
      /\ \A i \in Ids : record[i] \in Records /\ record[i].work \in Nat
      /\ unknownSpend \in BOOLEAN
  BY AmountsAreNat DEF TypeOK
<1>2. CASE LedgerKept
  BY <1>1, <1>2 DEF LedgerKept, ledger
<1>3. ASSUME NEW c \in Caps \cup {NoCap}, Restored(c)
      PROVE  \A i \in Ids : record'[i].work >= record[i].work
  BY <1>1, <1>3, StoreFacts DEF Restored
<1>4. ASSUME NEW a \in Attempts, NEW k \in Ids, NEW r \in Records, Entered(a, k, r)
      PROVE  \A i \in Ids : record'[i].work >= record[i].work
  <2> DEFINE rec == [record EXCEPT ![k] = r]
  <2>1. Store(rec) /\ r.work >= record[k].work
    BY <1>4 DEF Entered
  <2>2. rec \in [Ids -> Records] /\ rec[k] = r /\ \A i \in Ids \ {k} : rec[i] = record[i]
    BY <1>1
  <2> HIDE DEF rec
  <2>3. \A i \in Ids : record'[i].work = rec[i].work
    BY <1>1, <2>1, <2>2, StoreFacts
  <2>4. \A i \in Ids : rec[i].work >= record[i].work
    BY <1>1, <2>1, <2>2
  <2> QED
    BY <2>3, <2>4
<1>5. ASSUME NEW killed \in SUBSET Processes, CancelMission(killed)
      PROVE  \A i \in Ids : record'[i].work >= record[i].work
  <2>1. record' = [i \in Ids |->
                     IF record[i].status = "in_flight"
                     THEN [record[i] EXCEPT !.status = "cancelled", !.reserved = 0]
                     ELSE record[i]]
    BY <1>5 DEF CancelMission
  <2>2. \A i \in Ids : record'[i].work = record[i].work
    BY <1>1, <2>1 DEF Records
  <2> QED
    BY <1>1, <2>2
<1> QED
  BY <1>2, <1>3, <1>4, <1>5

\* No step but an admission makes an attempt take up more.
LEMMA NobodyTakesMore ==
    ASSUME TypeOK, TypeOK', Backed,
           \/ LedgerKept
           \/ \E c \in Caps \cup {NoCap} : Restored(c)
           \/ \E a \in Attempts, i \in Ids, r \in Records : Entered(a, i, r)
           \/ \E killed \in SUBSET Processes : CancelMission(killed),
           NEW x \in Attempts
    PROVE  TakenUp(x)' <= TakenUp(x)
<1>1. /\ record \in [Ids -> Records] /\ \A i \in Ids : record[i] \in Records
      /\ stage \in [Attempts -> Stages] /\ granted[x] \in Nat
      /\ Physical[x] \in Ids /\ x \in Ids
      /\ stage[x] = "new" => granted[x] = 0
      /\ unknownSpend \in BOOLEAN
  BY AttemptsAssumption DEF TypeOK, Backed
<1>2. \A a \in Attempts : Physical[a] = Physical[x] \/ Physical[x] = a => a = x
  BY AttemptsAssumption
<1>3. record[Physical[x]].work \in Nat /\ record'[Physical[x]].work \in Nat
  <2>1. (\A i \in Ids : record[i].work \in Nat)'
    BY AmountsAreNat, PTL
  <2> QED
    BY <1>1, <2>1, AmountsAreNat
<1>4. UNCHANGED granted
  BY DEF LedgerKept, Restored, Entered, CancelMission
<1>5. ASSUME stage'[x] \in Unfinished, stage[x] \in Unfinished
      PROVE  TakenUp(x)' <= TakenUp(x)
  BY <1>1, <1>4, <1>5 DEF TakenUp
<1>6. ASSUME stage'[x] \notin Unfinished,
             granted[x] = 0 \/ stage[x] \in Unfinished \/ UNCHANGED record[Physical[x]].work
      PROVE  TakenUp(x)' <= TakenUp(x)
  <2>1. TakenUp(x)' = Smaller(granted[x], record'[Physical[x]].work)
    BY <1>4, <1>6 DEF TakenUp
  <2>2. CASE stage[x] \in Unfinished
    <3>1. TakenUp(x) = granted[x]
      BY <2>2 DEF TakenUp
    <3> QED
      BY <1>1, <1>3, <2>1, <3>1 DEF Smaller
  <2>3. CASE stage[x] \notin Unfinished
    <3>1. TakenUp(x) = Smaller(granted[x], record[Physical[x]].work)
      BY <2>3 DEF TakenUp
    <3> QED
      BY <1>1, <1>3, <1>6, <2>1, <2>3, <3>1 DEF Smaller
  <2> QED
    BY <2>2, <2>3
<1> DEFINE D == \/ stage'[x] \in Unfinished /\ stage[x] \in Unfinished
                \/ /\ stage'[x] \notin Unfinished
                   /\ \/ granted[x] = 0 \/ stage[x] \in Unfinished
                      \/ UNCHANGED record[Physical[x]].work
<1>7. ASSUME LedgerKept PROVE D
  <2>1. UNCHANGED record /\ (stage'[x] \in Unfinished <=> stage[x] \in Unfinished)
    BY <1>1, <1>7 DEF LedgerKept, ledger
  <2> QED
    BY <2>1
<1>8. ASSUME NEW c \in Caps \cup {NoCap}, Restored(c) PROVE D
  <2>1. \A i \in Ids : record'[i].work = record[i].work
    BY <1>1, <1>8, StoreFacts DEF Restored
  <2>2. stage'[x] \in Unfinished => stage[x] \in Unfinished
    BY <1>1, <1>8 DEF Restored, Unfinished
  <2> QED
    BY <1>1, <2>1, <2>2
<1>9. ASSUME NEW a \in Attempts, NEW k \in Ids, NEW r \in Records, Entered(a, k, r) PROVE D
  <2> DEFINE rec == [record EXCEPT ![k] = r]
  <2>1. Store(rec) /\ stage[a] \in Unfinished /\ (k = a \/ k = Physical[a])
    BY <1>9 DEF Entered
  <2>2. rec \in [Ids -> Records] /\ \A i \in Ids \ {k} : rec[i] = record[i]
    BY <1>1
  <2> HIDE DEF rec
  <2>3. \A i \in Ids : record'[i].work = rec[i].work
    BY <1>1, <2>1, <2>2, StoreFacts
  <2>4. stage'[x] \in Unfinished => stage[x] \in Unfinished
    BY <1>1, <1>9 DEF Entered, Unfinished
  <2>5. CASE x = a
    BY <2>1, <2>4, <2>5
  <2>6. CASE x # a
    <3>1. k # Physical[x]
      BY <1>2, <2>1, <2>6
    <3>2. UNCHANGED record[Physical[x]].work
      BY <1>1, <2>2, <2>3, <3>1
    <3> QED
      BY <2>4, <3>2
  <2> QED
    BY <2>5, <2>6
<1>10. ASSUME NEW killed \in SUBSET Processes, CancelMission(killed) PROVE D
  <2>1. UNCHANGED stage
        /\ record' = [i \in Ids |->
                        IF record[i].status = "in_flight"
                        THEN [record[i] EXCEPT !.status = "cancelled", !.reserved = 0]
                        ELSE record[i]]
    BY <1>10 DEF CancelMission
  <2>2. record'[Physical[x]].work = record[Physical[x]].work
    BY <1>1, <2>1 DEF Records
  <2> QED
    BY <2>1, <2>2
<1>11. D
  BY <1>7, <1>8, <1>9, <1>10
<1> QED
  BY <1>5, <1>6, <1>11

\* Every step keeps what is taken up within the allowance.
LEMMA OverbookingStep ==
    ASSUME TypeOK, TypeOK', Backed, NoOverbooking, [Next]_vars
    PROVE  NoOverbooking'
<1> DEFINE Settles == \/ LedgerKept
                      \/ \E c \in Caps \cup {NoCap} : Restored(c)
                      \/ \E a \in Attempts, i \in Ids, r \in Records : Entered(a, i, r)
                      \/ \E killed \in SUBSET Processes : CancelMission(killed)
<1>1. CASE Settles
  <2>1. orphans \subseteq orphans' /\ allowance' = allowance
    BY <1>1 DEF LedgerKept, Restored, Entered, CancelMission
  <2>2. \A x \in Attempts : TakenUp(x)' <= TakenUp(x)
    BY <1>1, NobodyTakesMore
  <2> QED
    BY <2>1, <2>2, NoMoreTaken
<1>2. ASSUME NEW p \in Processes, NEW b \in Attempts, NEW c \in Caps \cup {NoCap},
             NEW n \in Reserves, Admit(p, b, c, n)
      PROVE  NoOverbooking'
  <2>1. CASE Tightened(c) # NoCap
    BY <1>2, <2>1, AdmittedFits
  <2>2. CASE Tightened(c) = NoCap
    <3>1. /\ stage' = [stage EXCEPT ![b] = "held"] /\ granted' = [granted EXCEPT ![b] = 0]
          /\ UNCHANGED <<allowance, orphans>>
      BY <1>2, <2>2 DEF Admit
    <3>2. \A i \in Ids \ {b} : record'[i].work = record[i].work
      BY <1>2, AdmitFacts
    <3>3. ASSUME NEW x \in Attempts PROVE TakenUp(x)' <= TakenUp(x)
      <4>1. stage \in [Attempts -> Stages] /\ granted \in [Attempts -> Nat]
        BY DEF TypeOK
      <4>2. TakenUp(x) \in Nat
        BY AmountsAreNat
      <4>3. CASE x = b
        <5>1. TakenUp(x)' = 0
          BY <3>1, <4>1, <4>3 DEF TakenUp, Unfinished
        <5> QED
          BY <4>2, <5>1
      <4>4. CASE x # b
        <5>1. Physical[x] \in Ids \ {b}
          BY <4>4, AttemptsAssumption
        <5>2. TakenUp(x)' = TakenUp(x)
          BY <3>1, <3>2, <4>1, <4>4, <5>1 DEF TakenUp
        <5> QED
          BY <4>2, <5>2
      <4> QED
        BY <4>3, <4>4
    <3> QED
      BY <3>1, <3>3, NoMoreTaken
  <2> QED
    BY <2>1, <2>2
<1> QED
  BY <1>1, <1>2, LedgerCases

\* Whether the ledger is exhausted is told by the work it knows and by its marks:
\* reaping, which every operation does first, changes neither.
LEMMA ExhaustedIs ==
    TypeOK /\ MarksKept =>
        (Exhausted(Reaped(record), cap) <=>
            forced \/ (cap # NoCap /\ (Known(record) >= cap \/ unknownSpend)))
<1> SUFFICES ASSUME TypeOK, MarksKept
             PROVE  Exhausted(Reaped(record), cap) <=>
                       forced \/ (cap # NoCap /\ (Known(record) >= cap \/ unknownSpend))
  OBVIOUS
<1>1. \A i \in Ids : record[i] \in Records
  BY DEF TypeOK
<1>2. \A i \in Ids : /\ Reaped(record)[i].work = record[i].work
                     /\ Reaped(record)[i].unknown = record[i].unknown
  BY <1>1, ReapedRecordFacts DEF Reaped
<1>3. Known(Reaped(record)) = Known(record)
  <2>1. [i \in Ids |-> Reaped(record)[i].work] = [i \in Ids |-> record[i].work]
    BY <1>2
  <2> QED
    BY <2>1 DEF Known
<1>4. SpendUnknown(Reaped(record)) <=> unknownSpend
  BY <1>2 DEF SpendUnknown, MarksKept, TypeOK
<1> QED
  BY <1>3, <1>4, Zenon DEF Exhausted

\* No step makes room again in an exhausted ledger.
LEMMA ExhaustionStep ==
    ASSUME TypeOK, TypeOK', MarksKept, MarksKept', [Next]_vars, Exhausted(Reaped(record), cap)
    PROVE  Exhausted(Reaped(record), cap)'
<1>1. forced \/ (cap # NoCap /\ (Known(record) >= cap \/ unknownSpend))
  BY ExhaustedIs
<1>2. forced' \/ (cap' # NoCap /\ (Known(record)' >= cap' \/ unknownSpend'))
      => Exhausted(Reaped(record), cap)'
  <2>1. (Exhausted(Reaped(record), cap) <=>
            forced \/ (cap # NoCap /\ (Known(record) >= cap \/ unknownSpend)))'
    BY ExhaustedIs, PTL
  <2> QED
    BY <2>1
<1>3. /\ record \in [Ids -> Records] /\ \A i \in Ids : record[i] \in Records
      /\ unknownSpend \in BOOLEAN
      /\ cap # NoCap => cap \in Nat /\ cap \in Caps
      /\ cap' # NoCap => cap' \in Nat
      /\ \A i \in Ids : record[i].work \in Nat
  BY AmountsAreNat, AmountsAssumption DEF TypeOK
<1>4. ASSUME NEW p \in Processes, NEW a \in Attempts, NEW c \in Caps \cup {NoCap},
             NEW n \in Reserves, Admit(p, a, c, n)
      PROVE  FALSE
  <2>1. ~Exhausted(Reaped(record), Tightened(c))
    BY <1>4 DEF Admit
  <2>2. cap # NoCap => Tightened(c) # NoCap /\ Tightened(c) \in Nat /\ Tightened(c) <= cap
    BY <1>3, AmountsAssumption DEF Tightened
  <2>3. ~forced /\ (Tightened(c) # NoCap => /\ ~(Known(Reaped(record)) >= Tightened(c))
                                            /\ ~SpendUnknown(Reaped(record)))
    BY <2>1, Zenon DEF Exhausted
  <2>4. cap # NoCap /\ (Known(Reaped(record)) >= cap \/ SpendUnknown(Reaped(record)))
    BY <2>3, Zenon DEF Exhausted
  <2>5. Known(Reaped(record)) \in Nat
    <3>1. \A i \in Ids : Reaped(record)[i].work \in Nat
      BY <1>3, ReapedRecordFacts DEF Reaped
    <3>2. [i \in Ids |-> Reaped(record)[i].work] \in [Ids -> Nat]
      BY <3>1
    <3> QED
      BY <3>2, IdsAssumption, SumsBelow DEF Known
  <2> QED
    BY <1>3, <2>2, <2>3, <2>4, <2>5
<1>5. \/ LedgerKept
      \/ \E c \in Caps \cup {NoCap} : Restored(c)
      \/ \E a \in Attempts, i \in Ids, r \in Records : Entered(a, i, r)
      \/ \E killed \in SUBSET Processes : CancelMission(killed)
  BY <1>4, LedgerCases
<1>6. forced => forced'
  BY <1>5 DEF LedgerKept, ledger, Restored, Entered, CancelMission
<1>7. cap # NoCap => cap' # NoCap /\ cap' <= cap
  <2>1. cap' = cap \/ \E c \in Caps \cup {NoCap} : cap' = Tightened(c)
    BY <1>5 DEF LedgerKept, ledger, Restored, Entered, CancelMission
  <2> QED
    BY <1>3, <2>1, AmountsAssumption DEF Tightened
<1>8. unknownSpend => unknownSpend'
  <2>1. ASSUME NEW a \in Attempts, NEW i \in Ids, NEW r \in Records, Entered(a, i, r)
        PROVE  unknownSpend => unknownSpend'
    <3>1. [record EXCEPT ![i] = r] \in [Ids -> Records]
      BY <1>3
    <3> QED
      BY <1>3, <2>1, <3>1, StoreFacts DEF Entered
  <2> QED
    BY <1>3, <1>5, <2>1, StoreFacts DEF LedgerKept, ledger, Restored, CancelMission
<1>9. Known(record) \in Nat /\ Known(record)' \in Nat /\ Known(record)' >= Known(record)
  <2> DEFINE f == [i \in Ids |-> record[i].work]
             g == [i \in Ids |-> record'[i].work]
  <2>1. (\A i \in Ids : record[i].work \in Nat)'
    BY AmountsAreNat, PTL
  <2>2. f \in [Ids -> Nat] /\ g \in [Ids -> Nat] /\ \A i \in Ids : f[i] <= g[i]
    BY <1>3, <1>5, <2>1, WorkGrows
  <2>3. Known(record) = SumFunction(f) /\ Known(record)' = SumFunction(g)
    BY DEF Known
  <2> HIDE DEF f, g
  <2> QED
    BY <2>2, <2>3, IdsAssumption, SumsBelow
<1>10. CASE forced
  BY <1>2, <1>6, <1>10
<1>11. CASE cap # NoCap /\ unknownSpend
  BY <1>2, <1>7, <1>8, <1>11
<1>12. CASE cap # NoCap /\ Known(record) >= cap
  BY <1>2, <1>3, <1>7, <1>9, <1>12
<1> QED
  BY <1>1, <1>10, <1>11, <1>12

\* What the two theorems below rest on, in one invariant.
BookedInv == BudgetInv /\ Backed /\ MarksKept /\ NoOverbooking

LEMMA BookedInvariance == Spec => []BookedInv
<1>1. Init => BookedInv
  <2> SUFFICES ASSUME Init PROVE Backed /\ MarksKept /\ NoOverbooking
    BY BudgetInit DEF BookedInv
  <2>1. Backed
    BY DEF Init, Backed, Unfinished
  <2>2. MarksKept
    BY DEF Init, MarksKept, NoRecord
  <2>3. NoOverbooking
    <3> DEFINE S == Attempts \ orphans
               f == [a \in S |-> TakenUp(a)]
    <3>1. TypeOK
      BY BudgetInit DEF BudgetInv
    <3>2. \A a \in Attempts : TakenUp(a) = 0
      <4>1. \A a \in Attempts : granted[a] = 0 /\ stage[a] = "new"
                                /\ record[Physical[a]].work = 0
        BY AttemptsAssumption DEF Init, NoRecord
      <4> QED
        BY <4>1 DEF TakenUp, Smaller, Unfinished
    <3>3. f \in [S -> Nat] /\ IsFiniteSet(S) /\ \A a \in S : f[a] = 0
      BY <3>1, <3>2, AmountsAreNat, FS_Subset
    <3>4. TakenUpBy(S) = SumFunction(f) /\ DOMAIN f = S
      BY DEF TakenUpBy
    <3> HIDE DEF f, S
    <3>5. SumFunction(f) = Sums(f)[S]
      BY <3>4, SumIsSums
    <3>6. Sums(f)[S] = 0
      BY <3>3, NothingIsZero
    <3> QED
      BY <3>4, <3>5, <3>6 DEF NoOverbooking, Init, S
  <2> QED
    BY <2>1, <2>2, <2>3
<1>2. BookedInv /\ [Next]_vars => BookedInv'
  <2> SUFFICES ASSUME BookedInv, [Next]_vars PROVE BookedInv'
    OBVIOUS
  <2>1. BudgetInv' /\ TypeOK /\ TypeOK'
    BY BudgetStep DEF BookedInv, BudgetInv
  <2> QED
    BY <2>1, BackedStep, OverbookingStep DEF BookedInv
<1> QED
  BY <1>1, <1>2, PTL DEF Spec

\* What was granted is never more than the cap it was granted under, of the attempts
\* whose reserving process outlives them: however many schedulers reserve through
\* _mission_budget.py at once, and whatever is settled, cancelled or dies meanwhile.
THEOREM NothingIsOverbooked == Spec => []NoOverbooking
<1>1. BookedInv => NoOverbooking
  BY DEF BookedInv
<1> QED
  BY <1>1, BookedInvariance, PTL

\* Once a mission is exhausted it stays so: no operation on budget.json makes room
\* again, in whatever order reports, settlements and changes of the cap come.
THEOREM ExhaustionStands == Spec => ExhaustionIsFinal
<1> DEFINE A == Exhausted(Reaped(record), cap) => Exhausted(Reaped(record), cap)'
<1>1. ASSUME BookedInv, BookedInv', [Next]_vars PROVE A
  BY <1>1, ExhaustionStep DEF BookedInv, BudgetInv
<1>2. BookedInv /\ BookedInv' /\ [Next]_vars => [A]_vars
  BY <1>1
<1> QED
  BY <1>2, BookedInvariance, PTL DEF Spec, ExhaustionIsFinal

=============================================================================

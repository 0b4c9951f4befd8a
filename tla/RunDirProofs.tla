----------------------------- MODULE RunDirProofs -----------------------------
(***************************************************************************)
(* Acknowledgements in a run directory are fenced (RunDir!AcksFenced), for *)
(* any number of processes, ownership periods, records and crashes.        *)
(*                                                                         *)
(* A lock can be created only where there is none and takes the next       *)
(* nonce, so the lock that is there is always the newest one ever created; *)
(* an append is acknowledged only to the nonce in the lock.                *)
(***************************************************************************)
EXTENDS RunDir, WellFoundedInduction, SequenceTheorems, TLAPS

\* Steps that acknowledge nothing and draw no nonce back.
LEMMA NoAck ==
  ASSUME FenceInv, LockNewest', acknowledged' = acknowledged,
         nextNonce' \in {nextNonce, nextNonce + 1}
  PROVE  FenceInv'
<1>1. \A i \in 1..Len(acknowledged) : acknowledged[i][1] \in Nat
  BY DEF FenceInv
<1> QED
  BY <1>1 DEF FenceInv, LockNewest, AcksFenced

\* The steps that leave the lock and the acknowledgements alone, and do not
\* bring a process to the point where it fills the lock file.
Quiet ==
    /\ UNCHANGED <<lockNonce, lockWritten, nextNonce, acknowledged>>
    /\ nonce' \in [Processes -> Nat]
    /\ appended' \in [Processes -> Nat]
    /\ pc' \in [Processes -> Places]
    /\ \A p \in Processes : pc'[p] = "fill" => pc[p] = "fill" /\ nonce'[p] = nonce[p]

LEMMA QuietSteps == ASSUME FenceInv, Quiet PROVE FenceInv'
<1>1. LockNewest'
  BY DEF FenceInv, LockNewest, Quiet
<1> QED
  BY <1>1, NoAck DEF Quiet

LEMMA StartQuiet == ASSUME FenceInv, NEW p \in Processes, Start(p) PROVE Quiet
  BY RunDirAssumption DEF FenceInv, LockNewest, Quiet, Start, Go, Places, lock, issue, Absent

LEMMA ReadQuiet ==
  ASSUME FenceInv, NEW p \in Processes, ReadFiles(p) \/ ReadLock(p) \/ Keep(p)
  PROVE  Quiet
  BY DEF FenceInv, LockNewest, Quiet, ReadFiles, ReadLock, Keep, Go, Places, lock, issue, owning

LEMMA JudgeQuiet ==
  ASSUME FenceInv, NEW p \in Processes,
         Collide(p) \/ Judge(p) \/ Confirm(p) \/ Persist(p) \/ Count(p)
  PROVE  Quiet
<1>1. CASE Collide(p)
  BY <1>1 DEF FenceInv, LockNewest, Quiet, Collide, Go, Places, lock, issue, owning
<1>2. CASE Judge(p)
  BY <1>2 DEF FenceInv, LockNewest, Quiet, Judge, Again, Refuse, Go, Places, lock, issue, owning
<1>3. CASE Confirm(p)
  BY <1>3 DEF FenceInv, LockNewest, Quiet, Confirm, Again, Go, Places, lock, issue, owning
<1>4. CASE Persist(p)
  BY <1>4 DEF FenceInv, LockNewest, Quiet, Persist, Refuse, Go, Places, lock, issue, owning
<1>5. CASE Count(p)
  BY <1>5 DEF FenceInv, LockNewest, Quiet, Count, Go, Places, lock, issue, owning
<1> QED BY <1>1, <1>2, <1>3, <1>4, <1>5

LEMMA JournalQuiet ==
  ASSUME FenceInv, NEW p \in Processes,
         RepairRead(p) \/ RepairReplace(p) \/ Open(p) \/ Fence(p) \/ Write(p) \/ Sync(p)
  PROVE  Quiet
<1>1. CASE RepairRead(p)
  BY <1>1 DEF FenceInv, LockNewest, Quiet, RepairRead, Go, Places, lock, issue
<1>2. CASE RepairReplace(p)
  BY <1>2 DEF FenceInv, LockNewest, Quiet, RepairReplace, Go, Places, lock, issue
<1>3. CASE Open(p)
  BY <1>3 DEF FenceInv, LockNewest, Quiet, Open, Go, Places, lock, issue
<1>4. CASE Fence(p)
  BY <1>4 DEF FenceInv, LockNewest, Quiet, Fence, Go, Places, lock, issue, owning
<1>5. CASE Write(p)
  BY <1>5 DEF FenceInv, LockNewest, Quiet, Write, Go, Places, lock, issue, owning
<1>6. CASE Sync(p)
  BY <1>6 DEF FenceInv, LockNewest, Quiet, Sync, Go, Places, lock, issue, owning
<1> QED BY <1>1, <1>2, <1>3, <1>4, <1>5, <1>6

LEMMA OtherQuiet ==
  ASSUME FenceInv, NEW p \in Processes,
         Renew(p) \/ WriteStage(p) \/ Release(p) \/ Die(p)
  PROVE  Quiet
<1>1. CASE Renew(p)
  BY <1>1 DEF FenceInv, LockNewest, Quiet, Renew, lock, issue, owning
<1>2. CASE WriteStage(p)
  BY <1>2 DEF FenceInv, LockNewest, Quiet, WriteStage, lock, issue, owning
<1>3. CASE Release(p)
  BY <1>3 DEF FenceInv, LockNewest, Quiet, Release, Go, Places, lock, issue, owning
<1>4. CASE Die(p)
  BY <1>4 DEF FenceInv, LockNewest, Quiet, Die, Go, Places, lock, issue, owning
<1> QED BY <1>1, <1>2, <1>3, <1>4

\* A lock is created where none is, with the next nonce.
LEMMA CreateFenced ==
  ASSUME FenceInv, NEW p \in Processes, Create(p) PROVE FenceInv'
<1>1. /\ nextNonce \in Nat \ {0} /\ nextNonce' = nextNonce + 1
      /\ lockNonce' = nextNonce /\ lockWritten' = FALSE
      /\ nonce' = [nonce EXCEPT ![p] = nextNonce]
      /\ pc' = [pc EXCEPT ![p] = "fill"]
      /\ appended' = appended
  BY DEF FenceInv, LockNewest, Create, Go, owning
<1>2. pc' \in [Processes -> Places]
  BY <1>1 DEF FenceInv, LockNewest, Places
<1>3. nonce' \in [Processes -> Nat] /\ \A q \in Processes : pc'[q] = "fill" => nonce'[q] # Absent
  BY <1>1 DEF FenceInv, LockNewest, Absent
<1>w. lockWritten' \in BOOLEAN /\ (lockWritten' => lockNonce' # Absent)
  BY <1>1, Zenon
<1>l. /\ nextNonce' \in Nat \ {0} /\ lockNonce' \in {Absent, nextNonce' - 1}
      /\ appended' \in [Processes -> Nat]
  BY <1>1 DEF FenceInv, LockNewest
<1>4. LockNewest'
  BY <1>2, <1>3, <1>w, <1>l, Zenon DEF LockNewest
<1> QED
  BY <1>1, <1>4, NoAck DEF Create

LEMMA FillFenced ==
  ASSUME FenceInv, NEW p \in Processes, Fill(p) PROVE FenceInv'
<1>1. LockNewest'
  BY DEF FenceInv, LockNewest, Fill, Go, Places, Absent, issue, owning
<1> QED
  BY <1>1, NoAck DEF Fill, issue

LEMMA UnlinkFenced ==
  ASSUME FenceInv, NEW p \in Processes, Break(p) \/ Unlink(p) PROVE FenceInv'
<1>1. CASE Break(p)
  <2>1. LockNewest'
    BY <1>1 DEF FenceInv, LockNewest, Break, Again, Go, Places, Absent, issue, owning
  <2> QED
    BY <1>1, <2>1, NoAck DEF Break, issue
<1>2. CASE Unlink(p)
  <2>1. LockNewest'
    BY <1>2 DEF FenceInv, LockNewest, Unlink, Go, Places, Absent, issue, owning
  <2> QED
    BY <1>2, <2>1, NoAck DEF Unlink, issue
<1> QED BY <1>1, <1>2

\* The step that acknowledges: the nonce it adds is that of the newest lock.
LEMMA CheckFenced ==
  ASSUME FenceInv, NEW p \in Processes, Check(p) PROVE FenceInv'
<1> USE DEF Check, Go
<1>a. UNCHANGED <<lockNonce, lockWritten, nextNonce, nonce>>
  BY DEF lock, issue
<1>b. appended' \in [Processes -> Nat]
  BY DEF FenceInv, LockNewest
<1>c. /\ pc' \in [Processes -> Places]
      /\ \A q \in Processes : pc'[q] = "fill" => pc[q] = "fill"
  BY DEF FenceInv, LockNewest, Places
<1>1. LockNewest' /\ nextNonce' = nextNonce
  BY <1>a, <1>b, <1>c DEF FenceInv, LockNewest
<1>2. CASE StillCurrent(p)
  <2> DEFINE record == <<nonce[p], appended[p] + 1>>
  <2>1. acknowledged' = Append(acknowledged, record)
    BY <1>2 DEF Check
  <2>2. record \in Nat \X Nat /\ record[1] = nextNonce - 1
    BY <1>2 DEF StillCurrent, FenceInv, LockNewest, Absent
  <2>3. acknowledged \in Seq(Nat \X Nat)
    BY DEF FenceInv
  <2> HIDE DEF record
  <2>4. /\ acknowledged' \in Seq(Nat \X Nat)
        /\ Len(acknowledged') = Len(acknowledged) + 1
        /\ acknowledged'[Len(acknowledged) + 1] = record
        /\ \A i \in 1..Len(acknowledged) : acknowledged'[i] = acknowledged[i]
    BY <2>1, <2>2, <2>3
  <2>5. \A i \in 1..Len(acknowledged) :
            acknowledged[i][1] \in Nat /\ acknowledged[i][1] <= nextNonce - 1
    BY <2>3, SMTT(30) DEF FenceInv, LockNewest
  <2> DEFINE last == Len(acknowledged) + 1
  <2>a. nextNonce \in Nat /\ Len(acknowledged) \in Nat
    BY <2>3 DEF FenceInv, LockNewest
  <2>b. \A i \in 1..last : i = last \/ i \in 1..Len(acknowledged)
    BY <2>a
  <2>c. \A i \in 1..last :
            acknowledged'[i][1] \in Nat /\ acknowledged'[i][1] <= nextNonce - 1
    <3> SUFFICES ASSUME NEW i \in 1..last
                 PROVE  /\ acknowledged'[i][1] \in Nat
                        /\ acknowledged'[i][1] <= nextNonce - 1
      OBVIOUS
    <3>1. CASE i = last
      <4>1. acknowledged'[i] = record /\ record[1] \in Nat
        BY <3>1, <2>2, <2>4
      <4> QED
        BY <4>1, <2>2
    <3>2. CASE i \in 1..Len(acknowledged)
      BY <3>2, <2>4, <2>5
    <3> QED BY <3>1, <3>2, <2>b
  <2>6. \A i \in 1..Len(acknowledged') : acknowledged'[i][1] < nextNonce'
    BY <1>1, <2>4, <2>a, <2>c
  <2>7. AcksFenced'
    <3> SUFFICES ASSUME NEW i \in 1..last, NEW j \in 1..last, i < j
                 PROVE  acknowledged'[i][1] <= acknowledged'[j][1]
      BY <2>4 DEF AcksFenced
    <3>1. CASE j = last
      BY <3>1, <2>2, <2>4, <2>c
    <3>2. CASE j # last
      <4>1. i \in 1..Len(acknowledged) /\ j \in 1..Len(acknowledged)
        BY <3>2, <2>a
      <4> QED
        BY <4>1, <2>4 DEF FenceInv, AcksFenced
    <3> QED BY <3>1, <3>2
  <2> QED
    BY <1>1, <2>4, <2>6, <2>7 DEF FenceInv
<1>3. CASE ~StillCurrent(p)
  BY <1>1, <1>3, NoAck DEF Check
<1> QED BY <1>2, <1>3

LEMMA PowerLossFenced == ASSUME FenceInv, PowerLoss PROVE FenceInv'
<1>a. pc' \in [Processes -> Places] /\ \A p \in Processes : pc'[p] # "fill"
  BY DEF PowerLoss, Places
<1>b. /\ lockNonce' = lockNonce /\ nextNonce' = nextNonce
      /\ nonce' = nonce /\ appended' = appended
      /\ lockWritten' \in {lockWritten, FALSE}
  BY DEF PowerLoss, issue, owning
<1>w. lockWritten' \in BOOLEAN /\ (lockWritten' => lockNonce' # Absent)
  <2>1. lockWritten \in BOOLEAN /\ (lockWritten => lockNonce # Absent)
    BY Zenon DEF FenceInv, LockNewest
  <2>2. CASE lockWritten' = lockWritten
    BY <1>b, <2>1, <2>2, Zenon
  <2>3. CASE lockWritten' = FALSE
    BY <2>3, Zenon
  <2> QED
    BY <1>b, <2>2, <2>3, Zenon
<1>l. /\ nextNonce' \in Nat \ {0} /\ lockNonce' \in {Absent, nextNonce' - 1}
      /\ nonce' \in [Processes -> Nat] /\ appended' \in [Processes -> Nat]
  BY <1>b DEF FenceInv, LockNewest
<1>1. LockNewest'
  BY <1>a, <1>w, <1>l, Zenon DEF LockNewest
<1> QED
  BY <1>1, NoAck DEF PowerLoss, issue

LEMMA LapseQuiet == ASSUME FenceInv, NEW n \in Nonces, Lapse(n) PROVE Quiet
  BY DEF FenceInv, LockNewest, Quiet, Lapse, lock, issue, owning

LEMMA StutterQuiet == ASSUME FenceInv, UNCHANGED vars PROVE Quiet
  BY DEF FenceInv, LockNewest, Quiet, vars, lock, issue, owning

LEMMA FenceInit == Init => FenceInv
<1> SUFFICES ASSUME Init PROVE FenceInv
  OBVIOUS
<1>a. pc \in [Processes -> Places] /\ \A p \in Processes : pc[p] # "fill"
  BY DEF Init, Places
<1>w. lockWritten \in BOOLEAN /\ (lockWritten => lockNonce # Absent)
  BY Zenon DEF Init
<1>l. /\ nextNonce \in Nat \ {0} /\ lockNonce \in {Absent, nextNonce - 1}
      /\ nonce \in [Processes -> Nat] /\ appended \in [Processes -> Nat]
  BY DEF Init, Absent
<1>1. LockNewest
  BY <1>a, <1>w, <1>l, Zenon DEF LockNewest
<1>2. acknowledged = <<>> /\ Len(acknowledged) = 0
  BY DEF Init
<1> QED
  BY <1>1, <1>2 DEF FenceInv, AcksFenced

LEMMA FenceStep == FenceInv /\ [Next]_vars => FenceInv'
<1> SUFFICES ASSUME FenceInv, [Next]_vars PROVE FenceInv'
  OBVIOUS
<1>1. ASSUME NEW p \in Processes, Acquire(p) PROVE FenceInv'
  BY <1>1, StartQuiet, ReadQuiet, JudgeQuiet, QuietSteps, CreateFenced, FillFenced,
     UnlinkFenced DEF Acquire
<1>2. ASSUME NEW p \in Processes, RepairRead(p) \/ RepairReplace(p) \/ AppendRecord(p)
      PROVE  FenceInv'
  BY <1>2, JournalQuiet, QuietSteps, CheckFenced DEF AppendRecord
<1>3. ASSUME NEW p \in Processes,
             Renew(p) \/ WriteStage(p) \/ Release(p) \/ Unlink(p) \/ Die(p)
      PROVE  FenceInv'
  BY <1>3, OtherQuiet, QuietSteps, UnlinkFenced
<1>4. ASSUME NEW n \in Nonces, Lapse(n) PROVE FenceInv'
  BY <1>4, LapseQuiet, QuietSteps
<1>5. CASE UNCHANGED vars
  BY <1>5, StutterQuiet, QuietSteps
<1> QED
  BY <1>1, <1>2, <1>3, <1>4, <1>5, PowerLossFenced DEF Next

\* Acknowledgements follow the order in which the locks were created: once an
\* owner has had an append acknowledged, no earlier owner has (the checks after
\* the sync and the close in journal_append_encoded).
THEOREM AcksAreFenced == Spec => []AcksFenced
<1>1. FenceInv => AcksFenced
  BY DEF FenceInv
<1> QED
  BY FenceInit, FenceStep, <1>1, PTL DEF Spec

-----------------------------------------------------------------------------
(* The types, and the numbers in use.                                      *)

\* A set of numbers up to m that is not empty has a largest one.
LEMMA LargestBelow ==
  ASSUME NEW m \in Nat, NEW S \in SUBSET (1..m)
  PROVE  Largest(S) \in 0..m /\ (S # {} => Largest(S) \in S)
<1>1. CASE S = {}
  BY <1>1 DEF Largest
<1>2. CASE S # {}
  <2> DEFINE Bounds == {u \in Nat : \A n \in S : n <= u}
  <2>1. Bounds \subseteq Nat /\ m \in Bounds
    OBVIOUS
  <2>2. PICK u \in Bounds : \A v \in Bounds : ~ (<<v, u>> \in OpToRel(<, Nat))
    BY <2>1, NatLessThanWellFounded, WFMin
  <2>3. \A v \in Bounds : ~ (v < u)
    BY <2>2 DEF OpToRel
  <2>4. u \in S
    <3> SUFFICES ASSUME u \notin S PROVE FALSE
      OBVIOUS
    <3>1. PICK k \in S : TRUE
      BY <1>2
    <3>2. \A n \in S : n <= u - 1
      OBVIOUS
    <3>3. u - 1 \in Bounds
      BY <3>1, <3>2
    <3> QED
      BY <2>3, <3>3
  <2>5. Largest(S) \in S
    BY <2>4 DEF Largest
  <2>6. Largest(S) \in 1..m
    <3> DEFINE x == Largest(S)
    <3>1. x \in S
      BY <2>5
    <3> HIDE DEF x
    <3>2. x \in 1..m
      BY <3>1
    <3> QED
      BY <3>2 DEF x
  <2> QED
    BY <1>2, <2>5, <2>6
<1> QED BY <1>1, <1>2

\* What an owner, past or present, has drawn.
LEMMA HolderFacts ==
  ASSUME TypeOK, Numbered, NEW p \in Processes, pc[p] \in Holding
  PROVE  /\ nonce[p] \in Issued /\ nonce[p] \in Nonces /\ nonce[p] \in Nat
         /\ generationOf[nonce[p]] \in Generations
         /\ generationOf[nonce[p]] \in 1..nonce[p]
         /\ generationOf[nonce[p]] < nextNonce
         /\ generationOf[nonce[p]] \in Drawn
<1>1. nonce[p] \in Issued /\ nonce[p] \in Nonces /\ nonce[p] \in Nat
  BY RunDirAssumption DEF TypeOK, Numbered, Issued, Nonces, Absent
<1>2. generationOf[nonce[p]] \in 1..nonce[p]
  BY <1>1 DEF Numbered
<1>3. nonce[p] < nextNonce /\ nonce[p] <= MaxNonces /\ nextNonce \in Nat /\ MaxNonces \in Nat
  BY <1>1, RunDirAssumption DEF Nonces, Issued, TypeOK
<1>4. generationOf[nonce[p]] \in Generations /\ generationOf[nonce[p]] < nextNonce
  BY <1>1, <1>2, <1>3 DEF Generations
<1> QED
  BY <1>1, <1>2, <1>4 DEF Drawn

\* A holder that appends has a nonce to sign with and a number left for the line.
LEMMA RecordFacts ==
  ASSUME TypeOK, Numbered, NEW p \in Processes, pc[p] \in {"fence", "write", "sync", "check"}
  PROVE  /\ appended[p] + 1 \in 1..MaxRecords
         /\ <<nonce[p], appended[p] + 1>> \in Records
<1>1. appended[p] \in 0..MaxRecords
  BY DEF TypeOK
<1>2. appended[p] < MaxRecords
  BY DEF Numbered
<1>3. appended[p] + 1 \in 1..MaxRecords
  <2> DEFINE k == appended[p]
  <2> HIDE DEF k
  <2>1. k \in 0..MaxRecords /\ k < MaxRecords
    BY <1>1, <1>2 DEF k
  <2>2. k + 1 \in 1..MaxRecords
    BY ONLY <2>1, RunDirAssumption
  <2> QED
    BY <2>2 DEF k
<1>4. nonce[p] \in Nonces
  BY HolderFacts DEF Holding
<1> QED
  BY <1>3, <1>4 DEF Records

\* The generations read from the files were drawn.
LEMMA FilesFacts ==
  ASSUME TypeOK, Numbered
  PROVE  /\ GenerationInFiles \in 0..MaxNonces /\ GenerationInFiles < nextNonce
         /\ GenerationInLock \in 0..MaxNonces /\ GenerationInLock < nextNonce
<1>1. Largest(staged) \in 0..MaxNonces /\ Largest(staged) < nextNonce
  <2>1. staged \in SUBSET (1..MaxNonces)
    BY DEF TypeOK, Generations
  <2>2. Largest(staged) \in 0..MaxNonces /\ (staged # {} => Largest(staged) \in staged)
    BY <2>1, LargestBelow, RunDirAssumption
  <2>3. nextNonce \in Nat \ {0} /\ \A g \in staged : g < nextNonce
    BY RunDirAssumption DEF Numbered, TypeOK
  <2>4. CASE staged = {}
    BY <2>2, <2>3, <2>4 DEF Largest
  <2>5. CASE staged # {}
    BY <2>2, <2>3, <2>5
  <2> QED
    BY <2>4, <2>5
<1>2. GenerationInLock \in 0..MaxNonces /\ GenerationInLock < nextNonce
  BY RunDirAssumption DEF TypeOK, Numbered, GenerationInLock, Absent, Nonces, Issued
<1> QED
  BY <1>1, <1>2, RunDirAssumption DEF GenerationInFiles, Larger, TypeOK, Numbered

\* The types and numbers, by what they are about: the shared files, the journal
\* and the variables of the processes.
FileTypes ==
    /\ lockNonce \in 0..MaxNonces
    /\ generationFile \in 0..MaxNonces
    /\ staged \subseteq Generations
    /\ generationOf \in [Nonces -> 0..MaxNonces]
    /\ leaseLive \subseteq Nonces
    /\ nextNonce \in 1..(MaxNonces + 1)
    /\ crashes \in 0..MaxCrashes

Lines == Seq(Records \cup {Torn})

JournalTypes ==
    /\ segment \in [Generations -> Lines]
    /\ synced \in [Generations -> Nat]
    /\ inode \in [Generations -> Nat]
    /\ acknowledged \in Seq(Records)

LocalTypes ==
    /\ pc \in [Processes -> Places]
    /\ nonce \in [Processes -> 0..MaxNonces]
    /\ tries \in [Processes -> 0..Tries]
    /\ lastGeneration \in [Processes -> 0..MaxNonces]
    /\ judged \in [Processes -> 0..MaxNonces]
    /\ opened \in [Processes -> Nat]
    /\ appended \in [Processes -> 0..MaxRecords]
    /\ verdict \in [Processes -> {"none", "held", "foreign"}]

HealingType == healing \in [Processes -> [generation : 0..MaxNonces, lines : Seq(Records)]]

FileNumbers ==
    /\ \A n \in Nonces : IF n \in Issued THEN generationOf[n] \in 1..n
                                        ELSE generationOf[n] = 0
    /\ generationFile < nextNonce
    /\ \A g \in staged : g < nextNonce
    /\ lockNonce < nextNonce

LocalNumbers(p) ==
    /\ lastGeneration[p] < nextNonce
    /\ nonce[p] < nextNonce
    /\ judged[p] < nextNonce
    /\ pc[p] \in Holding => nonce[p] # Absent
    /\ pc[p] \in {"confirm", "keep"} => judged[p] # Absent
    /\ pc[p] \in {"fence", "write", "sync", "check"} => appended[p] < MaxRecords

NoncesDiffer ==
    \A p, q \in Processes : nonce[p] = nonce[q] /\ nonce[p] # Absent => p = q

LEMMA BaseParts ==
  /\ TypeOK <=> /\ FileTypes /\ JournalTypes /\ LocalTypes /\ HealingType
                /\ lockWritten \in BOOLEAN
  /\ Numbered <=> FileNumbers /\ (\A p \in Processes : LocalNumbers(p)) /\ NoncesDiffer
<1>1. TypeOK <=> /\ FileTypes /\ JournalTypes /\ LocalTypes /\ HealingType
                 /\ lockWritten \in BOOLEAN
  BY Zenon DEF TypeOK, FileTypes, JournalTypes, LocalTypes, HealingType, Lines
<1>2. Numbered <=> FileNumbers /\ (\A p \in Processes : LocalNumbers(p)) /\ NoncesDiffer
  BY Zenon DEF Numbered, FileNumbers, LocalNumbers, NoncesDiffer
<1> QED BY <1>1, <1>2

\* A partial line is no record.
LEMMA TornIsNoRecord == Torn \notin Records
<1> SUFFICES ASSUME Torn \in Records PROVE FALSE
  OBVIOUS
<1>1. PICK n \in Nonces, k \in 1..MaxRecords : Torn = <<n, k>>
  BY DEF Records
<1> QED
  BY <1>1 DEF Torn

\* The good lines of a segment are its lines but a torn last one; when none of
\* them is torn they are records.
LEMMA GoodLines ==
  ASSUME NEW s \in Lines
  PROVE  /\ Good(s) \in Lines
         /\ \A i \in 1..Len(Good(s)) : i \in 1..Len(s) /\ Good(s)[i] = s[i]
         /\ \A i \in 1..Len(s) : s[i] # Torn => i \in 1..Len(Good(s))
         /\ (\A i \in 1..Len(Good(s)) : Good(s)[i] # Torn) => Good(s) \in Seq(Records)
<1>1. CASE EndsTorn(s)
  <2>1. Len(s) \in Nat \ {0} /\ s[Len(s)] = Torn /\ \A i \in 1..Len(s) : s[i] \in Records \cup {Torn}
    BY <1>1 DEF EndsTorn, Lines
  <2>2. Good(s) = SubSeq(s, 1, Len(s) - 1)
    BY <1>1 DEF Good
  <2>3. /\ Good(s) \in Lines /\ Len(Good(s)) = Len(s) - 1
        /\ \A i \in 1..(Len(s) - 1) : Good(s)[i] = s[i]
    <3>1. \A i \in 1..(Len(s) - 1) : s[i] \in Records \cup {Torn}
      BY <2>1
    <3>2. Len(s) - 1 \in Nat
      BY <2>1
    <3>3. SubSeq(s, 1, Len(s) - 1) \in Lines
      BY <3>1, <3>2, SubSeqProperties DEF Lines
    <3> DEFINE n == Len(s) - 1
    <3>a. n \in Nat /\ \A i \in 1..n : s[i] \in Records \cup {Torn}
      BY <3>1, <3>2
    <3>4. Len(SubSeq(s, 1, n)) = n /\ \A i \in 1..n : SubSeq(s, 1, n)[i] = s[i]
      <4> HIDE DEF n
      <4> QED
        BY <3>a, SubSeqProperties
    <3> QED
      BY <2>2, <3>3, <3>4
  <2>4. ASSUME \A i \in 1..Len(Good(s)) : Good(s)[i] # Torn
        PROVE  Good(s) \in Seq(Records)
    <3>1. \A i \in 1..(Len(s) - 1) : s[i] \in Records
      BY <2>1, <2>3, <2>4
    <3> QED
      BY <2>1, <2>2, <3>1, SubSeqProperties
  <2> QED
    BY <2>1, <2>3, <2>4
<1>2. CASE ~EndsTorn(s)
  <2>1. Good(s) = s /\ Len(s) \in Nat /\ \A i \in 1..Len(s) : s[i] \in Records \cup {Torn}
    BY <1>2 DEF Good, Lines
  <2>2. ASSUME \A i \in 1..Len(s) : s[i] # Torn PROVE s \in Seq(Records)
    <3>1. SubSeq(s, 1, Len(s)) \in Seq(Records)
      BY <2>1, <2>2, SubSeqProperties
    <3> QED
      BY <3>1, SubSeqFull DEF Lines
  <2> QED
    BY <2>1, <2>2
<1> QED BY <1>1, <1>2

\* What a line makes of a segment.
Extended(s, line) == IF EndsTorn(s) THEN s ELSE Append(s, line)

LEMMA ExtendedLines ==
  ASSUME NEW s \in Lines, NEW line \in Records \cup {Torn}
  PROVE  /\ Extended(s, line) \in Lines
         /\ Len(Extended(s, line)) \in {Len(s), Len(s) + 1}
         /\ Len(s) \in Nat
         /\ \A i \in 1..Len(s) : Extended(s, line)[i] = s[i]
         /\ Extended(s, line) # <<>>
         /\ ~EndsTorn(s) => /\ Len(Extended(s, line)) = Len(s) + 1
                            /\ Extended(s, line)[Len(s) + 1] = line
<1>1. Len(s) \in Nat /\ (EndsTorn(s) => s # <<>>)
  BY DEF Lines, EndsTorn
<1>2. CASE EndsTorn(s)
  BY <1>1, <1>2 DEF Extended
<1>3. CASE ~EndsTorn(s)
  BY <1>1, <1>3, AppendProperties DEF Extended, Lines
<1> QED BY <1>2, <1>3

\* Every step keeps the types of the shared files ...
LEMMA FileTypesStep ==
  ASSUME TypeOK, Numbered, [Next]_vars
  PROVE  FileTypes'
<1> USE RunDirAssumption DEF FileTypes, Go
<1>a. FileTypes /\ FileNumbers /\ LocalTypes /\ \A p \in Processes : LocalNumbers(p)
  BY BaseParts
<1>1. CASE UNCHANGED <<lockNonce, counter, issue, leaseLive, crashes>>
  BY <1>a, <1>1 DEF counter, issue
<1>2. ASSUME NEW p \in Processes, Create(p) PROVE FileTypes'
  BY <1>a, <1>2, SMTT(30) DEF Create, counter, LocalTypes, LocalNumbers, FileNumbers, Nonces
<1>3. ASSUME NEW p \in Processes, Count(p) PROVE FileTypes'
  BY <1>a, <1>3, HolderFacts DEF Count, lock, issue, Holding, Generations
<1>4. ASSUME NEW p \in Processes, Persist(p) PROVE FileTypes'
  BY <1>a, <1>4 DEF Persist, lock, issue, LocalTypes
<1>5. ASSUME NEW p \in Processes, Break(p) \/ Unlink(p) PROVE FileTypes'
  BY <1>a, <1>5 DEF Break, Unlink, counter, issue, Absent
<1>6. ASSUME NEW p \in Processes, Renew(p) \/ WriteStage(p) PROVE FileTypes'
  BY <1>a, <1>6, HolderFacts DEF Renew, WriteStage, lock, counter, issue, Holding
<1>7. ASSUME NEW p \in Processes, Die(p) PROVE FileTypes'
  BY <1>a, <1>7 DEF Die, lock, counter, issue
<1>8. CASE PowerLoss
  BY <1>a, <1>8 DEF PowerLoss, counter, issue
<1>9. ASSUME NEW n \in Nonces, Lapse(n) PROVE FileTypes'
  BY <1>a, <1>9 DEF Lapse, lock, counter, issue
<1> QED
  BY <1>1, <1>2, <1>3, <1>4, <1>5, <1>6, <1>7, <1>8, <1>9 DEF Next, Acquire, AppendRecord,
     Start, ReadFiles, ReadLock, Fill, Collide, Judge, Confirm, Keep, RepairRead,
     RepairReplace, Open, Fence, Write, Sync, Check, Release, vars, lock, counter

\* ... of the flag that says whether the lock file was written ...
LEMMA WrittenStep ==
  ASSUME TypeOK, Numbered, [Next]_vars
  PROVE  lockWritten' \in BOOLEAN
<1>a. lockWritten \in BOOLEAN
  BY BaseParts
<1>1. CASE lockWritten' = lockWritten
  BY <1>a, <1>1
<1>2. CASE lockWritten' = FALSE
  BY <1>2
<1>3. ASSUME NEW p \in Processes, Fill(p) PROVE lockWritten' \in BOOLEAN
  BY <1>3, Zenon DEF Fill
<1>4. ASSUME NEW p \in Processes, Create(p) \/ Break(p) \/ Unlink(p)
      PROVE  lockWritten' \in BOOLEAN
  BY <1>2, <1>4, Zenon DEF Create, Break, Unlink
<1>5. CASE PowerLoss
  BY <1>a, <1>5, Zenon DEF PowerLoss
<1>6. \/ lockWritten' = lockWritten
      \/ \E p \in Processes : Fill(p) \/ Create(p) \/ Break(p) \/ Unlink(p)
      \/ PowerLoss
  BY ZenonT(60) DEF Next, Acquire, AppendRecord, Start, ReadFiles, ReadLock, Count, Collide,
     Judge, Confirm, Keep, Persist, RepairRead, RepairReplace, Open, Fence, Write, Sync, Check,
     Renew, WriteStage, Release, Die, Lapse, vars, lock
<1> QED
  BY <1>1, <1>3, <1>4, <1>5, <1>6

\* ... of the journal ...
LEMMA JournalTypesStep ==
  ASSUME TypeOK, Numbered, [Next]_vars
  PROVE  JournalTypes'
<1> USE DEF JournalTypes
<1>a. FileTypes /\ JournalTypes /\ LocalTypes /\ HealingType
      /\ \A p \in Processes : LocalNumbers(p)
  BY BaseParts
<1>1. CASE UNCHANGED <<journal, acknowledged>>
  BY <1>a, <1>1 DEF journal
<1>2. ASSUME NEW p \in Processes, RepairReplace(p) PROVE JournalTypes'
  <2> DEFINE g == healing[p].generation
             lines == healing[p].lines
  <2>1. lines \in Seq(Records)
    BY <1>a DEF HealingType
  <2>2. lines \in Lines /\ Len(lines) \in Nat
    BY <2>1, SeqMonotonic DEF Lines
  <2>3. /\ segment' = [segment EXCEPT ![g] = lines]
        /\ synced' = [synced EXCEPT ![g] = Len(lines)]
        /\ inode' = [inode EXCEPT ![g] = @ + 1]
        /\ acknowledged' = acknowledged
    BY <1>2 DEF RepairReplace
  <2> HIDE DEF g, lines
  <2>4. segment' \in [Generations -> Lines]
    BY <1>a, <2>2, <2>3
  <2>5. synced' \in [Generations -> Nat]
    BY <1>a, <2>2, <2>3
  <2>6. inode' \in [Generations -> Nat]
    <3>1. g \in Generations => inode[g] + 1 \in Nat
      BY <1>a
    <3>2. inode \in [Generations -> Nat] /\ inode' = [inode EXCEPT ![g] = inode[g] + 1]
      BY <1>a, <2>3
    <3> QED
      BY <3>1, <3>2
  <2> QED
    BY <1>a, <2>3, <2>4, <2>5, <2>6
<1>3. ASSUME NEW g \in Generations, NEW line \in Records \cup {Torn}, AddLine(g, line)
      PROVE  segment' \in [Generations -> Lines]
  <2>1. segment[g] \in Lines /\ segment' = [segment EXCEPT ![g] = Extended(segment[g], line)]
    BY <1>a, <1>3 DEF AddLine, Extended
  <2>2. Extended(segment[g], line) \in Lines
    BY <2>1, ExtendedLines
  <2> QED
    BY <1>a, <2>1, <2>2
<1>4. ASSUME NEW p \in Processes, pc[p] \in {"write", "check"}
      PROVE  /\ generationOf[nonce[p]] \in Generations
             /\ <<nonce[p], appended[p] + 1>> \in Records
  <2>1. nonce[p] \in Nonces /\ generationOf[nonce[p]] \in Generations
    BY <1>4, HolderFacts DEF Holding
  <2> QED
    BY <1>4, <2>1, RecordFacts
<1>5. ASSUME NEW p \in Processes, Write(p) PROVE JournalTypes'
  <2>1. UNCHANGED <<synced, inode, acknowledged>> /\ pc[p] = "write"
    BY <1>5 DEF Write
  <2>2. \/ AddLine(generationOf[nonce[p]], <<nonce[p], appended[p] + 1>>)
        \/ AddLine(generationOf[nonce[p]], Torn)
        \/ UNCHANGED segment
    BY <1>5 DEF Write
  <2>3. segment' \in [Generations -> Lines]
    BY <1>a, <1>3, <1>4, <2>1, <2>2
  <2> QED
    BY <1>a, <2>1, <2>3
<1>6. ASSUME NEW p \in Processes, Sync(p) PROVE JournalTypes'
  <2>1. generationOf[nonce[p]] \in Generations
    BY <1>6, HolderFacts DEF Sync, Holding
  <2>2. Len(segment[generationOf[nonce[p]]]) \in Nat
    BY <1>a, <2>1, LenProperties DEF Lines
  <2> QED
    BY <1>a, <1>6, <2>1, <2>2 DEF Sync
<1>7. ASSUME NEW p \in Processes, Check(p) PROVE JournalTypes'
  <2>1. /\ UNCHANGED <<segment, synced, inode>> /\ pc[p] = "check"
        /\ \/ acknowledged' = Append(acknowledged, <<nonce[p], appended[p] + 1>>)
           \/ acknowledged' = acknowledged
    BY <1>7 DEF Check, journal
  <2>2. acknowledged' \in Seq(Records)
    <3> DEFINE record == <<nonce[p], appended[p] + 1>>
    <3>1. record \in Records /\ acknowledged \in Seq(Records)
      BY <1>a, <1>4, <2>1
    <3>2. acknowledged' \in {Append(acknowledged, record), acknowledged}
      BY <2>1
    <3> HIDE DEF record
    <3> QED
      BY <3>1, <3>2
  <2> QED
    BY <1>a, <2>1, <2>2
<1>8. ASSUME NEW p \in Processes, Die(p) PROVE JournalTypes'
  <2>1. UNCHANGED <<synced, inode, acknowledged>>
    BY <1>8 DEF Die
  <2>2. \/ pc[p] = "write" /\ AddLine(generationOf[nonce[p]], Torn)
        \/ UNCHANGED segment
    BY <1>8 DEF Die
  <2>3. segment' \in [Generations -> Lines]
    BY <1>a, <1>3, <1>4, <2>2
  <2> QED
    BY <1>a, <2>1, <2>3
<1>9. CASE PowerLoss
  <2>1. UNCHANGED <<synced, inode, acknowledged>>
    BY <1>9 DEF PowerLoss
  <2>2. PICK tail \in {<<>>, <<Torn>>} :
           segment' = [g \in Generations |->
              IF Len(segment[g]) > synced[g]
              THEN SubSeq(segment[g], 1, synced[g]) \o tail
              ELSE segment[g]]
    BY <1>9 DEF PowerLoss
  <2>3. ASSUME NEW g \in Generations, Len(segment[g]) > synced[g]
        PROVE  SubSeq(segment[g], 1, synced[g]) \o tail \in Lines
    <3>1. \A i \in 1..synced[g] : segment[g][i] \in Records \cup {Torn}
      BY <1>a, <2>3 DEF Lines
    <3>2. SubSeq(segment[g], 1, synced[g]) \in Lines
      BY <1>a, <3>1, SubSeqProperties DEF Lines
    <3>3. <<>> \in Lines /\ <<Torn>> \in Lines
      <4>1. Torn \in Records \cup {Torn}
        OBVIOUS
      <4> HIDE DEF Torn
      <4> QED
        BY <4>1 DEF Lines
    <3> QED
      BY <3>2, <3>3, ConcatProperties DEF Lines
  <2> QED
    BY <1>a, <2>1, <2>2, <2>3
<1> QED
  BY <1>1, <1>2, <1>5, <1>6, <1>7, <1>8, <1>9 DEF Next, Acquire, AppendRecord,
     Start, ReadFiles, ReadLock, Create, Fill, Count, Collide, Judge, Confirm, Keep,
     Persist, Break, RepairRead, Open, Fence, Renew, WriteStage, Release, Unlink, Lapse, vars

\* ... of the replacements in progress ...
LEMMA HealingStep ==
  ASSUME TypeOK, Numbered, [Next]_vars
  PROVE  HealingType'
<1> USE DEF HealingType
<1>a. FileTypes /\ JournalTypes /\ HealingType
  BY BaseParts
<1>b. NoHealing \in [generation : 0..MaxNonces, lines : Seq(Records)]
  BY RunDirAssumption DEF NoHealing
<1>1. CASE UNCHANGED healing
  BY <1>a, <1>1
<1>2. ASSUME NEW p \in Processes, healing' = [healing EXCEPT ![p] = NoHealing]
      PROVE  HealingType'
  BY <1>a, <1>b, <1>2
<1>3. ASSUME NEW p \in Processes, RepairRead(p), healing' # healing
      PROVE  HealingType'
  <2> DEFINE g == Largest(NonEmpty)
             s == IF NonEmpty = {} THEN <<>> ELSE segment[g]
             good == Good(s)
             h == [generation |-> g, lines |-> good]
  <2>1. /\ ~ \E i \in 1..Len(good) : good[i] = Torn
        /\ healing' = [healing EXCEPT ![p] = h]
    BY <1>3, Zenon DEF RepairRead
  <2>2. g \in 0..MaxNonces /\ (NonEmpty # {} => g \in Generations)
    BY LargestBelow, RunDirAssumption DEF NonEmpty, Generations
  <2>3. s \in Lines
    BY <1>a, <2>2 DEF JournalTypes, Lines
  <2>4. good \in Seq(Records)
    <3> HIDE DEF s
    <3> QED
      BY <2>1, <2>3, GoodLines
  <2>5. h \in [generation : 0..MaxNonces, lines : Seq(Records)]
    <3> HIDE DEF g, good
    <3> QED
      BY <2>2, <2>4
  <2> HIDE DEF h
  <2> QED
    BY <1>a, <2>1, <2>5
<1> QED
  BY <1>1, <1>2, <1>3, ZenonT(60) DEF Next, Acquire, AppendRecord, Start, RepairReplace,
     ReadFiles, ReadLock, Create, Fill, Count, Collide, Judge, Confirm, Keep,
     Persist, Break, Open, Fence, Write, Sync, Check, Renew, WriteStage, Release, Unlink,
     Die, Lapse, PowerLoss, vars, owning

\* The larger of two numbers is one of them.
LEMMA LargerOfTwo == \A m, n : Larger(m, n) \in {m, n}
  BY DEF Larger

\* ... and of the variables of the processes; what they hold was drawn.
LEMMA LocalStep ==
  ASSUME TypeOK, Numbered, [Next]_vars
  PROVE  LocalTypes' /\ \A q \in Processes : LocalNumbers(q)'
<1> DEFINE Goal == LocalTypes' /\ \A q \in Processes : LocalNumbers(q)'
<1> USE DEF LocalTypes, LocalNumbers
<1>a. FileTypes /\ FileNumbers /\ LocalTypes /\ \A q \in Processes : LocalNumbers(q)
  BY BaseParts
<1>b. /\ nextNonce \in Nat \ {0} /\ MaxNonces \in Nat /\ MaxRecords \in Nat
      /\ Tries \in Nat \ {0} /\ lockNonce \in 0..MaxNonces /\ lockNonce < nextNonce
  BY <1>a, RunDirAssumption DEF FileTypes, FileNumbers
<1>1. CASE UNCHANGED <<pc, nonce, reading, opened, appended, nextNonce>>
  BY <1>a, <1>1 DEF reading
<1>2. ASSUME NEW p \in Processes, Start(p) PROVE Goal
  BY <1>a, <1>b, <1>2 DEF Start, Go, issue, Places, Holding, Absent
<1>3. ASSUME NEW p \in Processes, NEW x \in Places \ {"confirm", "keep"},
             Go(p, x), x \notin Holding,
             lastGeneration' \in [Processes -> 0..MaxNonces],
             \A q \in Processes : lastGeneration'[q] < nextNonce,
             UNCHANGED <<nonce, tries, judged, verdict, opened, appended, nextNonce>>
      PROVE  Goal
  BY <1>a, <1>3 DEF Go, Holding
<1>4. ASSUME NEW p \in Processes, ReadFiles(p) \/ ReadLock(p) \/ Keep(p) PROVE Goal
  <2>1. lastGeneration[p] \in 0..MaxNonces /\ lastGeneration[p] < nextNonce
    BY <1>a
  <2>2. CASE ReadFiles(p)
    <3>1. lastGeneration' = [lastGeneration EXCEPT ![p] = GenerationInFiles]
      BY <2>2 DEF ReadFiles
    <3>2. GenerationInFiles \in 0..MaxNonces /\ GenerationInFiles < nextNonce
      BY FilesFacts
    <3>5. /\ Go(p, "lock")
          /\ UNCHANGED <<nonce, tries, judged, verdict, opened, appended, nextNonce>>
      BY <2>2 DEF ReadFiles, issue, owning
    <3>6. "lock" \in Places \ {"confirm", "keep"} /\ "lock" \notin Holding
      BY DEF Places, Holding
    <3>7. /\ lastGeneration' \in [Processes -> 0..MaxNonces]
          /\ \A q \in Processes : lastGeneration'[q] < nextNonce
      BY <1>a, <3>1, <3>2
    <3> QED
      BY <1>3, <3>5, <3>6, <3>7
  <2>3. CASE ReadLock(p)
    <3> DEFINE m == Larger(lastGeneration[p], GenerationInLock)
    <3>1. lastGeneration' = [lastGeneration EXCEPT ![p] = m]
      BY <2>3 DEF ReadLock
    <3>2. m \in 0..MaxNonces /\ m < nextNonce
      BY <2>1, FilesFacts, LargerOfTwo
    <3> HIDE DEF m
    <3>5. /\ Go(p, "create")
          /\ UNCHANGED <<nonce, tries, judged, verdict, opened, appended, nextNonce>>
      BY <2>3 DEF ReadLock, issue, owning
    <3>6. "create" \in Places \ {"confirm", "keep"} /\ "create" \notin Holding
      BY DEF Places, Holding
    <3>7. /\ lastGeneration' \in [Processes -> 0..MaxNonces]
          /\ \A q \in Processes : lastGeneration'[q] < nextNonce
      BY <1>a, <3>1, <3>2
    <3> QED
      BY <1>3, <3>5, <3>6, <3>7
  <2>4. CASE Keep(p)
    <3> DEFINE m == Larger(Larger(GenerationInFiles, GenerationInLock), generationOf[judged[p]])
    <3>1. lastGeneration' = [lastGeneration EXCEPT ![p] = m]
      BY <2>4 DEF Keep
    <3>2. judged[p] \in Issued /\ judged[p] \in Nonces
      BY <1>a, <1>b, <2>4 DEF Keep, Issued, Nonces, Absent
    <3>3. generationOf[judged[p]] \in 0..MaxNonces /\ generationOf[judged[p]] < nextNonce
      BY <1>a, <1>b, <3>2 DEF FileTypes, FileNumbers, Nonces, Issued
    <3>4. m \in 0..MaxNonces /\ m < nextNonce
      BY <3>3, FilesFacts, LargerOfTwo
    <3> HIDE DEF m
    <3>5. /\ Go(p, "persist")
          /\ UNCHANGED <<nonce, tries, judged, verdict, opened, appended, nextNonce>>
      BY <2>4 DEF Keep, issue, owning
    <3>6. "persist" \in Places \ {"confirm", "keep"} /\ "persist" \notin Holding
      BY DEF Places, Holding
    <3>7. /\ lastGeneration' \in [Processes -> 0..MaxNonces]
          /\ \A q \in Processes : lastGeneration'[q] < nextNonce
      BY <1>a, <3>1, <3>4
    <3> QED
      BY <1>3, <3>5, <3>6, <3>7
  <2> QED
    BY <1>4, <2>2, <2>3, <2>4
<1>5. ASSUME NEW p \in Processes, Create(p) PROVE Goal
  <2>1. /\ nonce' = [nonce EXCEPT ![p] = nextNonce] /\ nextNonce' = nextNonce + 1
        /\ pc' = [pc EXCEPT ![p] = "fill"] /\ nextNonce \in 1..MaxNonces
        /\ UNCHANGED <<reading, opened, appended>>
    BY <1>5 DEF Create, Go, owning, Nonces
  <2>2. nonce' \in [Processes -> 0..MaxNonces]
    BY <1>a, <1>b, <2>1
  <2>3. pc' \in [Processes -> Places]
    BY <1>a, <2>1 DEF Places
  <2>4. \A q \in Processes : LocalNumbers(q)'
    BY <1>a, <1>b, <2>1 DEF reading, Absent
  <2> QED
    BY <1>a, <2>1, <2>2, <2>3, <2>4 DEF reading
\* The process goes on, with the same numbers.
<1>6. ASSUME NEW p \in Processes, NEW x \in Places, Go(p, x),
             x \in Holding => pc[p] \in Holding,
             x \notin {"confirm", "keep"},
             x \in {"fence", "write", "sync", "check"}
                 => pc[p] \in {"fence", "write", "sync", "check"},
             tries' \in [Processes -> 0..Tries],
             verdict' \in [Processes -> {"none", "held", "foreign"}],
             UNCHANGED <<nonce, lastGeneration, judged, opened, appended, nextNonce>>
      PROVE  Goal
  BY <1>a, <1>6 DEF Go
<1>7. ASSUME NEW p \in Processes, Again(p), pc[p] \notin Holding,
             UNCHANGED <<nonce, lastGeneration, judged, opened, appended, nextNonce>>
      PROVE  Goal
  BY <1>a, <1>b, <1>6, <1>7 DEF Again, Go, Places, Holding
<1>8. ASSUME NEW p \in Processes, Judge(p) PROVE Goal
  <2>1. CASE Again(p) /\ UNCHANGED judged
    BY <1>7, <1>8, <2>1 DEF Judge, issue, owning, Holding
  <2>2. CASE (\E why \in {"foreign", "held"} : Refuse(p, why)) /\ UNCHANGED <<tries, judged>>
    BY <1>a, <1>6, <1>8, <2>2, SMTT(30) DEF Judge, Refuse, issue, owning, Holding, Places
  <2>3. CASE /\ lockNonce # Absent
             /\ judged' = [judged EXCEPT ![p] = lockNonce]
             /\ Go(p, "confirm")
             /\ UNCHANGED <<tries, verdict>>
    BY <1>a, <1>b, <1>8, <2>3 DEF Judge, Go, issue, owning, Holding, Places
  <2> QED
    BY <1>8, <2>1, <2>2, <2>3 DEF Judge
<1>9. ASSUME NEW p \in Processes, Confirm(p) PROVE Goal
  <2>1. CASE Again(p)
    BY <1>7, <1>9, <2>1 DEF Confirm, issue, owning, Holding
  <2>2. CASE Go(p, "keep") /\ UNCHANGED <<tries, verdict>>
    BY <1>a, <1>9, <2>2 DEF Confirm, Go, issue, owning, Holding, Places
  <2> QED
    BY <1>9, <2>1, <2>2 DEF Confirm
<1>10. ASSUME NEW p \in Processes, Break(p) \/ Persist(p) \/ Collide(p) PROVE Goal
  <2>1. CASE Break(p)
    BY <1>7, <2>1 DEF Break, issue, owning, Holding
  <2>2. CASE Persist(p)
    BY <1>a, <1>6, <2>2 DEF Persist, Refuse, issue, owning, Holding, Places
  <2>3. CASE Collide(p)
    BY <1>a, <1>6, <2>3 DEF Collide, issue, owning, reading, Holding, Places
  <2> QED
    BY <1>10, <2>1, <2>2, <2>3
<1>11. ASSUME NEW p \in Processes,
              \/ Fill(p) \/ Count(p) \/ RepairRead(p) \/ RepairReplace(p)
              \/ Fence(p) \/ Write(p) \/ Sync(p) \/ Release(p) \/ Unlink(p) \/ Die(p)
       PROVE  Goal
  <2>1. /\ \E x \in Places : Go(p, x) /\ (x \in Holding => pc[p] \in Holding)
                             /\ x \notin {"confirm", "keep"}
                             /\ (x \in {"fence", "write", "sync", "check"}
                                  => pc[p] \in {"fence", "write", "sync", "check"})
        /\ UNCHANGED <<nonce, reading, opened, appended, nextNonce>>
    <3>1. CASE Fill(p) \/ Count(p)
      BY <3>1 DEF Fill, Count, issue, owning, Holding, Places
    <3>2. CASE RepairRead(p) \/ RepairReplace(p)
      BY <3>2 DEF RepairRead, RepairReplace, issue, Holding, Places
    <3>3. CASE Fence(p) \/ Write(p) \/ Sync(p)
      BY <3>3 DEF Fence, Write, Sync, issue, owning, Holding, Places
    <3>4. CASE Release(p) \/ Unlink(p) \/ Die(p)
      BY <3>4 DEF Release, Unlink, Die, issue, owning, Holding, Places
    <3> QED
      BY <1>11, <3>1, <3>2, <3>3, <3>4
  <2> QED
    BY <1>a, <1>6, <2>1 DEF reading
<1>12. ASSUME NEW p \in Processes, Open(p) PROVE Goal
  <2>1. inode[generationOf[nonce[p]]] \in Nat
    BY <1>12, HolderFacts, BaseParts DEF Open, Holding, JournalTypes
  <2>2. /\ opened' = [opened EXCEPT ![p] = inode[generationOf[nonce[p]]]]
        /\ pc' = [pc EXCEPT ![p] = "fence"] /\ pc[p] \in Holding
        /\ UNCHANGED <<nonce, reading, appended, nextNonce>> /\ appended[p] < MaxRecords
    BY <1>12 DEF Open, Go, issue, Holding
  <2>3. opened' \in [Processes -> Nat] /\ pc' \in [Processes -> Places]
    BY <1>a, <2>1, <2>2 DEF Places
  <2> QED
    BY <1>a, <2>2, <2>3 DEF reading
<1>13. ASSUME NEW p \in Processes, Check(p) PROVE Goal
  <2>1. /\ appended' = [appended EXCEPT ![p] = appended[p] + 1]
        /\ pc[p] = "check"
        /\ pc' \in {[pc EXCEPT ![p] = "owner"], [pc EXCEPT ![p] = "leave"]}
        /\ UNCHANGED <<nonce, reading, opened, nextNonce>>
    BY <1>13 DEF Check, Go, issue
  <2>2. appended[p] \in 0..MaxRecords /\ appended[p] < MaxRecords
    BY <1>a, <2>1
  <2>3. appended' \in [Processes -> 0..MaxRecords]
    BY <1>a, <1>b, <2>1, <2>2
  <2>4. pc' \in [Processes -> Places]
    BY <1>a, <2>1 DEF Places
  <2> QED
    BY <1>a, <2>1, <2>3, <2>4 DEF reading, Holding
<1>14. CASE PowerLoss
  BY <1>a, <1>14 DEF PowerLoss, reading, owning, issue, Holding, Places
<1> QED
  BY <1>1, <1>2, <1>4, <1>5, <1>8, <1>9, <1>10, <1>11, <1>12, <1>13, <1>14
     DEF Next, Acquire, AppendRecord, Renew, WriteStage, Lapse, vars, issue, owning

\* Every step keeps the numbers of the shared files below the next nonce ...
LEMMA FileNumbersStep ==
  ASSUME TypeOK, Numbered, [Next]_vars
  PROVE  FileNumbers'
<1> USE DEF FileNumbers
<1>a. FileTypes /\ FileNumbers /\ LocalTypes /\ \A q \in Processes : LocalNumbers(q)
  BY BaseParts
<1>b. nextNonce \in Nat \ {0} /\ MaxNonces \in Nat
  BY <1>a, RunDirAssumption DEF FileTypes
<1>1. CASE UNCHANGED <<lockNonce, counter, issue>>
  BY <1>a, <1>1 DEF counter, issue, Issued
<1>2. ASSUME NEW p \in Processes, Create(p) PROVE FileNumbers'
  <2>1. /\ nextNonce \in 1..MaxNonces /\ nextNonce' = nextNonce + 1 /\ lockNonce' = nextNonce
        /\ generationOf' = [generationOf EXCEPT ![nextNonce] = lastGeneration[p] + 1]
        /\ UNCHANGED <<generationFile, staged>>
    BY <1>2 DEF Create, counter, Nonces
  <2>2. lastGeneration[p] + 1 \in 1..nextNonce
    BY <1>a, <1>b DEF LocalTypes, LocalNumbers
  <2>3. \A n \in Nonces : n # nextNonce => generationOf'[n] = generationOf[n]
                                           /\ (n \in Issued' <=> n \in Issued)
    BY <1>a, <1>b, <2>1 DEF FileTypes, Issued, Nonces
  <2>4. nextNonce \in Issued' /\ generationOf'[nextNonce] = lastGeneration[p] + 1
    BY <1>a, <1>b, <2>1 DEF FileTypes, Issued, Nonces
  <2>5. \A n \in Nonces : IF n \in Issued' THEN generationOf'[n] \in 1..n
                                           ELSE generationOf'[n] = 0
    BY <1>a, <2>2, <2>3, <2>4
  <2>6. generationFile' < nextNonce' /\ lockNonce' < nextNonce'
    BY <1>a, <1>b, <2>1 DEF FileTypes
  <2>7. \A g \in staged' : g < nextNonce'
    BY <1>a, <1>b, <2>1 DEF FileTypes, Generations
  <2> QED
    BY <2>5, <2>6, <2>7
<1>3. ASSUME NEW p \in Processes, Count(p) PROVE FileNumbers'
  BY <1>a, <1>3, HolderFacts DEF Count, lock, issue, Holding, Issued
<1>4. ASSUME NEW p \in Processes, Persist(p) PROVE FileNumbers'
  BY <1>a, <1>4 DEF Persist, lock, issue, LocalNumbers, Issued
<1>5. ASSUME NEW p \in Processes, Break(p) \/ Unlink(p) PROVE FileNumbers'
  BY <1>a, <1>b, <1>5 DEF Break, Unlink, counter, issue, Absent, Issued
<1>6. ASSUME NEW p \in Processes, WriteStage(p) PROVE FileNumbers'
  BY <1>a, <1>6, HolderFacts DEF WriteStage, lock, issue, Holding, Issued
<1> QED
  BY <1>1, <1>2, <1>3, <1>4, <1>5, <1>6, ZenonT(60) DEF Next, Acquire, AppendRecord,
     Start, ReadFiles, ReadLock, Fill, Collide, Judge, Confirm, Keep, RepairRead,
     RepairReplace, Open, Fence, Write, Sync, Check, Renew, Release, Die, Lapse, PowerLoss,
     vars, lock, counter

\* ... and the nonces of the processes apart.
LEMMA NoncesStep ==
  ASSUME TypeOK, Numbered, [Next]_vars
  PROVE  NoncesDiffer'
<1> USE DEF NoncesDiffer
<1>a. NoncesDiffer /\ LocalTypes /\ (\A q \in Processes : LocalNumbers(q)) /\ nextNonce \in Nat
  BY BaseParts, RunDirAssumption DEF FileTypes
<1>1. CASE UNCHANGED nonce
  BY <1>a, <1>1
<1>2. ASSUME NEW p \in Processes, Start(p) PROVE NoncesDiffer'
  <2>1. nonce' = [nonce EXCEPT ![p] = Absent]
    BY <1>2 DEF Start
  <2> QED
    BY <1>a, <2>1 DEF LocalTypes
<1>3. ASSUME NEW p \in Processes, Create(p) PROVE NoncesDiffer'
  <2>1. nonce' = [nonce EXCEPT ![p] = nextNonce]
    BY <1>3 DEF Create
  <2>2. \A q \in Processes : nonce[q] \in Nat /\ nonce[q] < nextNonce
    BY <1>a, RunDirAssumption DEF LocalTypes, LocalNumbers
  <2>3. \A q \in Processes : nonce'[q] = IF q = p THEN nextNonce ELSE nonce[q]
    BY <1>a, <2>1 DEF LocalTypes
  <2> QED
    BY <1>a, <2>2, <2>3
<1> QED
  BY <1>1, <1>2, <1>3 DEF Next, Acquire, AppendRecord,
     ReadFiles, ReadLock, Fill, Count, Collide, Judge, Confirm, Keep, Persist, Break,
     RepairRead, RepairReplace, Open, Fence, Write, Sync, Check, Renew, WriteStage, Release,
     Unlink, Die, Lapse, PowerLoss, vars

LEMMA BaseStep ==
  ASSUME TypeOK, Numbered, [Next]_vars
  PROVE  TypeOK' /\ Numbered'
<1>1. FileTypes' /\ JournalTypes' /\ LocalTypes' /\ HealingType' /\ lockWritten' \in BOOLEAN
  BY FileTypesStep, WrittenStep, JournalTypesStep, HealingStep, LocalStep
<1>2. FileNumbers' /\ (\A q \in Processes : LocalNumbers(q)') /\ NoncesDiffer'
  BY FileNumbersStep, LocalStep, NoncesStep
<1>3. TypeOK'
  BY <1>1, Zenon DEF TypeOK, FileTypes, JournalTypes, LocalTypes, HealingType, Lines
<1>4. Numbered'
  BY <1>2, Zenon DEF Numbered, FileNumbers, LocalNumbers, NoncesDiffer
<1> QED BY <1>3, <1>4

-----------------------------------------------------------------------------
(* Acknowledged lines stay.                                                *)

\* Numbers are never taken back, so generations that are unique after a step
\* were unique before it.
LEMMA DrawnGrows ==
  ASSUME TypeOK, Numbered, [Next]_vars
  PROVE  /\ \A n \in Issued : n \in Issued' /\ generationOf'[n] = generationOf[n]
         /\ Drawn \subseteq Drawn'
         /\ GenerationsUnique' => GenerationsUnique
<1>a. nextNonce \in Nat /\ generationOf \in [Nonces -> 0..MaxNonces]
  BY RunDirAssumption DEF TypeOK
<1>1. \A n \in Issued : n \in Issued' /\ generationOf'[n] = generationOf[n]
  <2>1. CASE UNCHANGED issue
    BY <2>1 DEF issue, Issued
  <2>2. ASSUME NEW p \in Processes, Create(p)
        PROVE  \A n \in Issued : n \in Issued' /\ generationOf'[n] = generationOf[n]
    BY <1>a, <2>2 DEF Create, Issued, Nonces
  <2> QED
    BY <2>1, <2>2, ZenonT(60) DEF Next, Acquire, AppendRecord, Start, ReadFiles, ReadLock, Fill,
       Count, Collide, Judge, Confirm, Keep, Persist, Break, RepairRead, RepairReplace, Open,
       Fence, Write, Sync, Check, Renew, WriteStage, Release, Unlink, Die, Lapse, PowerLoss, vars
<1>2. Drawn \subseteq Drawn'
  BY <1>1 DEF Drawn
<1> QED
  BY <1>1, <1>2 DEF GenerationsUnique

\* The steps that leave the journal alone and take no process to where it would
\* append, replace or have written.
Aside ==
    /\ UNCHANGED <<journal, acknowledged, issue>>
    /\ \A q \in Processes :
          /\ pc'[q] \in Appending => /\ pc[q] \in Appending
                                     /\ nonce'[q] = nonce[q]
                                     /\ appended'[q] = appended[q]
          /\ pc'[q] = "replace" => pc[q] = "replace" /\ healing'[q] = healing[q]
          /\ pc'[q] \in {"fence", "write", "sync", "check"} =>
                /\ opened'[q] = opened[q]
                /\ pc[q] = pc'[q] \/ (pc[q] = "fence" /\ pc'[q] = "write")

\* A torn tail is read, and the lines before it are kept.
ReadsTorn(p) ==
    \E g \in NonEmpty :
        /\ pc[p] = "repair"
        /\ EndsTorn(segment[g])
        /\ pc' = [pc EXCEPT ![p] = "replace"]
        /\ healing' = [healing EXCEPT ![p] = [generation |-> g, lines |-> Good(segment[g])]]
        /\ UNCHANGED <<journal, acknowledged, issue, nonce, opened, appended>>

\* A line is cut off, by an error or by the death of the writer.
Tears(p) ==
    /\ pc[p] = "write"
    /\ AddLine(generationOf[nonce[p]], Torn)
    /\ pc' \in {[pc EXCEPT ![p] = "leave"], [pc EXCEPT ![p] = "out"]}
    /\ UNCHANGED <<synced, inode, acknowledged, issue, nonce, healing, opened, appended>>

Writes(p) ==
    /\ pc[p] = "write"
    /\ opened[p] = inode[generationOf[nonce[p]]]
    /\ AddLine(generationOf[nonce[p]], <<nonce[p], appended[p] + 1>>)
    /\ pc' = [pc EXCEPT ![p] = "sync"]
    /\ UNCHANGED <<synced, inode, acknowledged, issue, nonce, healing, opened, appended>>

Syncs(p) ==
    LET g == generationOf[nonce[p]] IN
    /\ pc[p] = "sync"
    /\ synced' = IF opened[p] = inode[g] THEN [synced EXCEPT ![g] = Len(segment[g])] ELSE synced
    /\ pc' = [pc EXCEPT ![p] = "check"]
    /\ UNCHANGED <<segment, inode, acknowledged, issue, nonce, healing, opened, appended>>

Acknowledges(p) ==
    /\ pc[p] = "check"
    /\ acknowledged' = Append(acknowledged, <<nonce[p], appended[p] + 1>>)
    /\ pc' = [pc EXCEPT ![p] = "owner"]
    /\ appended' = [appended EXCEPT ![p] = @ + 1]
    /\ UNCHANGED <<journal, issue, nonce, healing, opened>>

Unwritten(p) ==
    /\ pc[p] = "write"
    /\ opened[p] # inode[generationOf[nonce[p]]]
    /\ pc' = [pc EXCEPT ![p] = "sync"]
    /\ UNCHANGED <<journal, acknowledged, issue, nonce, healing, opened, appended>>

\* The ways a step can touch the journal.
LEMMA JournalCases ==
  ASSUME TypeOK, [Next]_vars
  PROVE  \/ Aside
         \/ PowerLoss
         \/ \E p \in Processes :
               \/ Create(p) \/ ReadsTorn(p) \/ RepairReplace(p) \/ Open(p)
               \/ Tears(p) \/ Writes(p) \/ Unwritten(p) \/ Syncs(p) \/ Acknowledges(p)
<1> USE DEF Go
<1>a. pc \in [Processes -> Places]
  BY DEF TypeOK
<1>b. Holding \subseteq Places /\ "out" \notin Appending /\ "leave" \notin Appending
      /\ "unlink" \notin Appending
  BY DEF Holding, Places, Appending
<1>1. ASSUME UNCHANGED <<pc, nonce, opened, appended, healing, journal, acknowledged, issue>>
      PROVE  Aside
  BY <1>1 DEF Aside
<1>2. ASSUME NEW p \in Processes, NEW x \in Places \ Appending, Go(p, x),
             UNCHANGED <<journal, acknowledged, issue>>,
             \A q \in Processes \ {p} :
                 /\ nonce'[q] = nonce[q] /\ opened'[q] = opened[q]
                 /\ appended'[q] = appended[q] /\ healing'[q] = healing[q]
      PROVE  Aside
  <2>1. \A q \in Processes : pc'[q] = IF q = p THEN x ELSE pc[q]
    BY <1>a, <1>2
  <2>2. x \notin {"replace", "fence", "write", "sync", "check"}
    BY <1>2 DEF Appending, Holding
  <2> QED
    BY <1>2, <2>1, <2>2 DEF Aside
<1>3. ASSUME NEW p \in Processes, Start(p) PROVE Aside
  <2>1. /\ nonce' = [nonce EXCEPT ![p] = Absent] /\ opened' = [opened EXCEPT ![p] = 0]
        /\ appended' = [appended EXCEPT ![p] = 0] /\ healing' = [healing EXCEPT ![p] = NoHealing]
        /\ Go(p, "files") /\ UNCHANGED <<journal, acknowledged, issue>>
    BY <1>3 DEF Start
  <2>2. "files" \in Places \ Appending
    BY DEF Places, Appending, Holding
  <2>3. \A q \in Processes \ {p} :
                 /\ nonce'[q] = nonce[q] /\ opened'[q] = opened[q]
                 /\ appended'[q] = appended[q] /\ healing'[q] = healing[q]
    BY <2>1 DEF TypeOK
  <2> QED
    BY <1>2, <2>1, <2>2, <2>3
<1>4. ASSUME NEW p \in Processes,
             \/ ReadFiles(p) \/ ReadLock(p) \/ Collide(p) \/ Judge(p) \/ Confirm(p)
             \/ Keep(p) \/ Persist(p) \/ Break(p) \/ Release(p) \/ Unlink(p)
      PROVE  Aside
  <2>1. UNCHANGED <<journal, acknowledged, issue, nonce, owning>>
    BY <1>4 DEF ReadFiles, ReadLock, Collide, Judge, Confirm, Keep, Persist, Break, Release, Unlink
  <2>2. \E x \in Places \ Appending : Go(p, x)
    BY <1>4 DEF ReadFiles, ReadLock, Collide, Judge, Confirm, Keep, Persist, Break, Release,
       Unlink, Again, Refuse, Places, Appending, Holding
  <2> QED
    BY <1>2, <2>1, <2>2 DEF owning
<1>5. ASSUME NEW p \in Processes, Fill(p) \/ Count(p) \/ Fence(p) PROVE Aside
  <2>1. /\ UNCHANGED <<journal, acknowledged, issue, nonce, owning>>
        /\ pc[p] \in {"fill", "count", "fence"}
        /\ \/ pc' = [pc EXCEPT ![p] = "count"]
           \/ pc' = [pc EXCEPT ![p] = "repair"]
           \/ pc' = [pc EXCEPT ![p] = "leave"]
           \/ pc[p] = "fence" /\ pc' = [pc EXCEPT ![p] = "write"]
    BY <1>5 DEF Fill, Count, Fence, issue
  <2> QED
    BY <1>a, <2>1 DEF Aside, owning, Appending, Holding
<1>6. ASSUME NEW p \in Processes, RepairRead(p) PROVE Aside \/ ReadsTorn(p)
  <2>1. UNCHANGED <<journal, acknowledged, issue, nonce, opened, appended>> /\ pc[p] = "repair"
    BY <1>6 DEF RepairRead
  <2>2. CASE UNCHANGED healing /\ (Go(p, "leave") \/ Go(p, "owner"))
    BY <1>a, <2>1, <2>2 DEF Aside, Appending, Holding
  <2>3. CASE ~(UNCHANGED healing /\ (Go(p, "leave") \/ Go(p, "owner")))
    <3> DEFINE g == Largest(NonEmpty)
               s == IF NonEmpty = {} THEN <<>> ELSE segment[g]
    <3>1. /\ EndsTorn(s)
          /\ healing' = [healing EXCEPT ![p] = [generation |-> g, lines |-> Good(s)]]
          /\ Go(p, "replace")
      BY <1>6, <2>3, Zenon DEF RepairRead
    <3>2. NonEmpty # {} /\ s = segment[g]
      BY <3>1 DEF EndsTorn
    <3>3. g \in NonEmpty
      BY <3>2, LargestBelow, RunDirAssumption DEF NonEmpty, Generations
    <3> QED
      BY <2>1, <3>1, <3>2, <3>3 DEF ReadsTorn
  <2> QED
    BY <2>2, <2>3
<1>7. ASSUME NEW p \in Processes, Write(p)
      PROVE  Aside \/ Tears(p) \/ Writes(p) \/ Unwritten(p)
  <2>1. /\ UNCHANGED <<synced, inode, acknowledged, issue, nonce, healing, opened, appended>>
        /\ pc[p] = "write"
    BY <1>7 DEF Write, owning
  <2>2. CASE Go(p, "leave") /\ UNCHANGED segment
    BY <1>2, <1>b, <2>1, <2>2 DEF journal, Places
  <2> QED
    BY <1>7, <2>1, <2>2 DEF Write, Tears, Writes, Unwritten, journal
<1>8. ASSUME NEW p \in Processes, Sync(p) PROVE Aside \/ Syncs(p)
  <2>1. UNCHANGED <<segment, inode, acknowledged, issue, nonce, healing, opened, appended>>
        /\ pc[p] = "sync"
    BY <1>8 DEF Sync, owning
  <2>2. CASE Go(p, "leave") /\ UNCHANGED synced
    BY <1>2, <1>b, <2>1, <2>2 DEF journal, Places
  <2> QED
    BY <1>8, <2>1, <2>2 DEF Sync, Syncs
<1>9. ASSUME NEW p \in Processes, Check(p) PROVE Aside \/ Acknowledges(p)
  <2>1. UNCHANGED <<journal, issue, nonce, healing, opened>> /\ pc[p] = "check"
        /\ appended' = [appended EXCEPT ![p] = @ + 1]
    BY <1>9 DEF Check
  <2>2. CASE Go(p, "leave") /\ UNCHANGED acknowledged
    <3>1. \A q \in Processes \ {p} : appended'[q] = appended[q]
      BY <2>1 DEF TypeOK
    <3> QED
      BY <1>2, <1>b, <2>1, <2>2, <3>1 DEF Places
  <2> QED
    BY <1>9, <2>1, <2>2 DEF Check, Acknowledges
<1>10. ASSUME NEW p \in Processes, Die(p) PROVE Aside \/ Tears(p)
  <2>1. /\ UNCHANGED <<synced, inode, acknowledged, issue, nonce, healing, opened, appended>>
        /\ Go(p, "out")
    BY <1>10 DEF Die, owning
  <2>2. CASE UNCHANGED segment
    BY <1>2, <1>b, <2>1, <2>2 DEF journal, Places
  <2> QED
    BY <1>10, <2>1, <2>2 DEF Die, Tears
<1>11. ASSUME NEW p \in Processes, Renew(p) \/ WriteStage(p) PROVE Aside
  BY <1>1, <1>11 DEF Renew, WriteStage, owning
<1>12. ASSUME NEW n \in Nonces, Lapse(n) PROVE Aside
  BY <1>1, <1>12 DEF Lapse, owning
<1>13. ASSUME UNCHANGED vars PROVE Aside
  BY <1>1, <1>13 DEF vars, owning
<1> QED
  BY <1>3, <1>4, <1>5, <1>6, <1>7, <1>8, <1>9, <1>10, <1>11, <1>12, <1>13
     DEF Next, Acquire, AppendRecord

\* A power loss keeps the synced lines of every segment.
LEMMA PowerLossKeeps ==
  ASSUME TypeOK, SegmentsOwned, PowerLoss, NEW g \in Generations
  PROVE  /\ synced[g] <= Len(segment'[g])
         /\ \A i \in 1..synced[g] : segment'[g][i] = segment[g][i]
         /\ segment[g] = <<>> => segment'[g] = <<>>
<1> DEFINE s == segment[g]
           n == synced[g]
<1>1. s \in Lines /\ n \in Nat /\ n <= Len(s) /\ Len(s) \in Nat
  BY BaseParts, LenProperties DEF JournalTypes, SegmentsOwned, Lines
<1>2. PICK tail \in {<<>>, <<Torn>>} :
         segment'[g] = IF Len(s) > n THEN SubSeq(s, 1, n) \o tail ELSE s
  BY DEF PowerLoss
<1> HIDE DEF s, n
<1>3. CASE Len(s) > n
  <2>1. \A i \in 1..n : s[i] \in Records \cup {Torn}
    BY <1>1 DEF Lines
  <2>2. /\ SubSeq(s, 1, n) \in Lines /\ Len(SubSeq(s, 1, n)) = n
        /\ \A i \in 1..n : SubSeq(s, 1, n)[i] = s[i]
    BY <1>1, <2>1, SubSeqProperties DEF Lines
  <2>3. <<>> \in Lines /\ <<Torn>> \in Lines
    <3>1. Torn \in Records \cup {Torn}
      OBVIOUS
    <3> HIDE DEF Torn
    <3> QED
      BY <3>1 DEF Lines
  <2>4. tail \in Lines /\ Len(tail) \in Nat
    BY <2>3, LenProperties DEF Lines
  <2>5. /\ Len(SubSeq(s, 1, n) \o tail) = n + Len(tail)
        /\ \A i \in 1..n : (SubSeq(s, 1, n) \o tail)[i] = SubSeq(s, 1, n)[i]
    <3> DEFINE u == SubSeq(s, 1, n)
    <3>1. u \in Lines /\ Len(u) = n
      BY <2>2
    <3> HIDE DEF u
    <3>2. Len(u \o tail) = n + Len(tail) /\ \A i \in 1..n : (u \o tail)[i] = u[i]
      <4>1. /\ Len(u \o tail) = Len(u) + Len(tail)
            /\ \A i \in 1..Len(u) + Len(tail) :
                  (u \o tail)[i] = IF i <= Len(u) THEN u[i] ELSE tail[i - Len(u)]
        BY <2>4, <3>1, ConcatProperties DEF Lines
      <4> QED
        BY <1>1, <2>4, <3>1, <4>1
    <3> QED
      BY <3>2 DEF u
  <2>6. s # <<>>
    BY <1>1, <1>3
  <2> QED
    BY <1>1, <1>2, <1>3, <2>2, <2>4, <2>5, <2>6 DEF s, n
<1>4. CASE ~(Len(s) > n)
  BY <1>1, <1>2, <1>4 DEF s, n
<1> QED BY <1>3, <1>4

\* What a writer, torn or not, does to its own segment, and to no other.
LEMMA AddsLine ==
  ASSUME TypeOK, SegmentsOwned, NEW g \in Generations, NEW line \in Records \cup {Torn},
         AddLine(g, line)
  PROVE  /\ \A h \in Generations : h # g => segment'[h] = segment[h]
         /\ segment'[g] = Extended(segment[g], line)
         /\ segment[g] \in Lines /\ Len(segment[g]) \in Nat /\ synced[g] \in Nat
         /\ \A h \in Generations :
               /\ synced[h] <= Len(segment'[h])
               /\ \A i \in 1..synced[h] : segment'[h][i] = segment[h][i]
<1>1. segment \in [Generations -> Lines] /\ synced \in [Generations -> Nat]
  BY BaseParts DEF JournalTypes
<1>2. /\ \A h \in Generations : h # g => segment'[h] = segment[h]
      /\ segment'[g] = Extended(segment[g], line)
  BY <1>1 DEF AddLine, Extended
<1>3. /\ segment[g] \in Lines /\ Len(segment[g]) \in Nat /\ synced[g] \in Nat
      /\ Len(segment'[g]) \in {Len(segment[g]), Len(segment[g]) + 1}
      /\ \A i \in 1..Len(segment[g]) : segment'[g][i] = segment[g][i]
  BY <1>1, <1>2, ExtendedLines
<1>4. \A h \in Generations : synced[h] <= Len(segment[h])
  BY DEF SegmentsOwned
<1> QED
  BY <1>1, <1>2, <1>3, <1>4

\* Every step keeps each segment with a generation that was drawn, and at least
\* as long as what was synced of it.
LEMMA SegmentsStep ==
  ASSUME TypeOK, Numbered, SegmentsOwned, [Next]_vars
  PROVE  SegmentsOwned'
<1> DEFINE Long == \A g \in Generations : synced'[g] <= Len(segment'[g])
           Full == \A g \in Generations : segment'[g] # <<>> => g \in Drawn'
           Repaired == \A p \in Processes : pc'[p] = "replace" => healing'[p].generation \in Drawn'
<1>a. /\ \A g \in Generations : synced[g] <= Len(segment[g])
      /\ \A g \in Generations : segment[g] # <<>> => g \in Drawn
      /\ \A p \in Processes : pc[p] = "replace" => healing[p].generation \in Drawn
      /\ Drawn \subseteq Drawn'
      /\ pc \in [Processes -> Places]
      /\ JournalTypes
  BY DrawnGrows, BaseParts DEF SegmentsOwned, NonEmpty, TypeOK
<1>b. Long /\ Full /\ Repaired => SegmentsOwned'
  BY DEF SegmentsOwned, NonEmpty
<1>1. CASE Aside
  BY <1>1, <1>a, <1>b DEF Aside, journal
<1>2. CASE PowerLoss
  <2>1. Long /\ Full
    BY <1>2, <1>a, PowerLossKeeps DEF PowerLoss
  <2>2. Repaired
    BY <1>2 DEF PowerLoss
  <2> QED
    BY <1>b, <2>1, <2>2
<1>3. ASSUME NEW p \in Processes, Create(p) \/ Open(p) PROVE SegmentsOwned'
  <2>1. UNCHANGED <<journal, healing>>
        /\ (pc' = [pc EXCEPT ![p] = "fill"] \/ pc' = [pc EXCEPT ![p] = "fence"])
    BY <1>3 DEF Create, Open, Go, owning
  <2> QED
    BY <1>a, <1>b, <2>1 DEF journal
<1>4. ASSUME NEW p \in Processes, ReadsTorn(p) PROVE SegmentsOwned'
  <2>1. PICK g \in NonEmpty :
           /\ pc' = [pc EXCEPT ![p] = "replace"]
           /\ healing' = [healing EXCEPT ![p] = [generation |-> g, lines |-> Good(segment[g])]]
           /\ UNCHANGED journal
    BY <1>4 DEF ReadsTorn
  <2>2. g \in Drawn
    BY <1>a DEF NonEmpty
  <2>3. Repaired
    BY <1>a, <2>1, <2>2 DEF TypeOK
  <2> QED
    BY <1>a, <1>b, <2>1, <2>3 DEF journal
<1>5. ASSUME NEW p \in Processes, RepairReplace(p) PROVE SegmentsOwned'
  <2> DEFINE g == healing[p].generation
             lines == healing[p].lines
  <2>1. /\ pc[p] = "replace" /\ pc' = [pc EXCEPT ![p] = "append"]
        /\ segment' = [segment EXCEPT ![g] = lines]
        /\ synced' = [synced EXCEPT ![g] = Len(lines)]
        /\ healing' = [healing EXCEPT ![p] = NoHealing]
    BY <1>5 DEF RepairReplace, Go
  <2>2. g \in Drawn /\ lines \in Seq(Records)
    BY <1>a, <2>1 DEF TypeOK
  <2>3. Repaired
    BY <1>a, <2>1 DEF TypeOK
  <2> HIDE DEF g, lines
  <2>4. Full
    BY <1>a, <2>1, <2>2 DEF JournalTypes
  <2>5. Long
    BY <1>a, <2>1, <2>2 DEF JournalTypes
  <2> QED
    BY <1>b, <2>3, <2>4, <2>5
<1>6. ASSUME NEW p \in Processes, pc[p] \in {"write", "sync", "check"}
      PROVE  /\ generationOf[nonce[p]] \in Generations /\ generationOf[nonce[p]] \in Drawn
             /\ <<nonce[p], appended[p] + 1>> \in Records
  <2>1. nonce[p] \in Nonces /\ generationOf[nonce[p]] \in Generations
        /\ generationOf[nonce[p]] \in Drawn
    BY <1>6, HolderFacts DEF Holding
  <2> QED
    BY <1>6, <2>1, RecordFacts
<1>7. ASSUME NEW p \in Processes, NEW line \in Records \cup {Torn}, pc[p] = "write",
             AddLine(generationOf[nonce[p]], line), UNCHANGED <<synced, healing>>,
             NEW x \in {"leave", "out", "sync"}, pc' = [pc EXCEPT ![p] = x]
      PROVE  SegmentsOwned'
  <2>1. generationOf[nonce[p]] \in Generations /\ generationOf[nonce[p]] \in Drawn
    BY <1>6, <1>7
  <2>2. Long
    BY <1>7, <2>1, AddsLine
  <2>3. Full
    BY <1>7, <1>a, <2>1, AddsLine
  <2>4. Repaired
    BY <1>7, <1>a
  <2> QED
    BY <1>b, <2>2, <2>3, <2>4
<1>8. ASSUME NEW p \in Processes, Tears(p) \/ Writes(p) PROVE SegmentsOwned'
  BY <1>6, <1>7, <1>8 DEF Tears, Writes
<1>9. ASSUME NEW p \in Processes, Syncs(p) PROVE SegmentsOwned'
  <2> DEFINE g == generationOf[nonce[p]]
  <2>1. /\ synced' \in {[synced EXCEPT ![g] = Len(segment[g])], synced}
        /\ pc' = [pc EXCEPT ![p] = "check"]
        /\ UNCHANGED <<segment, healing>>
    BY <1>9 DEF Syncs
  <2>2. \A h \in Generations : Len(segment[h]) \in Nat
    BY <1>a, LenProperties DEF JournalTypes, Lines
  <2>3. Long
    <3> SUFFICES ASSUME NEW h \in Generations PROVE synced'[h] <= Len(segment[h])
      BY <2>1
    <3> HIDE DEF g
    <3>1. synced'[h] \in {synced[h], Len(segment[h])}
      BY <1>a, <2>1 DEF JournalTypes
    <3> QED
      BY <1>a, <2>2, <3>1
  <2> QED
    BY <1>a, <1>b, <2>1, <2>3
<1>10. ASSUME NEW p \in Processes, Unwritten(p) \/ Acknowledges(p) PROVE SegmentsOwned'
  BY <1>10, <1>a, <1>b DEF Unwritten, Acknowledges, journal
<1> QED
  BY JournalCases, <1>1, <1>2, <1>3, <1>4, <1>5, <1>8, <1>9, <1>10

\* A generation that was drawn once has one owner at most.
LEMMA OneOwner ==
  ASSUME TypeOK, Numbered, GenerationsUnique, NEW p \in Processes, NEW q \in Processes,
         pc[p] \in Holding, pc[q] \in Holding, p # q
  PROVE  generationOf[nonce[p]] # generationOf[nonce[q]]
<1>1. nonce[p] \in Issued /\ nonce[q] \in Issued
  BY HolderFacts
<1> QED
  BY <1>1 DEF GenerationsUnique, Numbered

\* What Intact says of one acknowledged line, and that it is a record.
LEMMA AckFacts ==
  ASSUME TypeOK, Numbered, Intact, NEW i \in 1..Len(acknowledged)
  PROVE  /\ acknowledged[i] \in Records
         /\ acknowledged[i][1] \in Issued
         /\ generationOf[acknowledged[i][1]] \in Drawn
         /\ generationOf[acknowledged[i][1]] \in Generations
         /\ Saved(acknowledged[i])
<1>1. acknowledged[i] \in Records
  BY ElementOfSeq DEF TypeOK
<1>2. acknowledged[i][1] \in Issued /\ Saved(acknowledged[i])
  BY DEF Intact, OwnersUndisturbed, AcknowledgedSaved
<1>3. generationOf[acknowledged[i][1]] \in 1..acknowledged[i][1]
  BY <1>2 DEF Numbered, Issued
<1> QED
  BY <1>1, <1>2, <1>3, RunDirAssumption DEF Drawn, Issued, Nonces, Generations

\* An owner that may still append: its segment, and nobody replaces it.
LEMMA WriterFacts ==
  ASSUME TypeOK, Numbered, Intact, NEW q \in Processes, pc[q] \in Appending
  PROVE  /\ pc[q] \in Holding /\ Undisturbed(q)
         /\ nonce[q] \in Issued
         /\ generationOf[nonce[q]] \in Generations /\ generationOf[nonce[q]] \in Drawn
<1>1. pc[q] \in Holding
  BY DEF Appending
<1> QED
  BY <1>1, HolderFacts DEF Intact, OwnersUndisturbed, AcknowledgedSaved

\* The steps that take nothing from the synced lines, replace nothing and leave
\* the acknowledged lines alone keep these safe.
LEMMA SavedStays ==
  ASSUME TypeOK, Numbered, Intact, [Next]_vars,
         \A g \in Generations :
            /\ synced[g] <= synced'[g]
            /\ \A i \in 1..synced[g] : segment'[g][i] = segment[g][i],
         synced' \in [Generations -> Nat],
         \A p \in Processes : pc'[p] = "replace" => pc[p] = "replace" /\ healing'[p] = healing[p],
         UNCHANGED acknowledged
  PROVE  AcknowledgedSaved'
<1> SUFFICES ASSUME NEW i \in 1..Len(acknowledged)
             PROVE  acknowledged[i][1] \in Issued' /\ Saved(acknowledged[i])'
  BY DEF AcknowledgedSaved
<1> DEFINE r == acknowledged[i]
           g == generationOf[r[1]]
<1>1. r[1] \in Issued /\ g \in Generations /\ Saved(r) /\ r[1] \in Issued'
      /\ generationOf'[r[1]] = g
  BY AckFacts, DrawnGrows
<1>2. PICK k \in 1..synced[g] : segment[g][k] = r
  BY <1>1 DEF Saved, InSync
<1>3. k \in 1..synced'[g] /\ segment'[g][k] = r
  BY <1>1, <1>2 DEF TypeOK
<1>4. \A p \in Processes : pc'[p] = "replace" /\ healing'[p].generation = g
          => InLines(r, healing'[p].lines)
  BY <1>1 DEF Saved, Replacing
<1>5. r = acknowledged'[i]
  OBVIOUS
<1> QED
  BY <1>1, <1>3, <1>4, <1>5 DEF Saved, InSync, InLines, Replacing

LEMMA SavedWithoutChange ==
  ASSUME TypeOK, Numbered, Intact, [Next]_vars,
         \A p \in Processes : pc'[p] = "replace" => pc[p] = "replace" /\ healing'[p] = healing[p],
         UNCHANGED <<segment, synced, acknowledged>>
  PROVE  AcknowledgedSaved'
<1>1. synced \in [Generations -> Nat]
  BY DEF TypeOK
<1>2. \A g \in Generations :
         /\ synced[g] <= synced'[g]
         /\ \A i \in 1..synced[g] : segment'[g][i] = segment[g][i]
  BY <1>1
<1> QED
  BY <1>1, <1>2, SavedStays

\* An owner that does not move, whose segment and file stay, is not disturbed by
\* a step that begins no replacement of its segment.
LEMMA StillUndisturbed ==
  ASSUME TypeOK, Numbered, Intact, [Next]_vars, NEW q \in Processes,
         pc[q] \in Appending, pc'[q] = pc[q], nonce'[q] = nonce[q],
         opened'[q] = opened[q], appended'[q] = appended[q],
         segment'[generationOf[nonce[q]]] = segment[generationOf[nonce[q]]],
         synced'[generationOf[nonce[q]]] = synced[generationOf[nonce[q]]],
         inode'[generationOf[nonce[q]]] = inode[generationOf[nonce[q]]],
         \A p \in Processes : pc'[p] = "replace" =>
             \/ pc[p] = "replace" /\ healing'[p] = healing[p]
             \/ healing'[p].generation # generationOf[nonce[q]]
  PROVE  Undisturbed(q)'
<1>1. nonce[q] \in Issued /\ Undisturbed(q) /\ generationOf'[nonce[q]] = generationOf[nonce[q]]
  BY WriterFacts, DrawnGrows
<1> QED
  BY <1>1 DEF Undisturbed, Replacing, InSegment, InSync

\* Drawing a generation of its own, an owner finds no segment and no replacement.
LEMMA CreateIntact ==
  ASSUME TypeOK, Numbered, SegmentsOwned, Intact, GenerationsUnique', [Next]_vars,
         TypeOK', Numbered', NEW p \in Processes, Create(p)
  PROVE  Intact'
<1>1. /\ UNCHANGED <<segment, synced, inode, opened, appended, healing, acknowledged>>
      /\ nonce' = [nonce EXCEPT ![p] = nextNonce]
      /\ pc' = [pc EXCEPT ![p] = "fill"]
      /\ generationOf' = [generationOf EXCEPT ![nextNonce] = lastGeneration[p] + 1]
      /\ nextNonce \in Nonces /\ nextNonce' = nextNonce + 1
  BY DEF Create, Go, journal, owning
<1>2. /\ pc'[p] = "fill" /\ nonce'[p] = nextNonce
      /\ \A q \in Processes \ {p} : pc'[q] = pc[q] /\ nonce'[q] = nonce[q]
  BY <1>1 DEF TypeOK
<1>3. \A q \in Processes : pc'[q] = "replace" => pc[q] = "replace" /\ healing'[q] = healing[q]
  BY <1>1, <1>2
<1>4. AcknowledgedSaved'
  BY <1>1, <1>3, SavedWithoutChange
<1>5. ASSUME NEW q \in Processes \ {p}, pc'[q] \in Appending PROVE Undisturbed(q)'
  BY <1>1, <1>2, <1>3, <1>5, StillUndisturbed
<1>6. Undisturbed(p)'
  <2> DEFINE g == generationOf'[nextNonce]
  <2>1. nextNonce \in Issued' /\ nextNonce \notin Issued
    <3>1. nextNonce \in Nat /\ nextNonce < nextNonce' /\ ~(nextNonce < nextNonce)
      BY <1>1, RunDirAssumption DEF Nonces
    <3> QED
      BY <1>1, <3>1 DEF Issued, Nonces
  <2>2. g \notin Drawn
    <3> SUFFICES ASSUME NEW n \in Issued, generationOf[n] = g PROVE FALSE
      BY DEF Drawn
    <3>1. n \in Issued' /\ generationOf'[n] = g
      BY DrawnGrows
    <3> QED
      BY <2>1, <3>1 DEF GenerationsUnique
  <2>3. g \in Generations
    <3>1. pc'[p] \in Holding
      BY <1>2 DEF Holding
    <3>2. generationOf'[nonce'[p]] \in 1..nonce'[p] /\ nonce'[p] \in Nonces
      BY <1>1, <1>2, <2>1 DEF Numbered
    <3> QED
      BY <1>2, <3>2, RunDirAssumption DEF Generations, Nonces
  <2>4. segment[g] = <<>>
    BY <2>2, <2>3 DEF SegmentsOwned, NonEmpty
  <2>5. \A q \in Processes : ~(pc'[q] = "replace" /\ healing'[q].generation = g)
    BY <1>3, <2>2 DEF SegmentsOwned
  <2> QED
    BY <1>1, <1>2, <2>4, <2>5 DEF Undisturbed, EndsTorn, Replacing
<1> QED
  BY <1>2, <1>4, <1>5, <1>6 DEF Intact, OwnersUndisturbed, AcknowledgedSaved

\* Nobody reads a torn tail in the segment of an owner that may still append, and
\* what is read holds the acknowledged lines.
LEMMA ReadsTornIntact ==
  ASSUME TypeOK, Numbered, SegmentsOwned, Intact, [Next]_vars, NEW p \in Processes, ReadsTorn(p)
  PROVE  Intact'
<1>1. PICK g \in NonEmpty :
         /\ pc[p] = "repair"
         /\ EndsTorn(segment[g])
         /\ pc' = [pc EXCEPT ![p] = "replace"]
         /\ healing' = [healing EXCEPT ![p] = [generation |-> g, lines |-> Good(segment[g])]]
         /\ UNCHANGED <<journal, acknowledged, issue, nonce, opened, appended>>
  BY DEF ReadsTorn
<1> DEFINE good == Good(segment[g])
<1>2. /\ pc'[p] = "replace" /\ healing'[p].generation = g /\ healing'[p].lines = good
      /\ \A q \in Processes \ {p} : pc'[q] = pc[q] /\ healing'[q] = healing[q]
  BY <1>1 DEF TypeOK
<1>3. \A q \in Processes : pc'[q] \in Appending => pc[q] \in Appending
  BY <1>1, <1>2 DEF Appending, Holding
<1>4. ASSUME NEW q \in Processes, pc'[q] \in Appending PROVE Undisturbed(q)'
  <2>1. pc[q] \in Appending /\ Undisturbed(q)
    BY <1>3, <1>4, WriterFacts
  <2>2. g # generationOf[nonce[q]]
    BY <1>1, <2>1 DEF Undisturbed
  <2>3. CASE q # p
    BY <1>1, <1>2, <2>1, <2>2, <2>3, StillUndisturbed DEF journal
  <2>4. CASE q = p
    BY <1>1, <1>2, <2>1, <2>2, <2>4 DEF Undisturbed, Replacing, journal, issue
  <2> QED
    BY <2>3, <2>4
<1>5. ASSUME NEW i \in 1..Len(acknowledged)
      PROVE  acknowledged[i][1] \in Issued' /\ Saved(acknowledged[i])'
  <2> DEFINE r == acknowledged[i]
  <2>1. r \in Records /\ r[1] \in Issued /\ Saved(r)
    BY AckFacts
  <2>2. CASE generationOf[r[1]] = g
    <3>1. PICK k \in 1..synced[g] : segment[g][k] = r
      BY <2>1, <2>2 DEF Saved, InSync
    <3>2. segment[g] \in Lines /\ synced[g] \in Nat /\ synced[g] <= Len(segment[g])
          /\ Len(segment[g]) \in Nat
      BY BaseParts, LenProperties DEF NonEmpty, JournalTypes, SegmentsOwned, Lines
    <3>3. k \in 1..Len(segment[g]) /\ segment[g][k] # Torn
      BY <2>1, <3>1, <3>2, TornIsNoRecord
    <3>4. k \in 1..Len(good) /\ good[k] = r
      BY <3>1, <3>2, <3>3, GoodLines
    <3>5. InLines(r, good)
      BY <3>4 DEF InLines
    <3>6. \A q \in Processes : Replacing(q, g)' => InLines(r, healing'[q].lines)
      BY <1>2, <2>1, <2>2, <3>5 DEF Saved, Replacing
    <3> HIDE DEF good
    <3> QED
      BY <1>1, <2>1, <2>2, <3>6 DEF Saved, InSync, InLines, Replacing, journal, issue, Issued
  <2>3. CASE generationOf[r[1]] # g
    BY <1>1, <1>2, <2>1, <2>3 DEF Saved, InSync, InLines, Replacing, journal, issue, Issued
  <2> QED
    BY <2>2, <2>3
<1> QED
  BY <1>1, <1>4, <1>5 DEF Intact, OwnersUndisturbed, AcknowledgedSaved

\* A replacement replaces a segment nobody appends to, by lines that hold what
\* was acknowledged.
LEMMA ReplaceIntact ==
  ASSUME TypeOK, Numbered, SegmentsOwned, Intact, [Next]_vars,
         NEW p \in Processes, RepairReplace(p)
  PROVE  Intact'
<1> DEFINE g == healing[p].generation
           lines == healing[p].lines
<1>1. /\ pc[p] = "replace" /\ pc' = [pc EXCEPT ![p] = "append"]
      /\ segment' = [segment EXCEPT ![g] = lines]
      /\ synced' = [synced EXCEPT ![g] = Len(lines)]
      /\ inode' = [inode EXCEPT ![g] = @ + 1]
      /\ healing' = [healing EXCEPT ![p] = NoHealing]
      /\ UNCHANGED <<issue, nonce, opened, appended, acknowledged>>
  BY DEF RepairReplace, Go
<1>2. /\ pc'[p] = "append"
      /\ \A q \in Processes \ {p} : pc'[q] = pc[q] /\ healing'[q] = healing[q]
      /\ Replacing(p, g)
  BY <1>1 DEF TypeOK, Replacing
<1>3. g \in Drawn /\ g \in Generations
  <2>1. g \in Drawn /\ \A n \in Issued : n \in Nonces /\ generationOf[n] \in 1..n
    BY <1>1 DEF SegmentsOwned, Numbered, Issued
  <2> QED
    BY <2>1, RunDirAssumption DEF Drawn, Generations, Nonces
<1> HIDE DEF g, lines
<1>4. /\ segment'[g] = lines /\ synced'[g] = Len(lines)
      /\ \A h \in Generations \ {g} : /\ segment'[h] = segment[h]
                                      /\ synced'[h] = synced[h]
                                      /\ inode'[h] = inode[h]
  BY <1>1, <1>3 DEF TypeOK
<1>5. \A q \in Processes : pc'[q] = "replace" => pc[q] = "replace" /\ healing'[q] = healing[q]
  BY <1>2
<1>6. ASSUME NEW q \in Processes, pc'[q] \in Appending PROVE Undisturbed(q)'
  <2>1. pc[q] \in Appending
    BY <1>1, <1>2, <1>6 DEF Appending, Holding
  <2>2. /\ Undisturbed(q) /\ g # generationOf[nonce[q]] /\ generationOf[nonce[q]] \in Generations
    BY <1>2, <2>1, WriterFacts DEF Undisturbed
  <2>3. CASE q # p
    BY <1>1, <1>2, <1>4, <1>5, <2>1, <2>2, <2>3, StillUndisturbed
  <2>4. CASE q = p
    BY <1>1, <1>2, <1>4, <1>5, <2>2, <2>4 DEF Undisturbed, Replacing, issue
  <2> QED
    BY <2>3, <2>4
<1>7. ASSUME NEW i \in 1..Len(acknowledged)
      PROVE  acknowledged[i][1] \in Issued' /\ Saved(acknowledged[i])'
  <2> DEFINE r == acknowledged[i]
             h == generationOf[r[1]]
  <2>1. r[1] \in Issued /\ h \in Generations /\ Saved(r)
    BY AckFacts
  <2>2. \E k \in 1..synced'[h] : segment'[h][k] = r
    <3>1. CASE h = g
      <4>1. InLines(r, lines)
        BY <1>2, <2>1, <3>1 DEF Saved, lines
      <4> QED
        BY <1>4, <3>1, <4>1 DEF InLines
    <3>2. CASE h # g
      BY <1>4, <2>1, <3>2 DEF Saved, InSync
    <3> QED
      BY <3>1, <3>2
  <2>3. \A q \in Processes : pc'[q] = "replace" /\ healing'[q].generation = h
            => InLines(r, healing'[q].lines)
    <3>1. ASSUME NEW q \in Processes, pc'[q] = "replace", healing'[q].generation = h
          PROVE  InLines(r, healing'[q].lines)
      <4>1. Replacing(q, h) /\ healing'[q] = healing[q]
        BY <1>5, <3>1 DEF Replacing
      <4> QED
        BY <2>1, <4>1 DEF Saved
    <3> QED
      BY <3>1
  <2> QED
    BY <1>1, <2>1, <2>2, <2>3 DEF Saved, InSync, InLines, Replacing, issue, Issued
<1> QED
  BY <1>1, <1>6, <1>7 DEF Intact, OwnersUndisturbed, AcknowledgedSaved

\* An owner writes to its own segment only, which no other owner's is.
LEMMA WriteIntact ==
  ASSUME TypeOK, Numbered, SegmentsOwned, Intact, GenerationsUnique, [Next]_vars,
         NEW p \in Processes, Tears(p) \/ Writes(p)
  PROVE  Intact'
<1> DEFINE g == generationOf[nonce[p]]
           record == <<nonce[p], appended[p] + 1>>
<1>1. /\ pc[p] = "write" /\ pc[p] \in Appending
      /\ UNCHANGED <<synced, inode, acknowledged, issue, nonce, healing, opened, appended>>
  BY DEF Tears, Writes, Appending, Holding
<1>2. Undisturbed(p) /\ g \in Generations /\ nonce[p] \in Issued /\ pc[p] \in Holding
  BY <1>1, WriterFacts
<1>3. record \in Records
  BY <1>1, RecordFacts
<1>4. \E line \in {record, Torn} : AddLine(g, line)
  BY DEF Tears, Writes
<1>5. /\ \A h \in Generations : h # g => segment'[h] = segment[h]
      /\ \A h \in Generations : \A i \in 1..synced[h] : segment'[h][i] = segment[h][i]
  BY <1>2, <1>3, <1>4, AddsLine
<1>6. \A q \in Processes \ {p} : pc'[q] = pc[q]
  BY DEF Tears, Writes, TypeOK
<1>7. pc'[p] \in {"leave", "out", "sync"}
  BY DEF Tears, Writes, TypeOK
<1>8. \A q \in Processes : pc'[q] = "replace" => pc[q] = "replace" /\ healing'[q] = healing[q]
  BY <1>1, <1>6, <1>7
<1>9. AcknowledgedSaved'
  <2>1. synced \in [Generations -> Nat]
    BY DEF TypeOK
  <2> QED
    BY <1>1, <1>5, <1>8, <2>1, SavedStays
<1>10. ASSUME NEW q \in Processes \ {p}, pc'[q] \in Appending PROVE Undisturbed(q)'
  <2>1. pc[q] \in Appending /\ generationOf[nonce[q]] \in Generations /\ pc[q] \in Holding
    BY <1>6, <1>10, WriterFacts
  <2>2. generationOf[nonce[q]] # g
    BY <1>2, <1>10, <2>1, OneOwner
  <2> QED
    BY <1>1, <1>5, <1>6, <1>8, <2>1, <2>2, StillUndisturbed
<1>11. ASSUME pc'[p] \in Appending PROVE Undisturbed(p)'
  <2>1. Writes(p) /\ pc'[p] = "sync"
    BY <1>7, <1>11 DEF Tears, Writes, TypeOK, Appending, Holding
  <2>2. AddLine(g, record) /\ ~EndsTorn(segment[g])
    BY <1>2, <2>1 DEF Writes, Undisturbed
  <2> HIDE DEF record
  <2>3. /\ segment'[g] = Extended(segment[g], record)
        /\ segment[g] \in Lines /\ Len(segment[g]) \in Nat
    BY <1>2, <1>3, <2>2, AddsLine
  <2>4. /\ Len(segment'[g]) = Len(segment[g]) + 1
        /\ segment'[g][Len(segment[g]) + 1] = record
    BY <1>3, <2>2, <2>3, ExtendedLines
  <2>5. ~EndsTorn(segment'[g])
    BY <1>3, <2>4, TornIsNoRecord DEF EndsTorn
  <2>6. \E i \in 1..Len(segment'[g]) : segment'[g][i] = record
    BY <2>3, <2>4
  <2> QED
    BY <1>1, <1>2, <1>8, <2>1, <2>5, <2>6 DEF Undisturbed, Replacing, InSegment, issue, record
<1> QED
  BY <1>9, <1>10, <1>11 DEF Intact, OwnersUndisturbed, AcknowledgedSaved

\* What an owner synced is safe; what it acknowledges was synced.
LEMMA AcknowledgeIntact ==
  ASSUME TypeOK, Numbered, SegmentsOwned, Intact, GenerationsUnique, [Next]_vars,
         NEW p \in Processes, Syncs(p) \/ Acknowledges(p)
  PROVE  Intact'
<1> DEFINE g == generationOf[nonce[p]]
           record == <<nonce[p], appended[p] + 1>>
<1>1. /\ pc[p] \in {"sync", "check"} /\ pc[p] \in Appending
      /\ UNCHANGED <<segment, inode, issue, nonce, healing, opened>>
  BY DEF Syncs, Acknowledges, Appending, Holding, journal
<1>2. Undisturbed(p) /\ g \in Generations /\ nonce[p] \in Issued /\ pc[p] \in Holding
  BY <1>1, WriterFacts
<1>3. \A q \in Processes \ {p} : pc'[q] = pc[q] /\ appended'[q] = appended[q]
  BY DEF Syncs, Acknowledges, TypeOK
<1>4. pc'[p] \in {"check", "owner"}
  BY DEF Syncs, Acknowledges, TypeOK
<1>5. \A q \in Processes : pc'[q] = "replace" => pc[q] = "replace" /\ healing'[q] = healing[q]
  BY <1>1, <1>3, <1>4
<1>6. /\ \A h \in Generations : h # g => synced'[h] = synced[h]
      /\ \A h \in Generations : synced[h] <= synced'[h]
      /\ synced' \in [Generations -> Nat]
  <2>1. CASE Syncs(p)
    <3>1. synced' \in {[synced EXCEPT ![g] = Len(segment[g])], synced}
      BY <2>1 DEF Syncs
    <3>2. Len(segment[g]) \in Nat /\ synced[g] <= Len(segment[g])
          /\ synced \in [Generations -> Nat]
      BY <1>2, BaseParts, LenProperties DEF JournalTypes, SegmentsOwned, Lines
    <3> HIDE DEF g
    <3> QED
      BY <1>2, <3>1, <3>2
  <2>2. CASE Acknowledges(p)
    BY <2>2 DEF Acknowledges, journal, TypeOK
  <2> QED
    BY <2>1, <2>2
<1>7. ASSUME NEW q \in Processes \ {p}, pc'[q] \in Appending PROVE Undisturbed(q)'
  <2>1. pc[q] \in Appending /\ generationOf[nonce[q]] \in Generations /\ pc[q] \in Holding
    BY <1>3, <1>7, WriterFacts
  <2>2. generationOf[nonce[q]] # g
    BY <1>2, <1>7, <2>1, OneOwner
  <2> QED
    BY <1>1, <1>3, <1>5, <1>6, <2>1, <2>2, StillUndisturbed
<1>8. CASE Syncs(p)
  <2>1. /\ pc[p] = "sync" /\ pc'[p] = "check" /\ opened[p] = inode[g]
        /\ synced' = [synced EXCEPT ![g] = Len(segment[g])]
        /\ UNCHANGED <<acknowledged, appended>>
    BY <1>2, <1>8 DEF Syncs, Undisturbed, TypeOK
  <2>2. \E k \in 1..synced'[g] : segment'[g][k] = record
    <3>1. synced'[g] = Len(segment[g]) /\ segment'[g] = segment[g]
      BY <1>1, <1>2, <2>1 DEF TypeOK
    <3>2. \E k \in 1..Len(segment[g]) : segment[g][k] = record
      BY <1>2, <2>1 DEF Undisturbed, InSegment
    <3> QED
      BY <3>1, <3>2
  <2>3. Undisturbed(p)'
    BY <1>1, <1>2, <1>5, <2>1, <2>2 DEF Undisturbed, Replacing, InSync, issue
  <2>4. AcknowledgedSaved'
    BY <1>1, <1>5, <1>6, <2>1, SavedStays
  <2> QED
    BY <1>7, <2>3, <2>4 DEF Intact, OwnersUndisturbed, AcknowledgedSaved
<1>9. CASE Acknowledges(p)
  <2>1. /\ pc[p] = "check" /\ pc'[p] = "owner" /\ UNCHANGED synced
        /\ acknowledged' = Append(acknowledged, record)
    BY <1>9 DEF Acknowledges, TypeOK, journal
  <2>2. Undisturbed(p)'
    BY <1>1, <1>2, <1>5, <2>1 DEF Undisturbed, Replacing, issue
  <2>3. ASSUME NEW r, r[1] \in Issued, Saved(r)
        PROVE  /\ r[1] \in Issued'
               /\ \E k \in 1..synced'[generationOf'[r[1]]] : segment'[generationOf'[r[1]]][k] = r
               /\ \A q \in Processes :
                     pc'[q] = "replace" /\ healing'[q].generation = generationOf'[r[1]]
                         => InLines(r, healing'[q].lines)
    BY <1>1, <1>5, <2>1, <2>3 DEF Saved, InSync, Replacing, issue, Issued
  <2>4. record[1] \in Issued /\ Saved(record)
    BY <1>2, <2>1 DEF Undisturbed, Saved
  <2>5. record \in Records
    BY <2>1, RecordFacts
  <2>6. acknowledged \in Seq(Records) /\ Len(acknowledged) \in Nat
    BY LenProperties DEF TypeOK
  <2> HIDE DEF record
  <2>7. /\ Len(acknowledged') = Len(acknowledged) + 1
        /\ acknowledged'[Len(acknowledged) + 1] = record
        /\ \A i \in 1..Len(acknowledged) : acknowledged'[i] = acknowledged[i]
    BY <2>1, <2>5, <2>6, AppendProperties
  <2>8. ASSUME NEW i \in 1..Len(acknowledged')
        PROVE  acknowledged'[i][1] \in Issued' /\ Saved(acknowledged[i])'
    <3>1. i = Len(acknowledged) + 1 \/ i \in 1..Len(acknowledged)
      BY <2>6, <2>7
    <3>2. acknowledged'[i][1] \in Issued /\ Saved(acknowledged'[i])
      BY <2>4, <2>7, <3>1 DEF Intact, OwnersUndisturbed, AcknowledgedSaved
    <3> QED
      BY <2>3, <3>2 DEF Saved, InSync, InLines, Replacing
  <2> QED
    BY <1>7, <2>2, <2>8 DEF Intact, OwnersUndisturbed, AcknowledgedSaved
<1> QED BY <1>8, <1>9

\* Every step keeps what was acknowledged, as long as generations are unique.
LEMMA IntactStep ==
  ASSUME TypeOK, Numbered, SegmentsOwned, GenerationsUnique => Intact,
         TypeOK', Numbered', [Next]_vars
  PROVE  GenerationsUnique' => Intact'
<1> SUFFICES ASSUME GenerationsUnique' PROVE Intact'
  OBVIOUS
<1>a. GenerationsUnique /\ Intact
  BY DrawnGrows
<1>1. CASE Aside
  <2>1. /\ UNCHANGED <<segment, synced, inode, acknowledged, issue>>
        /\ \A q \in Processes : pc'[q] = "replace" => pc[q] = "replace" /\ healing'[q] = healing[q]
    BY <1>1 DEF Aside, journal
  <2>2. AcknowledgedSaved'
    BY <1>a, <2>1, SavedWithoutChange
  <2>3. ASSUME NEW q \in Processes, pc'[q] \in Appending PROVE Undisturbed(q)'
    <3>1. pc[q] \in Appending /\ nonce'[q] = nonce[q] /\ appended'[q] = appended[q]
          /\ Undisturbed(q)
      BY <1>1, <1>a, <2>3, WriterFacts DEF Aside
    <3>2. pc'[q] \in {"fence", "write", "sync", "check"} =>
              /\ opened'[q] = opened[q]
              /\ pc[q] = pc'[q] \/ (pc[q] = "fence" /\ pc'[q] = "write")
      BY <1>1 DEF Aside
    <3> QED
      BY <2>1, <3>1, <3>2 DEF Undisturbed, Replacing, InSegment, InSync, issue
  <2> QED
    BY <2>2, <2>3 DEF Intact, OwnersUndisturbed, AcknowledgedSaved
<1>2. CASE PowerLoss
  <2>1. /\ \A q \in Processes : pc'[q] = "out"
        /\ UNCHANGED <<synced, acknowledged>>
    BY <1>2 DEF PowerLoss
  <2>2. AcknowledgedSaved'
    <3>1. synced \in [Generations -> Nat]
      BY DEF TypeOK
    <3>2. \A g \in Generations :
             /\ synced[g] <= synced'[g]
             /\ \A i \in 1..synced[g] : segment'[g][i] = segment[g][i]
      BY <1>2, <2>1, <3>1, PowerLossKeeps
    <3> QED
      BY <1>a, <2>1, <3>1, <3>2, SavedStays
  <2> QED
    BY <2>1, <2>2 DEF Intact, OwnersUndisturbed, AcknowledgedSaved, Appending, Holding
<1>3. ASSUME NEW p \in Processes, Open(p) PROVE Intact'
  <2>1. /\ opened' = [opened EXCEPT ![p] = inode[generationOf[nonce[p]]]]
        /\ pc[p] \in Appending /\ pc' = [pc EXCEPT ![p] = "fence"]
        /\ UNCHANGED <<segment, synced, inode, acknowledged, issue, nonce, appended, healing>>
    BY <1>3 DEF Open, Go, Appending, Holding, journal
  <2>2. /\ pc'[p] = "fence" /\ opened'[p] = inode[generationOf[nonce[p]]]
        /\ \A q \in Processes \ {p} : pc'[q] = pc[q] /\ opened'[q] = opened[q]
    BY <2>1 DEF TypeOK
  <2>3. \A q \in Processes : pc'[q] = "replace" => pc[q] = "replace" /\ healing'[q] = healing[q]
    BY <2>1, <2>2
  <2>4. AcknowledgedSaved'
    BY <1>a, <2>1, <2>3, SavedWithoutChange
  <2>5. ASSUME NEW q \in Processes \ {p}, pc'[q] \in Appending PROVE Undisturbed(q)'
    BY <1>a, <2>1, <2>2, <2>3, <2>5, StillUndisturbed
  <2>6. Undisturbed(p)'
    <3>1. Undisturbed(p)
      BY <1>a, <2>1, WriterFacts
    <3> QED
      BY <2>1, <2>2, <2>3, <3>1 DEF Undisturbed, Replacing, issue
  <2> QED
    BY <2>4, <2>5, <2>6 DEF Intact, OwnersUndisturbed, AcknowledgedSaved
<1>4. ASSUME NEW p \in Processes, Unwritten(p) PROVE FALSE
  BY <1>a, <1>4, WriterFacts DEF Unwritten, Undisturbed, Appending, Holding
<1> QED
  BY JournalCases, <1>a, <1>1, <1>2, <1>3, <1>4, CreateIntact, ReadsTornIntact, ReplaceIntact,
     WriteIntact, AcknowledgeIntact

\* Intact journals are durable.
LEMMA IntactIsDurable ==
  ASSUME TypeOK, Numbered, SegmentsOwned, GenerationsUnique => Intact
  PROVE  AckedDurable
<1> SUFFICES ASSUME GenerationsUnique, NEW i \in 1..Len(acknowledged)
             PROVE  InSegment(acknowledged[i], generationOf[acknowledged[i][1]])
  BY DEF AckedDurable
<1> DEFINE r == acknowledged[i]
           g == generationOf[r[1]]
<1>1. Saved(r) /\ g \in Generations
  BY AckFacts
<1>2. synced[g] \in Nat /\ Len(segment[g]) \in Nat /\ synced[g] <= Len(segment[g])
  BY <1>1, BaseParts, LenProperties DEF JournalTypes, SegmentsOwned, Lines
<1> QED
  BY <1>1, <1>2 DEF Saved, InSync, InSegment

LEMMA RunDirInit == Init => RunDirInv
<1> SUFFICES ASSUME Init PROVE RunDirInv
  OBVIOUS
<1> USE RunDirAssumption
<1>1. \A n \in Nonces : n \notin Issued
  BY DEF Init, Issued, Nonces
<1>2. FileTypes
  BY DEF Init, FileTypes, Generations, Absent
<1>3. JournalTypes
  BY DEF Init, JournalTypes, Lines
<1>4. LocalTypes
  BY DEF Init, LocalTypes, Places, Absent
<1>5. HealingType
  BY DEF Init, HealingType, NoHealing
<1>6. lockWritten \in BOOLEAN
  BY DEF Init
<1>7. FileNumbers /\ \A p \in Processes : LocalNumbers(p)
  BY <1>1 DEF Init, FileNumbers, LocalNumbers, Holding, Absent
<1>8. NoncesDiffer
  BY DEF Init, NoncesDiffer
<1>9. TypeOK /\ Numbered
  BY <1>2, <1>3, <1>4, <1>5, <1>6, <1>7, <1>8, BaseParts
<1>10. SegmentsOwned
  BY DEF Init, SegmentsOwned, NonEmpty
<1>11. Intact
  BY DEF Init, Intact, OwnersUndisturbed, AcknowledgedSaved, Appending, Holding
<1> QED
  BY <1>9, <1>10, <1>11, IntactIsDurable DEF RunDirInv

\* The types hold, and a line once acknowledged stays in its segment through
\* crashes, power losses, takeovers and repairs, as long as no generation is
\* handed out twice: for any number of processes, tries, locks, records and crashes.
THEOREM RunDirInvariance == Spec => []RunDirInv
<1>1. RunDirInv /\ [Next]_vars => RunDirInv'
  <2> SUFFICES ASSUME RunDirInv, [Next]_vars PROVE RunDirInv'
    OBVIOUS
  <2>1. TypeOK' /\ Numbered'
    BY BaseStep DEF RunDirInv
  <2>2. SegmentsOwned'
    BY SegmentsStep DEF RunDirInv
  <2>3. GenerationsUnique' => Intact'
    BY <2>1, IntactStep DEF RunDirInv
  <2>4. AckedDurable'
    BY <2>1, <2>2, <2>3, IntactIsDurable, PTL
  <2> QED
    BY <2>1, <2>2, <2>3, <2>4 DEF RunDirInv
<1> QED
  BY <1>1, RunDirInit, PTL DEF Spec


===============================================================================

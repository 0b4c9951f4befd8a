-------------------------------- MODULE RunDir --------------------------------
(***************************************************************************)
(* The run directory protocol (src/skills/summon/scripts/_rundir.py): the  *)
(* owner lock, the generation counter and the journal segments that every  *)
(* durable component of the program shares, file step by file step.        *)
(*                                                                         *)
(* Processes of one machine share the directory.  A step here is one file  *)
(* operation: create, read, write, fsync, replace, unlink.  Between any    *)
(* two of them another process may run, the lease may lapse (a suspended   *)
(* process does not renew it), the process may die, and the machine may    *)
(* lose power, which drops what was written and not synced.                *)
(*                                                                         *)
(* An acquisition draws a fresh nonce; the bytes it writes to owner.lock   *)
(* never change, so the nonce stands for them.  A lease is live or lapsed: *)
(* the later of the expiries in the lock and in the nonce's sidecar.       *)
(*                                                                         *)
(* An operator named X_Y, just above operator X, is X with a defect that   *)
(* code could plausibly have; the runs must notice when it replaces X.     *)
(***************************************************************************)
EXTENDS Naturals, Sequences, FiniteSets

CONSTANTS
    Processes,
    Tries,        \* iterations of the loop of acquire_owner (3 in the code)
    MaxNonces,    \* bound: locks created
    MaxRecords,   \* bound: records appended per ownership period
    MaxCrashes    \* bound: process deaths and power losses together

ASSUME RunDirAssumption ==
    /\ Tries \in Nat \ {0}
    /\ MaxNonces \in Nat
    /\ MaxRecords \in Nat
    /\ MaxCrashes \in Nat

Nonces == 1..MaxNonces
Generations == 1..MaxNonces
Absent == 0                       \* no lock, no nonce, no generation
Records == Nonces \X (1..MaxRecords)
Torn == <<>>                      \* a partial line
NoHealing == [generation |-> 0, lines |-> <<>>]

VARIABLES
    lockNonce,      \* whose bytes owner.lock holds, or Absent ...
    lockWritten,    \* ... and whether they were written yet
    generationFile, \* generation.txt
    staged,         \* the N of the files g<N>-<stage>.json
    segment,        \* the lines of journal-g<N>.jsonl
    synced,         \* how many of its lines an fsync covered
    inode,          \* how often that file was replaced by another
    generationOf,   \* per nonce: the generation in the lock's bytes
    leaseLive,      \* the nonces whose lease has not lapsed
    nextNonce,
    \* per process: where it is, and its local variables
    pc, nonce, tries, lastGeneration, judged, opened, appended, healing,
    verdict,        \* how its last acquisition was refused
    acknowledged,   \* history: the appends that returned, in order
    crashes

lock == <<lockNonce, lockWritten>>
counter == <<generationFile, staged>>
journal == <<segment, synced, inode>>
issue == <<generationOf, nextNonce>>
reading == <<tries, lastGeneration, judged, verdict>>
owning == <<opened, appended, healing>>
vars == <<lock, counter, journal, issue, leaseLive, pc, nonce, reading, owning,
          acknowledged, crashes>>

-----------------------------------------------------------------------------

Larger(m, n) == IF m > n THEN m ELSE n
Largest(S) == IF S = {} THEN 0 ELSE CHOOSE n \in S : \A m \in S : m <= n

GenerationInFiles_OffByOne == Larger(generationFile, Largest(staged)) + 1
GenerationInFiles == Larger(generationFile, Largest(staged))
GenerationInLock ==
    IF lockNonce # Absent /\ lockWritten THEN generationOf[lockNonce] ELSE 0

Issued == {n \in Nonces : n < nextNonce}

\* owner_still_current: owner.lock holds exactly our bytes.
StillCurrent_Exists(p) == lockWritten
StillCurrent(p) == lockNonce = nonce[p] /\ lockWritten

EndsTorn(s) == s # <<>> /\ s[Len(s)] = Torn
Good_OneLess(s) == IF EndsTorn(s) THEN SubSeq(s, 1, Len(s) - 2) ELSE s
Good(s) == IF EndsTorn(s) THEN SubSeq(s, 1, Len(s) - 1) ELSE s

\* _segment_generations: zero-byte segments do not count.
NonEmpty == {g \in Generations : segment[g] # <<>>}

Go(p, to) == pc' = [pc EXCEPT ![p] = to]

\* The loop of acquire_owner comes round, or is used up.
Again(p) ==
    IF tries[p] < Tries
    THEN /\ tries' = [tries EXCEPT ![p] = @ + 1]
         /\ Go(p, "files")
         /\ UNCHANGED verdict
    ELSE /\ Go(p, "out")
         /\ verdict' = [verdict EXCEPT ![p] = "held"]
         /\ UNCHANGED tries

Refuse(p, why) ==
    /\ Go(p, "out")
    /\ verdict' = [verdict EXCEPT ![p] = why]

-----------------------------------------------------------------------------
(* acquire_owner *)

Start(p) ==
    /\ pc[p] = "out"
    /\ Go(p, "files")
    /\ tries' = [tries EXCEPT ![p] = 1]
    /\ verdict' = [verdict EXCEPT ![p] = "none"]
    /\ nonce' = [nonce EXCEPT ![p] = Absent]
    /\ lastGeneration' = [lastGeneration EXCEPT ![p] = 0]
    /\ judged' = [judged EXCEPT ![p] = Absent]
    /\ opened' = [opened EXCEPT ![p] = 0]
    /\ appended' = [appended EXCEPT ![p] = 0]
    /\ healing' = [healing EXCEPT ![p] = NoHealing]
    /\ UNCHANGED <<lock, counter, journal, issue, leaseLive, acknowledged, crashes>>

\* _last_generation reads the counter and the stage names, then the lock.
ReadFiles(p) ==
    /\ pc[p] = "files"
    /\ lastGeneration' = [lastGeneration EXCEPT ![p] = GenerationInFiles]
    /\ Go(p, "lock")
    /\ UNCHANGED <<lock, counter, journal, issue, leaseLive, nonce, tries, judged,
                   verdict, owning, acknowledged, crashes>>

ReadLock(p) ==
    /\ pc[p] = "lock"
    /\ lastGeneration' = [lastGeneration EXCEPT ![p] = Larger(@, GenerationInLock)]
    /\ Go(p, "create")
    /\ UNCHANGED <<lock, counter, journal, issue, leaseLive, nonce, tries, judged,
                   verdict, owning, acknowledged, crashes>>

\* O_CREAT | O_EXCL: the file is there, and empty.
Create(p) ==
    /\ pc[p] = "create"
    /\ lockNonce = Absent
    /\ nextNonce \in Nonces
    /\ lockNonce' = nextNonce
    /\ lockWritten' = FALSE
    /\ nextNonce' = nextNonce + 1
    /\ generationOf' = [generationOf EXCEPT ![nextNonce] = lastGeneration[p] + 1]
    /\ leaseLive' = leaseLive \cup {nextNonce}
    /\ nonce' = [nonce EXCEPT ![p] = nextNonce]
    /\ Go(p, "fill")
    /\ UNCHANGED <<counter, journal, reading, owning, acknowledged, crashes>>

\* The bytes go to the file this process created, wherever that is by now.
Fill(p) ==
    /\ pc[p] = "fill"
    /\ lockWritten' = (lockWritten \/ lockNonce = nonce[p])
    /\ Go(p, "count")
    /\ UNCHANGED <<lockNonce, counter, journal, issue, leaseLive, nonce, reading,
                   owning, acknowledged, crashes>>

Count(p) ==
    /\ pc[p] = "count"
    /\ generationFile' = generationOf[nonce[p]]
    /\ Go(p, "repair")
    /\ UNCHANGED <<lock, staged, journal, issue, leaseLive, nonce, reading, owning,
                   acknowledged, crashes>>

\* The lock exists.  (At the bound on locks the attempt ends instead.)
Collide(p) ==
    /\ pc[p] = "create"
    /\ \/ lockNonce # Absent /\ Go(p, "judge")
       \/ lockNonce = Absent /\ nextNonce \notin Nonces /\ Go(p, "out")
    /\ UNCHANGED <<lock, counter, journal, issue, leaseLive, nonce, reading, owning,
                   acknowledged, crashes>>

Judge(p) ==
    /\ pc[p] = "judge"
    /\ \/ /\ lockNonce = Absent
          /\ Again(p)
          /\ UNCHANGED judged
       \/ /\ lockNonce # Absent /\ ~lockWritten
          /\ Refuse(p, "foreign")
          /\ UNCHANGED <<tries, judged>>
       \/ /\ lockNonce \in leaseLive /\ lockWritten
          /\ Refuse(p, "held")
          /\ UNCHANGED <<tries, judged>>
       \/ /\ lockNonce # Absent /\ lockWritten /\ lockNonce \notin leaseLive
          /\ judged' = [judged EXCEPT ![p] = lockNonce]
          /\ Go(p, "confirm")
          /\ UNCHANGED <<tries, verdict>>
    /\ UNCHANGED <<lock, counter, journal, issue, leaseLive, nonce, lastGeneration,
                   owning, acknowledged, crashes>>

\* The same bytes, still lapsed.
Confirm(p) ==
    /\ pc[p] = "confirm"
    /\ IF lockNonce = judged[p] /\ judged[p] \notin leaseLive
       THEN Go(p, "keep") /\ UNCHANGED <<tries, verdict>>
       ELSE Again(p)
    /\ UNCHANGED <<lock, counter, journal, issue, leaseLive, nonce, lastGeneration,
                   judged, owning, acknowledged, crashes>>

\* The broken lock's generation is persisted before the lock goes.
Keep(p) ==
    /\ pc[p] = "keep"
    /\ lastGeneration' = [lastGeneration EXCEPT ![p] =
           Larger(Larger(GenerationInFiles, GenerationInLock), generationOf[judged[p]])]
    /\ Go(p, "persist")
    /\ UNCHANGED <<lock, counter, journal, issue, leaseLive, nonce, tries, judged,
                   verdict, owning, acknowledged, crashes>>

Persist(p) ==
    /\ pc[p] = "persist"
    /\ \/ /\ generationFile' = lastGeneration[p]
          /\ Go(p, "break")
          /\ UNCHANGED verdict
       \/ /\ Refuse(p, "held")     \* the write failed
          /\ UNCHANGED generationFile
    /\ UNCHANGED <<lock, staged, journal, issue, leaseLive, nonce, tries,
                   lastGeneration, judged, owning, acknowledged, crashes>>

\* unlink takes whatever file is there now.
Break(p) ==
    /\ pc[p] = "break"
    /\ lockNonce' = Absent
    /\ lockWritten' = FALSE
    /\ Again(p)
    /\ UNCHANGED <<counter, journal, issue, leaseLive, nonce, lastGeneration, judged,
                   owning, acknowledged, crashes>>

-----------------------------------------------------------------------------
(* journal_repair, which every owner runs before it appends. *)

\* The newest segment is read.  Of a torn tail, the lines before it are kept; a
\* bad line further up is corruption, and the owner gives up.
RepairRead(p) ==
    /\ pc[p] = "repair"
    /\ LET g == Largest(NonEmpty)
           s == IF NonEmpty = {} THEN <<>> ELSE segment[g]
           good == Good(s)
       IN  IF \E i \in 1..Len(good) : good[i] = Torn
           THEN Go(p, "leave") /\ UNCHANGED healing
           ELSE IF EndsTorn(s)
           THEN /\ healing' = [healing EXCEPT ![p] = [generation |-> g, lines |-> good]]
                /\ Go(p, "replace")
           ELSE Go(p, "owner") /\ UNCHANGED healing
    /\ UNCHANGED <<lock, counter, journal, issue, leaseLive, nonce, reading, opened,
                   appended, acknowledged, crashes>>

\* A synced copy replaces the file; the repair is then journalled by an append.
RepairReplace(p) ==
    /\ pc[p] = "replace"
    /\ LET g == healing[p].generation
           lines == healing[p].lines
       IN  /\ segment' = [segment EXCEPT ![g] = lines]
           /\ synced' = [synced EXCEPT ![g] = Len(lines)]
           /\ inode' = [inode EXCEPT ![g] = @ + 1]
    /\ healing' = [healing EXCEPT ![p] = NoHealing]
    /\ Go(p, "append")
    /\ UNCHANGED <<lock, counter, issue, leaseLive, nonce, reading, opened, appended,
                   acknowledged, crashes>>

-----------------------------------------------------------------------------
(* journal_append_encoded.  An error after the first byte poisons the owner: *)
(* it may only leave.                                                         *)

Open(p) ==
    /\ pc[p] \in {"owner", "append"}
    /\ appended[p] < MaxRecords
    /\ opened' = [opened EXCEPT ![p] = inode[generationOf[nonce[p]]]]
    /\ Go(p, "fence")
    /\ UNCHANGED <<lock, counter, journal, issue, leaseLive, nonce, reading, appended,
                   healing, acknowledged, crashes>>

\* The check after the open; the one before it can only fail earlier.
Fence(p) ==
    /\ pc[p] = "fence"
    /\ Go(p, IF StillCurrent(p) THEN "write" ELSE "leave")
    /\ UNCHANGED <<lock, counter, journal, issue, leaseLive, nonce, reading, owning,
                   acknowledged, crashes>>

\* A line goes to the file that was opened.  After a partial line it only makes
\* that line longer.
AddLine(g, line) ==
    segment' = [segment EXCEPT ![g] = IF EndsTorn(@) THEN @ ELSE Append(@, line)]

Write(p) ==
    /\ pc[p] = "write"
    /\ LET g == generationOf[nonce[p]]
           record == <<nonce[p], appended[p] + 1>>
           there == opened[p] = inode[g]
       IN  \/ /\ IF there THEN AddLine(g, record) ELSE UNCHANGED segment
              /\ Go(p, "sync")
           \/ /\ IF there THEN AddLine(g, Torn) ELSE UNCHANGED segment
              /\ Go(p, "leave")
    /\ UNCHANGED <<lock, counter, synced, inode, issue, leaseLive, nonce, reading,
                   owning, acknowledged, crashes>>

Sync(p) ==
    /\ pc[p] = "sync"
    /\ LET g == generationOf[nonce[p]] IN
       \/ /\ synced' = IF opened[p] = inode[g]
                       THEN [synced EXCEPT ![g] = Len(segment[g])]
                       ELSE synced
          /\ Go(p, "check")
       \/ Go(p, "leave") /\ UNCHANGED synced
    /\ UNCHANGED <<lock, counter, segment, inode, issue, leaseLive, nonce, reading,
                   owning, acknowledged, crashes>>

\* The checks after the sync and after the close: only an owner that is still
\* current acknowledges the append.
Check(p) ==
    /\ pc[p] = "check"
    /\ appended' = [appended EXCEPT ![p] = @ + 1]
    /\ IF StillCurrent(p)
       THEN /\ acknowledged' = Append(acknowledged, <<nonce[p], appended[p] + 1>>)
            /\ Go(p, "owner")
       ELSE Go(p, "leave") /\ UNCHANGED acknowledged
    /\ UNCHANGED <<lock, counter, journal, issue, leaseLive, nonce, reading, opened,
                   healing, crashes>>

-----------------------------------------------------------------------------
(* The rest of an ownership period. *)

\* renew_owner writes the sidecar named after our own nonce.
Renew(p) ==
    /\ pc[p] = "owner"
    /\ nonce[p] \notin leaseLive
    /\ StillCurrent(p)
    /\ leaseLive' = leaseLive \cup {nonce[p]}
    /\ UNCHANGED <<lock, counter, journal, issue, pc, nonce, reading, owning,
                   acknowledged, crashes>>

\* A child of the owner writes a stage output, whoever owns the directory now.
WriteStage(p) ==
    /\ pc[p] \in {"owner", "leave"}
    /\ staged' = staged \cup {generationOf[nonce[p]]}
    /\ UNCHANGED <<lock, generationFile, journal, issue, leaseLive, pc, nonce, reading,
                   owning, acknowledged, crashes>>

\* release_owner compares the bytes, then unlinks whatever is there.
Release(p) ==
    /\ pc[p] \in {"owner", "leave"}
    /\ Go(p, IF StillCurrent(p) THEN "unlink" ELSE "out")
    /\ UNCHANGED <<lock, counter, journal, issue, leaseLive, nonce, reading, owning,
                   acknowledged, crashes>>

Unlink(p) ==
    /\ pc[p] = "unlink"
    /\ lockNonce' = Absent
    /\ lockWritten' = FALSE
    /\ Go(p, "out")
    /\ UNCHANGED <<counter, journal, issue, leaseLive, nonce, reading, owning,
                   acknowledged, crashes>>

-----------------------------------------------------------------------------
(* The environment. *)

Lapse(n) ==
    /\ n \in leaseLive
    /\ leaseLive' = leaseLive \ {n}
    /\ UNCHANGED <<lock, counter, journal, issue, pc, nonce, reading, owning,
                   acknowledged, crashes>>

\* A process dies where it stands, a write half done.
Die(p) ==
    /\ crashes < MaxCrashes
    /\ pc[p] # "out"
    /\ crashes' = crashes + 1
    /\ Go(p, "out")
    /\ LET g == generationOf[nonce[p]] IN
       IF pc[p] = "write" /\ opened[p] = inode[g]
       THEN AddLine(g, Torn) \/ UNCHANGED segment
       ELSE UNCHANGED segment
    /\ UNCHANGED <<lock, counter, synced, inode, issue, leaseLive, nonce, reading,
                   owning, acknowledged>>

\* Everybody dies; unsynced lines, and unsynced bytes of the lock, may be lost.
\* A created, renamed or removed name stays.
PowerLoss ==
    /\ crashes < MaxCrashes
    /\ crashes' = crashes + 1
    /\ pc' = [p \in Processes |-> "out"]
    /\ \E tail \in {<<>>, <<Torn>>} :
          segment' = [g \in Generations |->
              IF Len(segment[g]) > synced[g]
              THEN SubSeq(segment[g], 1, synced[g]) \o tail
              ELSE segment[g]]
    /\ lockWritten' \in {lockWritten, FALSE}
    /\ UNCHANGED <<lockNonce, counter, synced, inode, issue, leaseLive, nonce, reading,
                   owning, acknowledged>>

-----------------------------------------------------------------------------

Init ==
    /\ lockNonce = Absent
    /\ lockWritten = FALSE
    /\ generationFile = 0
    /\ staged = {}
    /\ segment = [g \in Generations |-> <<>>]
    /\ synced = [g \in Generations |-> 0]
    /\ inode = [g \in Generations |-> 0]
    /\ generationOf = [n \in Nonces |-> 0]
    /\ leaseLive = {}
    /\ nextNonce = 1
    /\ pc = [p \in Processes |-> "out"]
    /\ nonce = [p \in Processes |-> Absent]
    /\ tries = [p \in Processes |-> 0]
    /\ lastGeneration = [p \in Processes |-> 0]
    /\ judged = [p \in Processes |-> Absent]
    /\ opened = [p \in Processes |-> 0]
    /\ appended = [p \in Processes |-> 0]
    /\ healing = [p \in Processes |-> NoHealing]
    /\ verdict = [p \in Processes |-> "none"]
    /\ acknowledged = <<>>
    /\ crashes = 0

Acquire(p) ==
    \/ Start(p) \/ ReadFiles(p) \/ ReadLock(p) \/ Create(p) \/ Fill(p) \/ Count(p)
    \/ Collide(p) \/ Judge(p) \/ Confirm(p) \/ Keep(p) \/ Persist(p) \/ Break(p)

AppendRecord(p) == Open(p) \/ Fence(p) \/ Write(p) \/ Sync(p) \/ Check(p)

Next ==
    \/ \E p \in Processes :
          \/ Acquire(p)
          \/ RepairRead(p) \/ RepairReplace(p)
          \/ AppendRecord(p)
          \/ Renew(p) \/ WriteStage(p)
          \/ Release(p) \/ Unlink(p)
          \/ Die(p)
    \/ \E n \in Nonces : Lapse(n)
    \/ PowerLoss

Spec == Init /\ [][Next]_vars

-----------------------------------------------------------------------------
(* Properties. *)

Places == {"out", "files", "lock", "create", "fill", "count", "judge", "confirm",
           "keep", "persist", "break", "repair", "replace", "append", "owner", "fence",
           "write", "sync", "check", "leave", "unlink"}

\* Type correctness.
TypeOK ==
    /\ lockNonce \in 0..MaxNonces
    /\ lockWritten \in BOOLEAN
    /\ generationFile \in 0..MaxNonces
    /\ staged \subseteq Generations
    /\ segment \in [Generations -> Seq(Records \cup {Torn})]
    /\ synced \in [Generations -> Nat]
    /\ inode \in [Generations -> Nat]
    /\ generationOf \in [Nonces -> 0..MaxNonces]
    /\ leaseLive \subseteq Nonces
    /\ nextNonce \in 1..(MaxNonces + 1)
    /\ pc \in [Processes -> Places]
    /\ nonce \in [Processes -> 0..MaxNonces]
    /\ tries \in [Processes -> 0..Tries]
    /\ lastGeneration \in [Processes -> 0..MaxNonces]
    /\ judged \in [Processes -> 0..MaxNonces]
    /\ opened \in [Processes -> Nat]
    /\ appended \in [Processes -> 0..MaxRecords]
    /\ healing \in [Processes -> [generation : 0..MaxNonces, lines : Seq(Records)]]
    /\ verdict \in [Processes -> {"none", "held", "foreign"}]
    /\ acknowledged \in Seq(Records)
    /\ crashes \in 0..MaxCrashes

InSegment(r, g) == \E i \in 1..Len(segment[g]) : segment[g][i] = r

\* Generations are what the naming scheme takes them for.
GenerationsUnique ==
    \A m, n \in Issued : generationOf[m] = generationOf[n] => m = n

\* Once an owner has had an append acknowledged, no earlier owner has one
\* acknowledged any more, however long either was suspended and whoever broke
\* which lock: acknowledgements are fenced in the order the locks were created.
AcksFenced ==
    \A i, j \in 1..Len(acknowledged) :
        i < j => acknowledged[i][1] <= acknowledged[j][1]

\* The inductive invariant behind it: the lock, when there is one, is the newest
\* lock ever created, and an empty lock file is nobody's proof of ownership ...
LockNewest ==
    /\ nextNonce \in Nat \ {0}
    /\ lockNonce \in {Absent, nextNonce - 1}
    /\ lockWritten \in BOOLEAN
    /\ lockWritten => lockNonce # Absent
    /\ pc \in [Processes -> Places]
    /\ nonce \in [Processes -> Nat]
    /\ appended \in [Processes -> Nat]
    /\ \A p \in Processes : pc[p] = "fill" => nonce[p] # Absent

\* ... and nothing newer was acknowledged.
FenceInv ==
    /\ LockNewest
    /\ acknowledged \in Seq(Nat \X Nat)
    /\ \A i \in 1..Len(acknowledged) : acknowledged[i][1] < nextNonce
    /\ AcksFenced

\* An acknowledged record stays in its segment through crashes, power losses,
\* takeovers and repairs, as long as no generation is handed out twice.
AckedDurable ==
    GenerationsUnique =>
        \A i \in 1..Len(acknowledged) :
            InSegment(acknowledged[i], generationOf[acknowledged[i][1]])

\* The invariant behind it has three parts.  Every number in use was drawn, and
\* each acquisition holds its own ...
Holding == {"fill", "count", "repair", "replace", "append", "owner", "fence", "write",
            "sync", "check", "leave", "unlink"}

Numbered ==
    /\ \A n \in Nonces : IF n \in Issued THEN generationOf[n] \in 1..n
                                        ELSE generationOf[n] = 0
    /\ generationFile < nextNonce
    /\ \A g \in staged : g < nextNonce
    /\ lockNonce < nextNonce
    /\ \A p \in Processes :
          /\ lastGeneration[p] < nextNonce
          /\ nonce[p] < nextNonce
          /\ judged[p] < nextNonce
          /\ pc[p] \in Holding => nonce[p] # Absent
          /\ pc[p] \in {"confirm", "keep"} => judged[p] # Absent
          /\ pc[p] \in {"fence", "write", "sync", "check"} => appended[p] < MaxRecords
    /\ \A p, q \in Processes : nonce[p] = nonce[q] /\ nonce[p] # Absent => p = q

\* ... a segment belongs to the generation of some acquisition, also while it is
\* being replaced ...
Drawn == {generationOf[n] : n \in Issued}

SegmentsOwned ==
    /\ \A g \in Generations : synced[g] <= Len(segment[g])
    /\ \A g \in NonEmpty : g \in Drawn
    /\ \A p \in Processes : pc[p] = "replace" => healing[p].generation \in Drawn

\* ... and while an owner may still append to a segment nobody replaces it and it
\* has no torn tail, so that the line it acknowledges is in the file it opened;
\* a replacement in progress holds every line acknowledged.
InSync(r, g) == \E i \in 1..synced[g] : segment[g][i] = r
InLines(r, s) == \E i \in 1..Len(s) : s[i] = r

Replacing(p, g) == pc[p] = "replace" /\ healing[p].generation = g
Appending == Holding \ {"leave", "unlink"}

Undisturbed(q) ==
    LET g == generationOf[nonce[q]]
        record == <<nonce[q], appended[q] + 1>>
    IN  /\ ~EndsTorn(segment[g])
        /\ \A p \in Processes : ~Replacing(p, g)
        /\ pc[q] \in {"fence", "write", "sync", "check"} => opened[q] = inode[g]
        /\ pc[q] = "sync" => InSegment(record, g)
        /\ pc[q] = "check" => InSync(record, g)

Saved(r) ==
    LET g == generationOf[r[1]] IN
    /\ InSync(r, g)
    /\ \A p \in Processes : Replacing(p, g) => InLines(r, healing[p].lines)

OwnersUndisturbed == \A q \in Processes : pc[q] \in Appending => Undisturbed(q)

AcknowledgedSaved ==
    \A i \in 1..Len(acknowledged) : acknowledged[i][1] \in Issued /\ Saved(acknowledged[i])

Intact == OwnersUndisturbed /\ AcknowledgedSaved

\* Types, and the durability of acknowledged records.
RunDirInv ==
    /\ TypeOK
    /\ AckedDurable
    /\ Numbered
    /\ SegmentsOwned
    /\ GenerationsUnique => Intact

\* "A deposed owner and its successor hold DIFFERENT generations, so they write
\* different files by construction" (_rundir.py, lines 612-614).
\* (It does not hold, and no run checks it: README, "What was found".)
OneWriterPerSegment ==
    \A g \in Generations : \A i, j \in 1..Len(segment[g]) :
        segment[g][i] # Torn /\ segment[g][j] # Torn =>
            segment[g][i][1] = segment[g][j][1]

\* "At any acquisition at most the single newest segment is torn" (_rundir.py,
\* lines 883-885).
\* (It does not hold, and no run checks it: README, "What was found".)
OnlyNewestTorn ==
    \A g \in NonEmpty : EndsTorn(segment[g]) => g = Largest(NonEmpty)

=============================================================================

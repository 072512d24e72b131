------------------------ MODULE BacklogStore_proofs ------------------------
(***************************************************************************)
(* Proofs about BacklogStore, for any number of tasks and edits.           *)
(*                                                                         *)
(* The argument: the ids of both files together are 1..added, because a    *)
(* task leaves the backlog only when the archive has it already, and the   *)
(* archive is only ever added to.  So one past the highest id is an id     *)
(* nobody has, a task the backlog no longer showed to a reader is in the   *)
(* archive it reads next, and what an archive run is about to keep is what *)
(* the backlog holds but for the tasks the archive has.                    *)
(*                                                                         *)
(* That the two files are one ledger needs more: a task that is in both is *)
(* the same in both.  An edit between an interrupted run and the next one  *)
(* breaks that, so this part assumes PromptRepair.                         *)
(***************************************************************************)
EXTENDS BacklogStore, FiniteSetTheorems, TLAPS

\* The ids in use are the first `added` ones.
IdsAreDense == Everywhere = 1..added

\* An archive run between its writes is about to keep what is not closed, and
\* the archive already has what is.
HalfwayIsSafe == halfway # {} => halfway = {Kept} /\ Moved \subseteq DOMAIN archive

\* The archive holds closed tasks.
ArchiveIsClosed == \A id \in DOMAIN archive : archive[id].closed

\* What a reader of both files will be held to is still there; and what the board
\* has not seen is in the archive, which it reads second.  A query that reads the
\* backlog second has missed what is in the archive only.
ReaderIsBehind ==
  \A r \in reader :
    /\ r.there \subseteq Everywhere
    /\ r.kind = "board" => r.there \ r.seen \subseteq DOMAIN archive
    /\ r.kind = "board" /\ r.over => r.there \subseteq r.seen
    /\ r.kind = "cli" /\ r.over => r.there \ r.seen \subseteq DOMAIN archive

IInv == TypeOK /\ IdsAreDense /\ HalfwayIsSafe /\ ArchiveIsClosed /\ ReaderIsBehind

-----------------------------------------------------------------------------
(* Files.                                                                  *)

\* A file is a function from some ids to tasks, ...
LEMMA FileIsFunction ==
  ASSUME NEW f \in Files
  PROVE  DOMAIN f \subseteq Ids /\ f \in [DOMAIN f -> Task]
BY DEF Files

\* ... and every such function is one.
LEMMA FunctionIsFile ==
  ASSUME NEW ids \in SUBSET Ids, NEW f \in [ids -> Task]
  PROVE  f \in Files
BY DEF Files

\* The next id after the first n is n + 1.
LEMMA NextIdOfDense == ASSUME NEW n \in Nat PROVE NextId(1..n) = n + 1
<1>1. CASE n = 0
  BY <1>1 DEF NextId
<1>2. CASE n # 0
  <2>1. 1..n # {} /\ n \in 1..n /\ \A m \in 1..n : m <= n
    BY <1>2
  <2>2. \A k \in 1..n : (\A m \in 1..n : m <= k) => k = n
    BY <2>1
  <2>3. (CHOOSE k \in 1..n : \A m \in 1..n : m <= k) = n
    BY <2>1, <2>2
  <2>4. NextId(1..n) = 1 + CHOOSE k \in 1..n : \A m \in 1..n : m <= k
    BY <2>1, Zenon DEF NextId
  <2>5. NextId(1..n) = 1 + n
    BY <2>3, <2>4, Zenon
  <2> QED BY <2>5
<1> QED BY <1>1, <1>2

\* What Put() makes of a file.
LEMMA PutIsFile ==
  ASSUME NEW f \in Files, NEW id \in Ids, NEW task \in Task
  PROVE  /\ Put(f, id, task) \in Files
         /\ DOMAIN Put(f, id, task) = DOMAIN f \union {id}
<1>1. DOMAIN f \union {id} \in SUBSET Ids /\ f \in [DOMAIN f -> Task]
  BY FileIsFunction
<1>2. Put(f, id, task) \in [DOMAIN f \union {id} -> Task]
  BY <1>1 DEF Put
<1> QED BY <1>1, <1>2, FunctionIsFile

\* What Overlay() makes of two files.
LEMMA OverlayIsFile ==
  ASSUME NEW low \in Files, NEW high \in Files
  PROVE  /\ Overlay(low, high) \in Files
         /\ DOMAIN Overlay(low, high) = DOMAIN low \union DOMAIN high
         /\ \A i \in DOMAIN high : Overlay(low, high)[i] = high[i]
         /\ \A i \in DOMAIN low \ DOMAIN high : Overlay(low, high)[i] = low[i]
<1>1. /\ DOMAIN low \union DOMAIN high \in SUBSET Ids
      /\ low \in [DOMAIN low -> Task] /\ high \in [DOMAIN high -> Task]
  BY FileIsFunction
<1>2. Overlay(low, high) \in [DOMAIN low \union DOMAIN high -> Task]
  BY <1>1 DEF Overlay
<1>3. Overlay(low, high) \in Files
  BY <1>1, <1>2, FunctionIsFile
<1> QED BY <1>3 DEF Overlay

\* A part of a file is a file.
LEMMA RestrictIsFile ==
  ASSUME NEW f \in Files, NEW ids \in SUBSET DOMAIN f
  PROVE  /\ Restrict(f, ids) \in Files
         /\ DOMAIN Restrict(f, ids) = ids
         /\ \A i \in ids : Restrict(f, ids)[i] = f[i]
<1>1. ids \in SUBSET Ids /\ f \in [DOMAIN f -> Task]
  BY FileIsFunction
<1>2. Restrict(f, ids) \in [ids -> Task]
  BY <1>1 DEF Restrict
<1> QED BY <1>1, <1>2, FunctionIsFile DEF Restrict

-----------------------------------------------------------------------------
(* The inductive invariant.                                                *)

\* Two empty files, nobody at work.
LEMMA InitIInv == Init => IInv
<1> SUFFICES ASSUME Init PROVE IInv
  OBVIOUS
<1>1. DOMAIN live = {} /\ DOMAIN archive = {}
  BY DEF Init
<1>2. <<>> \in [{} -> Task]
  OBVIOUS
<1>3. live \in Files /\ archive \in Files
  BY <1>2, FunctionIsFile DEF Init
<1>4. TypeOK
  <2>1. Cardinality(halfway) <= 1 /\ added \in 0..MaxTasks
    BY FS_EmptySet, StoreAssumption DEF Init
  <2> QED BY <1>3, <2>1 DEF Init, TypeOK
<1>5. IdsAreDense
  BY <1>1 DEF Init, IdsAreDense, Everywhere
<1> QED BY <1>1, <1>4, <1>5 DEF Init, IInv, HalfwayIsSafe, ArchiveIsClosed, ReaderIsBehind

\* An edit of one live task: the ids stay as they are.
LEMMA WriteStep ==
  ASSUME IInv, NEW id \in DOMAIN live, NEW task \in Task, Write(id, task)
  PROVE  IInv'
<1>1. live \in [DOMAIN live -> Task] /\ DOMAIN live \in SUBSET Ids
  BY FileIsFunction DEF IInv, TypeOK
<1>2. live' \in [DOMAIN live -> Task]
  BY <1>1 DEF Write
<1>3. live' \in Files /\ DOMAIN live' = DOMAIN live
  BY <1>1, <1>2, FunctionIsFile
<1>4. halfway = {} /\ UNCHANGED <<archive, halfway, interrupted, added, reader>>
  BY DEF Write, MayEdit, Unlocked
<1>5. Everywhere' = Everywhere
  BY <1>3, <1>4 DEF Everywhere
<1> QED BY <1>3, <1>4, <1>5 DEF IInv, TypeOK, IdsAreDense, HalfwayIsSafe, ArchiveIsClosed, ReaderIsBehind

\* A closed task that is moved is closed in the archive, and stays in the backlog
\* until the second write.
LEMMA ArchiveFirstStep ==
  ASSUME IInv, ArchiveFirst
  PROVE  /\ IInv' /\ DOMAIN archive' = DOMAIN archive \union Moved
         /\ \A id \in DOMAIN archive : archive'[id] = archive[id]
         /\ \A id \in Moved \ DOMAIN archive : archive'[id] = live[id]
<1> USE DEF IInv, TypeOK
<1>1. Moved \in SUBSET DOMAIN live /\ DOMAIN live \ Moved \in SUBSET DOMAIN live
  BY DEF Moved
<1>2. /\ Restrict(live, Moved) \in Files /\ DOMAIN Restrict(live, Moved) = Moved
      /\ \A i \in Moved : Restrict(live, Moved)[i] = live[i]
  BY <1>1, RestrictIsFile
<1>3. /\ archive' \in Files /\ DOMAIN archive' = DOMAIN archive \union Moved
      /\ \A id \in DOMAIN archive : archive'[id] = archive[id]
      /\ \A id \in Moved \ DOMAIN archive : archive'[id] = live[id]
  <2> DEFINE moved == Restrict(live, Moved)
  <2> HIDE DEF moved
  <2>1. archive' = Overlay(moved, archive)
    BY DEF ArchiveFirst, moved
  <2>2. moved \in Files /\ DOMAIN moved = Moved /\ \A i \in Moved : moved[i] = live[i]
    BY <1>2 DEF moved
  <2>3. /\ archive' \in Files /\ DOMAIN archive' = DOMAIN moved \union DOMAIN archive
        /\ \A i \in DOMAIN archive : archive'[i] = archive[i]
        /\ \A i \in DOMAIN moved \ DOMAIN archive : archive'[i] = moved[i]
    BY <2>1, <2>2, OverlayIsFile
  <2> QED BY <2>2, <2>3
<1>4. UNCHANGED <<live, interrupted, added, reader>> /\ Moved' = Moved
  BY DEF ArchiveFirst, Moved
<1>5. Everywhere' = Everywhere
  BY <1>1, <1>3, <1>4 DEF Everywhere
<1>6. halfway' = {Kept} /\ Kept' = Kept /\ Kept \in Files
  BY <1>1, <1>4, RestrictIsFile DEF ArchiveFirst, Kept
<1>7. TypeOK'
  <2>1. Cardinality(halfway') <= 1
    <3>1. Cardinality({Kept}) = 1
      BY FS_Singleton
    <3> QED BY <1>6, <3>1
  <2> QED BY <1>3, <1>4, <1>6, <2>1
<1>8. ArchiveIsClosed'
  BY <1>3 DEF ArchiveIsClosed, Moved
<1>9. ReaderIsBehind'
  BY <1>3, <1>4, <1>5 DEF ReaderIsBehind
<1> QED BY <1>3, <1>4, <1>5, <1>6, <1>7, <1>8, <1>9 DEF IdsAreDense, HalfwayIsSafe

\* The backlog loses what the archive has.
LEMMA ArchiveSecondStep ==
  ASSUME IInv, ArchiveSecond
  PROVE  /\ IInv' /\ DOMAIN live' = DOMAIN live \ Moved
         /\ \A id \in DOMAIN live' : live'[id] = live[id] /\ ~live[id].closed
         /\ Moved \subseteq DOMAIN archive
<1> USE DEF IInv, TypeOK
<1>1. live' = Kept /\ Moved \subseteq DOMAIN archive
  BY DEF ArchiveSecond, HalfwayIsSafe
<1>2. DOMAIN live \ Moved \in SUBSET DOMAIN live
  OBVIOUS
<1>3. /\ live' \in Files /\ DOMAIN live' = DOMAIN live \ Moved
      /\ \A i \in DOMAIN live' : live'[i] = live[i]
  BY <1>1, <1>2, RestrictIsFile DEF Kept
<1>4. \A i \in DOMAIN live' : ~live[i].closed
  BY <1>3 DEF Moved
<1>5. halfway' = {} /\ interrupted' = FALSE /\ UNCHANGED <<archive, added, reader>>
  BY DEF ArchiveSecond
<1>6. Everywhere' = Everywhere
  BY <1>1, <1>3, <1>5 DEF Everywhere, Moved
<1>7. TypeOK'
  <2>1. Cardinality(halfway') <= 1
    BY <1>5, FS_EmptySet
  <2> QED BY <1>3, <1>5, <2>1
<1> QED BY <1>1, <1>3, <1>4, <1>5, <1>6, <1>7 DEF IdsAreDense, HalfwayIsSafe, ArchiveIsClosed, ReaderIsBehind

\* An add takes the id after all of both files.
LEMMA AddStep ==
  ASSUME IInv, Add
  PROVE  /\ IInv' /\ added + 1 \in Ids \ Everywhere
         /\ live' = Put(live, added + 1, NewTask)
<1> USE DEF IInv, TypeOK
<1>1. added + 1 \in Ids /\ added + 1 \in Nat /\ added + 1 \notin Everywhere
  BY StoreAssumption DEF Add, Ids, IdsAreDense
<1>2. live' = Put(live, added + 1, NewTask)
  BY NextIdOfDense, StoreAssumption DEF Add, IdsAreDense
<1>3. NewTask \in Task
  BY StoreAssumption DEF NewTask, Task
<1>4. live' \in Files /\ DOMAIN live' = DOMAIN live \union {added + 1}
  BY <1>1, <1>2, <1>3, PutIsFile
<1>5. halfway = {} /\ added' = added + 1 /\ UNCHANGED <<archive, halfway, interrupted, reader>>
  BY DEF Add, MayEdit, Unlocked
<1>6. Everywhere' = Everywhere \union {added + 1}
  BY <1>4, <1>5 DEF Everywhere
<1>7. IdsAreDense'
  BY <1>5, <1>6, StoreAssumption DEF IdsAreDense
<1>8. TypeOK'
  BY <1>1, <1>4, <1>5, StoreAssumption DEF Ids
<1>9. ReaderIsBehind'
  BY <1>5, <1>6 DEF ReaderIsBehind
<1> QED BY <1>1, <1>2, <1>5, <1>7, <1>8, <1>9 DEF HalfwayIsSafe, ArchiveIsClosed

\* A reader begins or goes on: the files stay as they are.
LEMMA ReaderStep ==
  ASSUME IInv, BoardReads \/ BoardReadsOn \/ CliReads \/ CliReadsOn \/ ForgetRead
  PROVE  IInv'
<1> USE DEF IInv, TypeOK
<1>1. UNCHANGED <<live, archive, halfway, interrupted, added>>
  BY DEF BoardReads, BoardReadsOn, CliReads, CliReadsOn, ForgetRead, StartReading, ReadOn
<1>2. Everywhere' = Everywhere /\ Kept' = Kept /\ Moved' = Moved
  BY <1>1 DEF Everywhere, Kept, Moved
<1>3. DOMAIN live \in SUBSET Ids /\ DOMAIN archive \in SUBSET Ids /\ Everywhere \in SUBSET Ids
  BY FileIsFunction DEF Everywhere
<1>4. TypeOK' /\ ReaderIsBehind'
  <2>1. CASE BoardReads \/ CliReads
    <3>1. PICK kind \in {"board", "cli"}, ids \in SUBSET Ids :
            /\ reader' = {[kind |-> kind, there |-> Everywhere, seen |-> ids, over |-> FALSE]}
            /\ kind = "board" => ids = DOMAIN live
      BY <1>3, <2>1 DEF BoardReads, CliReads, StartReading
    <3> QED BY <1>1, <1>2, <1>3, <3>1 DEF ReaderIsBehind, Everywhere
  <2>2. CASE BoardReadsOn \/ CliReadsOn
    <3>1. PICK r \in reader, ids \in SUBSET Ids :
            /\ reader' = {[r EXCEPT !.seen = @ \union ids, !.over = TRUE]}
            /\ r.kind = "board" => ids = DOMAIN archive
            /\ r.kind = "cli" => ids = DOMAIN live
      BY <1>3, <2>2 DEF BoardReadsOn, CliReadsOn, ReadOn
    <3>2. TypeOK'
      BY <1>1, <1>2, <3>1
    <3>3. /\ r.there \subseteq Everywhere
          /\ r.kind = "board" => r.there \ r.seen \subseteq DOMAIN archive
      BY DEF ReaderIsBehind
    <3>4. r.kind = "cli" => r.there \ (r.seen \union ids) \subseteq DOMAIN archive
      BY <3>1, <3>3 DEF Everywhere
    <3>5. r.kind = "board" => r.there \subseteq r.seen \union ids
      BY <3>1, <3>3
    <3>6. \A q \in reader' : q.kind = r.kind /\ q.there = r.there /\ q.seen = r.seen \union ids
      BY <3>1
    <3> QED BY <1>1, <1>2, <3>2, <3>3, <3>4, <3>5, <3>6 DEF ReaderIsBehind
  <2>3. CASE ForgetRead
    BY <1>1, <2>3 DEF ForgetRead, ReaderIsBehind
  <2> QED BY <2>1, <2>2, <2>3
<1> QED BY <1>1, <1>2, <1>4 DEF IdsAreDense, HalfwayIsSafe, ArchiveIsClosed

\* What the three edits of a task write.
LEMMA EditIsWrite ==
  ASSUME IInv, NEW id \in Ids, Note(id) \/ Close(id) \/ Reopen(id)
  PROVE  id \in DOMAIN live /\ \E task \in Task : Write(id, task)
<1>1. id \in DOMAIN live
  BY DEF Note, Close, Reopen
<1>2. live[id] \in Task
  BY <1>1, FileIsFunction DEF IInv, TypeOK
<1>3. CASE Note(id)
  <2>1. [live[id] EXCEPT !.text = @ + 1] \in Task
    BY <1>2, <1>3, StoreAssumption DEF Note, Task
  <2> QED BY <1>1, <1>3, <2>1 DEF Note
<1>4. CASE Close(id)
  <2>1. [live[id] EXCEPT !.closed = TRUE] \in Task
    BY <1>2 DEF Task
  <2> QED BY <1>1, <1>4, <2>1 DEF Close
<1>5. CASE Reopen(id)
  <2>1. [live[id] EXCEPT !.closed = FALSE] \in Task
    BY <1>2 DEF Task
  <2> QED BY <1>1, <1>5, <2>1 DEF Reopen
<1> QED BY <1>3, <1>4, <1>5

\* Every step keeps the invariant.
LEMMA NextIInv == IInv /\ [Next]_vars => IInv'
<1> SUFFICES ASSUME IInv, [Next]_vars PROVE IInv'
  OBVIOUS
<1>1. CASE Add
  BY <1>1, AddStep
<1>2. ASSUME NEW id \in Ids, Note(id) \/ Close(id) \/ Reopen(id) PROVE IInv'
  BY <1>2, EditIsWrite, WriteStep
<1>3. CASE ArchiveFirst
  BY <1>3, ArchiveFirstStep
<1>4. CASE ArchiveSecond
  BY <1>4, ArchiveSecondStep
<1>5. CASE ArchiveDies
  <2>1. halfway' = {} /\ interrupted' = TRUE /\ UNCHANGED <<live, archive, added, reader>>
    BY <1>5 DEF ArchiveDies
  <2>2. Cardinality(halfway') <= 1
    BY <2>1, FS_EmptySet
  <2>3. TypeOK' /\ Everywhere' = Everywhere
    BY <2>1, <2>2 DEF IInv, TypeOK, Everywhere
  <2> QED BY <2>1, <2>3 DEF IInv, IdsAreDense, HalfwayIsSafe, ArchiveIsClosed, ReaderIsBehind
<1>6. CASE BoardReads \/ BoardReadsOn \/ CliReads \/ CliReadsOn \/ ForgetRead
  BY <1>6, ReaderStep
<1>7. CASE UNCHANGED vars
  BY <1>7 DEF vars, IInv, TypeOK, IdsAreDense, HalfwayIsSafe, ArchiveIsClosed, ReaderIsBehind,
     Everywhere, Kept, Moved
<1> QED BY <1>1, <1>2, <1>3, <1>4, <1>5, <1>6, <1>7 DEF Next

\* The inductive invariant holds in every reachable state.
LEMMA Invariance == Spec => []IInv
<1> QED BY InitIInv, NextIInv, PTL DEF Spec

-----------------------------------------------------------------------------

\* The two files and their readers keep their types.
THEOREM StoreTypes == Spec => []TypeOK
<1>1. IInv => TypeOK BY DEF IInv
<1> QED BY <1>1, Invariance, PTL

\* addTask() gives no id twice and archiveClosedTasks() loses no task, whenever an
\* archive run dies and however often it is repeated.
THEOREM NoneLost == Spec => []NoneLostNoneReissued
<1>1. IInv => NoneLostNoneReissued
  <2> SUFFICES ASSUME IInv PROVE Cardinality(1..added) = added
    BY DEF IInv, IdsAreDense, NoneLostNoneReissued
  <2>1. added \in Nat
    BY StoreAssumption DEF IInv, TypeOK
  <2>2. Cardinality(1..added) = IF 1 > added THEN 0 ELSE added - 1 + 1
    BY <2>1, FS_Interval
  <2> QED BY <2>1, <2>2
<1> QED BY <1>1, Invariance, PTL

\* The board misses no task, though it reads the two files without the lock: it
\* reads the backlog first, and tasks move the way it reads.  A query, which reads them
\* in the other order, misses a task only by an archive run that has moved it: what is
\* still to be done is always listed.
THEOREM ReadersMissLittle == Spec => []ReadersMissOnlyArchived
<1>1. IInv => ReadersMissOnlyArchived
  BY DEF IInv, ReaderIsBehind, ReadersMissOnlyArchived, Seen
<1> QED BY <1>1, Invariance, PTL

\* Nothing that is in the archive is changed or taken out, and all of it is closed;
\* that a task was reopened after an interrupted run changes nothing of that.
THEOREM ArchiveStaysFinal == Spec => ArchiveIsFinal
<1> DEFINE Kept1 == \A id \in DOMAIN archive :
                      archive[id].closed /\ id \in DOMAIN archive' /\ archive'[id] = archive[id]
<1>1. IInv /\ [Next]_vars => [Kept1]_vars
  <2> SUFFICES ASSUME IInv, Next PROVE Kept1
    OBVIOUS
  <2>1. \A id \in DOMAIN archive : archive[id].closed
    BY DEF IInv, ArchiveIsClosed
  <2>2. CASE ArchiveFirst
    BY <2>1, <2>2, ArchiveFirstStep
  <2>3. CASE ~ArchiveFirst
    <3>1. archive' = archive
      BY <2>3 DEF Next, Add, Note, Close, Reopen, Write, ArchiveSecond, ArchiveDies, BoardReads,
         BoardReadsOn, CliReads, CliReadsOn, StartReading, ReadOn, ForgetRead
    <3> QED BY <2>1, <3>1
  <2> QED BY <2>2, <2>3
<1> QED BY <1>1, Invariance, PTL DEF Spec, ArchiveIsFinal

-----------------------------------------------------------------------------
(* The two files are one ledger, if an interrupted archive run is repeated  *)
(* before anything else is written.                                         *)

\* A task in both files is the same in both, and there is one only between the
\* two writes of an archive run.
CopiesAgree ==
  /\ \A id \in DOMAIN live \intersect DOMAIN archive : live[id] = archive[id]
  /\ halfway = {} /\ ~interrupted => DOMAIN live \intersect DOMAIN archive = {}

LInv == IInv /\ CopiesAgree

\* Writes are made to a backlog that shares no task with the archive.
LEMMA WritesAreApart ==
  ASSUME PromptRepair, LInv, MayEdit
  PROVE  /\ DOMAIN live \intersect DOMAIN archive = {}
         /\ halfway = {} /\ ~interrupted
BY DEF LInv, CopiesAgree, MayEdit, Unlocked

\* The steps that leave both files alone.
LEMMA QuietStep ==
  ASSUME ArchiveDies \/ BoardReads \/ BoardReadsOn \/ CliReads \/ CliReadsOn \/ ForgetRead \/ UNCHANGED vars
  PROVE  /\ UNCHANGED <<live, archive>>
         /\ interrupted' = TRUE \/ UNCHANGED <<halfway, interrupted>>
BY DEF ArchiveDies, BoardReads, BoardReadsOn, CliReads, CliReadsOn, StartReading, ReadOn, ForgetRead, vars

\* Copies agree at the start, ...
LEMMA InitCopies == Init => CopiesAgree
BY DEF Init, CopiesAgree

\* ... and after every step.
LEMMA NextCopies == ASSUME PromptRepair PROVE LInv /\ [Next]_vars => CopiesAgree'
<1> SUFFICES ASSUME LInv, [Next]_vars PROVE CopiesAgree'
  OBVIOUS
<1> USE DEF LInv
<1>0. DOMAIN live \subseteq Ids /\ DOMAIN archive \subseteq Ids
  BY FileIsFunction DEF IInv, TypeOK
<1>1. CASE Add
  <2>1. live' = Put(live, added + 1, NewTask) /\ added + 1 \notin Everywhere /\ added + 1 \in Ids
    BY <1>1, AddStep
  <2>2. DOMAIN live' = DOMAIN live \union {added + 1}
    BY <2>1 DEF Put
  <2>3. archive' = archive /\ MayEdit
    BY <1>1 DEF Add
  <2> QED BY <2>1, <2>2, <2>3, WritesAreApart DEF CopiesAgree, Everywhere
<1>2. ASSUME NEW id \in Ids, Note(id) \/ Close(id) \/ Reopen(id) PROVE CopiesAgree'
  <2>1. MayEdit /\ archive' = archive /\ DOMAIN live' = DOMAIN live
    BY <1>2, EditIsWrite DEF Write
  <2> QED BY <2>1, WritesAreApart DEF CopiesAgree
<1>3. CASE ArchiveFirst
  <2>1. live' = live /\ halfway' # {}
    BY <1>3 DEF ArchiveFirst
  <2> QED BY <1>3, <2>1, ArchiveFirstStep DEF CopiesAgree, Moved
<1>4. CASE ArchiveSecond
  <2>1. archive' = archive
    BY <1>4 DEF ArchiveSecond
  <2>2. \A id \in DOMAIN live \intersect DOMAIN archive : id \in Moved
    BY DEF IInv, ArchiveIsClosed, CopiesAgree, Moved
  <2>3. DOMAIN live' \intersect DOMAIN archive' = {}
    BY <1>4, <2>1, <2>2, ArchiveSecondStep
  <2> QED BY <2>3 DEF CopiesAgree
<1>5. CASE ArchiveDies \/ BoardReads \/ BoardReadsOn \/ CliReads \/ CliReadsOn \/ ForgetRead \/ UNCHANGED vars
  BY <1>5, QuietStep DEF CopiesAgree
<1> QED BY <1>1, <1>2, <1>3, <1>4, <1>5 DEF Next

\* The ledger is a file too, with the ids of both.
LEMMA LedgerIsFile ==
  ASSUME TypeOK
  PROVE  /\ ledger \in Files /\ DOMAIN ledger = Everywhere
         /\ \A id \in DOMAIN live : ledger[id] = live[id]
         /\ \A id \in DOMAIN archive \ DOMAIN live : ledger[id] = archive[id]
BY OverlayIsFile DEF TypeOK, ledger, Everywhere

\* A file is what it holds.
LEMMA FilesEqual ==
  ASSUME NEW f \in Files, NEW g \in Files, DOMAIN f = DOMAIN g,
         \A id \in DOMAIN f : f[id] = g[id]
  PROVE  f = g
BY FileIsFunction

\* An edit in the backlog is that edit in the ledger.
LEMMA EditInLedger ==
  ASSUME TypeOK, TypeOK', NEW id \in DOMAIN live, NEW task \in Task, Write(id, task)
  PROVE  id \in DOMAIN ledger /\ ledger[id] = live[id] /\ ledger' = [ledger EXCEPT ![id] = task]
<1>1. live \in [DOMAIN live -> Task]
  BY FileIsFunction DEF TypeOK
<1>2. archive' = archive /\ DOMAIN live' = DOMAIN live /\ live'[id] = task
      /\ \A i \in DOMAIN live \ {id} : live'[i] = live[i]
  BY <1>1 DEF Write
<1>3. /\ ledger \in Files /\ DOMAIN ledger = Everywhere
      /\ \A i \in DOMAIN live : ledger[i] = live[i]
      /\ \A i \in DOMAIN archive \ DOMAIN live : ledger[i] = archive[i]
  BY LedgerIsFile
<1>4. /\ ledger' \in Files /\ DOMAIN ledger' = Everywhere'
      /\ \A i \in DOMAIN live' : ledger'[i] = live'[i]
      /\ \A i \in DOMAIN archive' \ DOMAIN live' : ledger'[i] = archive'[i]
  BY OverlayIsFile DEF TypeOK, ledger, Everywhere
<1> DEFINE edited == [ledger EXCEPT ![id] = task]
<1>5. DOMAIN ledger \in SUBSET Ids /\ ledger \in [DOMAIN ledger -> Task]
  BY <1>3, FileIsFunction
<1>6. /\ edited \in Files /\ DOMAIN edited = DOMAIN ledger /\ edited[id] = task
      /\ \A i \in DOMAIN ledger \ {id} : edited[i] = ledger[i]
  <2>1. id \in DOMAIN ledger
    BY <1>3 DEF Everywhere
  <2>2. edited \in [DOMAIN ledger -> Task]
    BY <1>5
  <2> QED BY <1>5, <2>1, <2>2, FunctionIsFile
<1>7. \A i \in DOMAIN ledger' : ledger'[i] = edited[i]
  BY <1>2, <1>3, <1>4, <1>6 DEF Everywhere
<1>8. DOMAIN ledger' = DOMAIN edited
  BY <1>2, <1>3, <1>4, <1>6 DEF Everywhere
<1>9. ledger' = edited
  <2> HIDE DEF edited
  <2> QED BY <1>4, <1>6, <1>7, <1>8, FilesEqual
<1> QED BY <1>3, <1>9 DEF Everywhere

\* One step of the two files is one step of the ledger, or invisible in it: an
\* archive run, whichever of its writes and however it ends, changes nothing.
LEMMA StepInLedger ==
  ASSUME PromptRepair, LInv, LInv', [Next]_vars
  PROVE  [Ledger!Next]_ledger
<1> USE DEF LInv
<1>0. TypeOK /\ TypeOK'
  BY DEF IInv
<1>1. /\ ledger \in Files /\ DOMAIN ledger = Everywhere
      /\ \A id \in DOMAIN live : ledger[id] = live[id]
      /\ \A id \in DOMAIN archive \ DOMAIN live : ledger[id] = archive[id]
  BY <1>0, LedgerIsFile
<1>2. /\ ledger' \in Files /\ DOMAIN ledger' = Everywhere'
      /\ \A id \in DOMAIN live' : ledger'[id] = live'[id]
      /\ \A id \in DOMAIN archive' \ DOMAIN live' : ledger'[id] = archive'[id]
  BY <1>0, OverlayIsFile DEF TypeOK, ledger, Everywhere
<1>3. CASE Add
  <2>1. live' = Put(live, added + 1, NewTask) /\ added + 1 \in Ids \ Everywhere
    BY <1>3, AddStep
  <2>2. archive' = archive
    BY <1>3 DEF Add
  <2>3. Ledger!NextId(DOMAIN ledger) = added + 1
    <3>1. added \in Nat
      BY <1>0, StoreAssumption DEF TypeOK
    <3>2. NextId(Everywhere) = added + 1
      BY <3>1, NextIdOfDense DEF IInv, IdsAreDense
    <3> QED BY <1>1, <3>2 DEF NextId, Ledger!NextId
  <2>4. ledger' = Ledger!Put(ledger, added + 1, NewTask)
    <3> DEFINE longer == Ledger!Put(ledger, added + 1, NewTask)
    <3>1. longer = Put(ledger, added + 1, NewTask)
      BY DEF Put, Ledger!Put
    <3>2. NewTask \in Task
      BY StoreAssumption DEF NewTask, Task
    <3>3. longer \in Files /\ DOMAIN longer = Everywhere \union {added + 1}
      BY <1>1, <2>1, <3>1, <3>2, PutIsFile
    <3>4. \A id \in DOMAIN longer : longer[id] = IF id = added + 1 THEN NewTask ELSE ledger[id]
      BY <1>1, <3>1 DEF Put
    <3>5. DOMAIN live' = DOMAIN live \union {added + 1}
          /\ \A id \in DOMAIN live' : live'[id] = IF id = added + 1 THEN NewTask ELSE live[id]
      BY <2>1 DEF Put
    <3>6. DOMAIN ledger' = DOMAIN longer /\ \A id \in DOMAIN ledger' : ledger'[id] = longer[id]
      BY <1>1, <1>2, <2>1, <2>2, <3>3, <3>4, <3>5 DEF Everywhere
    <3> HIDE DEF longer
    <3>7. ledger' = longer
      BY <1>2, <3>3, <3>6, FilesEqual
    <3> QED BY <3>7 DEF longer
  <2>5. Ledger!Add
    BY <2>1, <2>3, <2>4 DEF Ledger!Add, Ledger!Ids, Ids, Ledger!NewTask, NewTask
  <2> QED BY <2>5 DEF Ledger!Next
<1>4. ASSUME NEW id \in Ids, Note(id) PROVE Ledger!Next
  <2> DEFINE task == [live[id] EXCEPT !.text = @ + 1]
  <2>1. id \in DOMAIN live /\ live[id].text < MaxText /\ Write(id, task)
    BY <1>4 DEF Note
  <2>2. live[id] \in Task
    BY <1>0, <2>1, FileIsFunction DEF TypeOK
  <2>3. task \in Task
    BY <2>1, <2>2, StoreAssumption DEF Task
  <2>4. id \in DOMAIN ledger /\ ledger[id] = live[id] /\ ledger' = [ledger EXCEPT ![id] = task]
    BY <1>0, <2>1, <2>3, EditInLedger
  <2> QED BY <2>1, <2>4 DEF Ledger!Next, Ledger!Note
<1>5. ASSUME NEW id \in Ids, Close(id) PROVE Ledger!Next
  <2> DEFINE task == [live[id] EXCEPT !.closed = TRUE]
  <2>1. id \in DOMAIN live /\ ~live[id].closed /\ Write(id, task)
    BY <1>5 DEF Close
  <2>2. live[id] \in Task
    BY <1>0, <2>1, FileIsFunction DEF TypeOK
  <2>3. task \in Task
    BY <2>2 DEF Task
  <2>4. id \in DOMAIN ledger /\ ledger[id] = live[id] /\ ledger' = [ledger EXCEPT ![id] = task]
    BY <1>0, <2>1, <2>3, EditInLedger
  <2> QED BY <2>1, <2>4 DEF Ledger!Next, Ledger!Close
<1>6. ASSUME NEW id \in Ids, Reopen(id) PROVE Ledger!Next
  <2> DEFINE task == [live[id] EXCEPT !.closed = FALSE]
  <2>1. id \in DOMAIN live /\ live[id].closed /\ Write(id, task)
    BY <1>6 DEF Reopen
  <2>2. live[id] \in Task
    BY <1>0, <2>1, FileIsFunction DEF TypeOK
  <2>3. task \in Task
    BY <2>2 DEF Task
  <2>4. id \in DOMAIN ledger /\ ledger[id] = live[id] /\ ledger' = [ledger EXCEPT ![id] = task]
    BY <1>0, <2>1, <2>3, EditInLedger
  <2> QED BY <2>1, <2>4 DEF Ledger!Next, Ledger!Reopen
<1>7. CASE ArchiveFirst
  <2>1. live' = live /\ Moved \subseteq DOMAIN live
    BY <1>7 DEF ArchiveFirst, Moved
  <2>2. DOMAIN ledger' = DOMAIN ledger /\ \A id \in DOMAIN ledger' : ledger'[id] = ledger[id]
    BY <1>1, <1>2, <1>7, <2>1, ArchiveFirstStep DEF Everywhere
  <2> QED BY <1>1, <1>2, <2>2, FilesEqual
<1>8. CASE ArchiveSecond
  <2>1. archive' = archive /\ Moved \subseteq DOMAIN live
    BY <1>8 DEF ArchiveSecond, Moved
  <2>2. \A id \in Moved : live[id] = archive[id]
    BY <1>8, ArchiveSecondStep DEF CopiesAgree, Moved
  <2>3. DOMAIN ledger' = DOMAIN ledger /\ \A id \in DOMAIN ledger' : ledger'[id] = ledger[id]
    BY <1>1, <1>2, <1>8, <2>1, <2>2, ArchiveSecondStep DEF Everywhere
  <2> QED BY <1>1, <1>2, <2>3, FilesEqual
<1>9. CASE ArchiveDies \/ BoardReads \/ BoardReadsOn \/ CliReads \/ CliReadsOn \/ ForgetRead \/ UNCHANGED vars
  <2>1. UNCHANGED <<live, archive>>
    BY <1>9, QuietStep
  <2> QED BY <2>1 DEF ledger, Overlay
<1> QED BY <1>3, <1>4, <1>5, <1>6, <1>7, <1>8, <1>9 DEF Next

\* The backlog and its archive are one ledger in which archiving is no event, if an
\* interrupted archive run is repeated before anything else is written.
THEOREM StoreImplementsLedger == ASSUME PromptRepair PROVE Spec => RefinesLedger
<1>1. Init => Ledger!Init
  <2> SUFFICES ASSUME Init PROVE ledger = <<>>
    BY DEF Ledger!Init
  <2>1. DOMAIN live = {} /\ DOMAIN archive = {}
    BY DEF Init
  <2> QED BY <2>1 DEF ledger, Overlay
<1>2. LInv /\ LInv' /\ [Next]_vars => [Ledger!Next]_ledger
  BY StepInLedger
<1>3. Spec => []LInv
  <2>1. Init => LInv
    BY InitIInv, InitCopies DEF LInv
  <2>2. LInv /\ [Next]_vars => LInv'
    BY NextIInv, NextCopies DEF LInv
  <2> QED BY <2>1, <2>2, PTL DEF Spec
<1> QED BY <1>1, <1>2, <1>3, PTL DEF Spec, RefinesLedger, Ledger!Spec
=============================================================================

------------------------- MODULE BacklogLock_proofs -------------------------
(***************************************************************************)
(* Proofs about BacklogLock, for any set of writers and any patience.      *)
(*                                                                         *)
(* The argument: as long as no lock has outlived LOCK_STALE_MS nobody ever *)
(* reaches the unlink of a stale lock, so the only writer that can remove  *)
(* the lock file is the one that created it.  The lock file then names the *)
(* single critical writer, the snapshot that writer took stays the backlog *)
(* until its own rename, and the shared temporary file is its own too.     *)
(***************************************************************************)
EXTENDS BacklogLock, TLAPS

\* Nobody is about to unlink a lock that was not its own.
NoThief == ~stale /\ \A w \in Writers : pc[w] # "steal"

\* The lock file on disk names whoever works under it.
HolderOwnsLock == \A w \in Writers : pc[w] \in Critical => lock = {w}

\* What the holder parsed is still the backlog when it writes and renames.
SnapshotIsCurrent == \A w \in Writers : pc[w] \in {"write", "rename"} => snap[w] = doc

\* The shared temporary file holds the holder's own edit when it renames it.
TmpIsOwn == \A w \in Writers : pc[w] = "rename" => tmp = {Toggle(doc, w)}

FreshInv == NoThief /\ HolderOwnsLock /\ SnapshotIsCurrent /\ TmpIsOwn /\ doc = ledger

IInv == TypeOK /\ (~aged => FreshInv)

-----------------------------------------------------------------------------

\* An edit of a document is a document.
LEMMA ToggleType == ASSUME NEW d \in SUBSET Writers, NEW w \in Writers
                    PROVE  Toggle(d, w) \in SUBSET Writers
BY DEF Toggle

\* The initial state satisfies the inductive invariant: no lock, empty backlog.
LEMMA InitIInv == Init => IInv
<1> SUFFICES ASSUME Init PROVE IInv
  OBVIOUS
<1>1. waits \in [Writers -> 0..MaxWaits]
  BY WaitsAssumption DEF Init
<1>2. TypeOK
  BY <1>1 DEF Init, TypeOK, PC
<1>3. FreshInv
  BY DEF Init, FreshInv, NoThief, HolderOwnsLock, SnapshotIsCurrent, TmpIsOwn, Critical
<1> QED BY <1>2, <1>3 DEF IInv

\* Every step of withFileLock(), of what it runs, and of its environment keeps
\* the variables in their types.
LEMMA TypeStep == TypeOK /\ [Next]_vars => TypeOK'
<1> SUFFICES ASSUME TypeOK, [Next]_vars PROVE TypeOK'
  OBVIOUS
<1> USE WaitsAssumption DEF TypeOK, PC, Acquiring, Critical, Goto, ForgetWaits, ForgetSnap
<1>1. ASSUME NEW w \in Writers, AcquireStep(w) PROVE TypeOK'
  <2>1. CASE Acquire(w)
    <3>1. waits' \in [Writers -> 0..MaxWaits] BY <2>1 DEF Acquire
    <3>2. pc' \in [Writers -> PC] BY <2>1 DEF Acquire
    <3> QED BY <2>1, <3>1, <3>2 DEF Acquire
  <2>2. CASE OpenFails(w) \/ Stat(w) \/ StealFails(w) BY <2>2 DEF OpenFails, Stat, StealFails
  <2>3. CASE Steal(w) BY <2>3 DEF Steal, Unlink
  <2>4. CASE Backoff(w)
    <3>1. waits' \in [Writers -> 0..MaxWaits] BY <2>4 DEF Backoff
    <3> QED BY <2>4, <3>1 DEF Backoff
  <2>5. CASE Timeout(w)
    <3>1. waits' \in [Writers -> 0..MaxWaits] BY <2>5 DEF Timeout
    <3> QED BY <2>5, <3>1 DEF Timeout
  <2> QED BY <1>1, <2>1, <2>2, <2>3, <2>4, <2>5 DEF AcquireStep
<1>2. ASSUME NEW w \in Writers, HoldStep(w) PROVE TypeOK'
  <2>1. CASE Read(w) BY <2>1 DEF Read
  <2>2. CASE Refuse(w) \/ RenameFails(w) BY <2>2 DEF Refuse, RenameFails
  <2>3. CASE WriteTmp(w) BY <2>3, ToggleType DEF WriteTmp
  <2>4. CASE Rename(w) BY <2>4, ToggleType DEF Rename
  <2>5. CASE Release(w) \/ ReleaseFails(w) BY <2>5 DEF Release, ReleaseFails, Unlink, After
  <2> QED BY <1>2, <2>1, <2>2, <2>3, <2>4, <2>5 DEF HoldStep
<1>3. ASSUME NEW w \in Writers, Invoke(w) \/ Return(w) \/ Crash(w) \/ Restart(w)
      PROVE TypeOK'
  BY <1>3 DEF Invoke, Return, Crash, Restart
<1>4. CASE LockAges BY <1>4 DEF LockAges
<1>5. CASE UNCHANGED vars BY <1>5 DEF vars
<1> QED BY <1>1, <1>2, <1>3, <1>4, <1>5 DEF Next, WriterStep

\* A fresh-lock state steps to a fresh-lock state, or some lock has gone stale.
LEMMA FreshStep == IInv /\ [Next]_vars => (~aged' => FreshInv')
<1> SUFFICES ASSUME IInv, [Next]_vars, ~aged' PROVE FreshInv'
  OBVIOUS
<1>0. TypeOK /\ TypeOK' BY TypeStep DEF IInv
<1>1. ~aged
  BY <1>0 DEF Next, WriterStep, AcquireStep, HoldStep, Invoke, Acquire, OpenFails, Stat, Steal,
     StealFails, Backoff, Timeout, Read, Refuse, WriteTmp, Rename, RenameFails, Release,
     ReleaseFails, Return, Crash, Restart, LockAges, vars
<1>2. FreshInv BY <1>1 DEF IInv
<1> USE <1>0, <1>2 DEF FreshInv, NoThief, HolderOwnsLock, SnapshotIsCurrent, TmpIsOwn, Goto,
        ForgetWaits, ForgetSnap, TypeOK, PC, Acquiring, Critical
<1>3. ASSUME NEW w \in Writers, AcquireStep(w) PROVE FreshInv'
  <2>1. CASE Acquire(w) BY <2>1 DEF Acquire
  <2>2. CASE OpenFails(w) \/ Stat(w) \/ StealFails(w) \/ Backoff(w) \/ Timeout(w)
    BY <2>2 DEF OpenFails, Stat, StealFails, Backoff, Timeout
  <2>3. CASE Steal(w) BY <2>3 DEF Steal
  <2> QED BY <1>3, <2>1, <2>2, <2>3 DEF AcquireStep
<1>4. ASSUME NEW w \in Writers, HoldStep(w) PROVE FreshInv'
  <2>1. CASE Read(w) BY <2>1 DEF Read
  <2>2. CASE Refuse(w) \/ RenameFails(w) BY <2>2 DEF Refuse, RenameFails
  <2>3. CASE WriteTmp(w) BY <2>3 DEF WriteTmp
  <2>4. CASE Rename(w)
    <3>1. lock = {w} /\ tmp = {Toggle(doc, w)} BY <2>4 DEF Rename
    <3>2. doc' = Toggle(doc, w) /\ ledger' = Toggle(doc, w) BY <2>4, <3>1 DEF Rename
    <3>3. \A v \in Writers : v # w => pc'[v] \notin Critical
      BY <2>4, <3>1 DEF Rename
    <3> QED BY <2>4, <3>1, <3>2, <3>3 DEF Rename
  <2>5. CASE Release(w)
    <3>1. \A v \in Writers : pc'[v] \notin Critical
      BY <2>5 DEF Release, After
    <3> QED BY <2>5, <3>1 DEF Release, Unlink, After
  <2>6. CASE ReleaseFails(w) BY <2>6 DEF ReleaseFails, After
  <2> QED BY <1>4, <2>1, <2>2, <2>3, <2>4, <2>5, <2>6 DEF HoldStep
<1>5. ASSUME NEW w \in Writers, Invoke(w) \/ Return(w) \/ Crash(w) \/ Restart(w)
      PROVE FreshInv'
  BY <1>5 DEF Invoke, Return, Crash, Restart
<1>6. CASE LockAges BY <1>6 DEF LockAges
<1>7. CASE UNCHANGED vars BY <1>7 DEF vars
<1> QED BY <1>3, <1>4, <1>5, <1>6, <1>7 DEF Next, WriterStep

\* The inductive invariant holds in every reachable state.
LEMMA Invariance == Spec => []IInv
<1>1. Init => IInv BY InitIInv
<1>2. IInv /\ [Next]_vars => IInv' BY TypeStep, FreshStep DEF IInv
<1> QED BY <1>1, <1>2, PTL DEF Spec

-----------------------------------------------------------------------------

\* The variables keep their types through every interleaving of any number of
\* writers, with crashes, restarts and I/O errors.
THEOREM TypeCorrect == Spec => []TypeOK
<1>1. IInv => TypeOK BY DEF IInv
<1> QED BY <1>1, Invariance, PTL

\* withFileLock() is a mutual exclusion lock for any number of processes, as
\* long as no lock file has outlived LOCK_STALE_MS.
THEOREM FreshLockExcludes == Spec => []FreshExclusion
<1>1. IInv => FreshExclusion
  BY DEF IInv, FreshInv, HolderOwnsLock, FreshExclusion, MutualExclusion
<1> QED BY <1>1, Invariance, PTL

\* updateBacklog() loses no edit and applies none twice: the backlog holds
\* exactly the edits whose rename landed, until a lock has gone stale.
THEOREM EditsSurvive == Spec => []NoLostEdit
<1>1. IInv => NoLostEdit BY DEF IInv, FreshInv, NoLostEdit
<1> QED BY <1>1, Invariance, PTL

-----------------------------------------------------------------------------
(* The lock implements the atomic backlog.                                 *)

\* Once a lock has gone stale it stays on record; before, only LockAges sets it.
LEMMA AgedStep ==
  ASSUME [Next]_vars
  PROVE  (aged => aged') /\ (~aged /\ aged' => UNCHANGED <<doc, pc>>)
BY DEF Next, WriterStep, AcquireStep, HoldStep, Invoke, Acquire, OpenFails, Stat, Steal,
   StealFails, Backoff, Timeout, Read, Refuse, WriteTmp, Rename, RenameFails, Release,
   ReleaseFails, Return, Crash, Restart, LockAges, vars

\* With fresh locks, one step of the code is one promised step of the atomic
\* backlog, or invisible to it: only the rename changes the document, and it
\* applies the edit to the document of that very moment.
LEMMA StepSimulates ==
  IInv /\ IInv' /\ ~aged /\ ~aged' /\ [Next]_vars => Abs!Promised \/ UNCHANGED <<doc, absCall>>
<1> SUFFICES ASSUME IInv, IInv', ~aged, ~aged', [Next]_vars
             PROVE  Abs!Promised \/ UNCHANGED <<doc, absCall>>
  OBVIOUS
<1> USE DEF Abs!Promised, Abs!Invoke, Abs!Apply, Abs!Fail, Abs!Return, Abs!Toggle,
        IInv, TypeOK, absCall, Outcome, Goto, PC, Acquiring, Critical
<1>1. ASSUME NEW w \in Writers, AcquireStep(w) PROVE Abs!Promised \/ UNCHANGED <<doc, absCall>>
  <2>1. CASE Timeout(w)
    <3>1. absCall[w] = "pending" BY <2>1 DEF Timeout
    <3>2. absCall' = [absCall EXCEPT ![w] = "failed"] BY <2>1 DEF Timeout
    <3> QED BY <2>1, <3>1, <3>2 DEF Timeout
  <2>2. CASE Acquire(w) \/ OpenFails(w) \/ Stat(w) \/ Steal(w) \/ StealFails(w) \/ Backoff(w)
    <3>1. absCall' = absCall
      BY <2>2 DEF Acquire, OpenFails, Stat, Steal, StealFails, Backoff
    <3> QED BY <2>2, <3>1 DEF Acquire, OpenFails, Stat, Steal, StealFails, Backoff
  <2> QED BY <1>1, <2>1, <2>2 DEF AcquireStep
<1>2. ASSUME NEW w \in Writers, HoldStep(w) PROVE Abs!Promised \/ UNCHANGED <<doc, absCall>>
  <2>1. CASE Read(w) \/ WriteTmp(w)
    <3>1. absCall' = absCall BY <2>1 DEF Read, WriteTmp
    <3> QED BY <2>1, <3>1 DEF Read, WriteTmp
  <2>2. CASE Refuse(w) \/ RenameFails(w)
    <3>1. absCall[w] = "pending" BY <2>2 DEF Refuse, RenameFails
    <3>2. absCall' = [absCall EXCEPT ![w] = "failed"] BY <2>2 DEF Refuse, RenameFails
    <3> QED BY <2>2, <3>1, <3>2 DEF Refuse, RenameFails
  <2>3. CASE Rename(w)
    <3>1. absCall[w] = "pending" BY <2>3 DEF Rename
    <3>2. absCall' = [absCall EXCEPT ![w] = "applied"] BY <2>3 DEF Rename
    <3>3. doc' = Toggle(doc, w) BY <2>3 DEF Rename, FreshInv, TmpIsOwn
    <3> QED BY <3>1, <3>2, <3>3 DEF Toggle
  <2>4. CASE Release(w) \/ ReleaseFails(w)
    <3>1. absCall' = absCall BY <2>4 DEF Release, ReleaseFails, After
    <3> QED BY <2>4, <3>1 DEF Release, ReleaseFails
  <2> QED BY <1>2, <2>1, <2>2, <2>3, <2>4 DEF HoldStep
<1>3. ASSUME NEW w \in Writers, Invoke(w) PROVE Abs!Promised \/ UNCHANGED <<doc, absCall>>
  <2>1. absCall[w] = "idle" BY <1>3 DEF Invoke
  <2>2. absCall' = [absCall EXCEPT ![w] = "pending"] BY <1>3 DEF Invoke
  <2> QED BY <1>3, <2>1, <2>2 DEF Invoke
<1>4. ASSUME NEW w \in Writers, Return(w) \/ Crash(w) PROVE Abs!Promised \/ UNCHANGED <<doc, absCall>>
  <2>1. absCall[w] # "idle" BY <1>4 DEF Return, Crash
  <2>2. absCall' = [absCall EXCEPT ![w] = "idle"] BY <1>4 DEF Return, Crash
  <2> QED BY <1>4, <2>1, <2>2 DEF Return, Crash
<1>5. ASSUME NEW w \in Writers, Restart(w) PROVE Abs!Promised \/ UNCHANGED <<doc, absCall>>
  <2>1. absCall' = absCall BY <1>5 DEF Restart
  <2> QED BY <1>5, <2>1 DEF Restart
<1>6. CASE LockAges \/ UNCHANGED vars
  <2>1. pc' = pc /\ doc' = doc BY <1>6 DEF LockAges, vars
  <2>2. absCall' = absCall BY <2>1
  <2> QED BY <2>1, <2>2
<1> QED BY <1>1, <1>2, <1>3, <1>4, <1>5, <1>6 DEF Next, WriterStep

\* updateBacklog() implements the atomic backlog: until a lock goes stale its
\* callers may reason as if each call edited the newest backlog in one
\* indivisible step, or did nothing at all.
THEOREM LockImplementsAtomicBacklog == Spec => RefinesAtomic
<1>1. Init => Abs!Init
  <2> SUFFICES ASSUME Init PROVE Abs!Init
    OBVIOUS
  <2>1. \A w \in Writers : pc[w] = "idle" BY DEF Init
  <2>2. Outcome("idle") = "idle" BY DEF Outcome, Acquiring
  <2>3. absCall = [w \in Writers |-> "idle"] BY <2>1, <2>2 DEF absCall
  <2> QED BY <2>3 DEF Init, Abs!Init
<1>2. IInv /\ IInv' /\ [Next]_vars => [Abs!Next]_(Abs!vars)
  <2> SUFFICES ASSUME IInv, IInv', [Next]_vars PROVE [Abs!Next]_(Abs!vars)
    OBVIOUS
  <2> USE DEF Abs!Next, Abs!vars
  <2>1. aged \in BOOLEAN /\ aged' \in BOOLEAN
    BY DEF IInv, TypeOK
  <2>2. CASE aged
    BY <2>2, AgedStep
  <2>3. CASE ~aged /\ aged'
    <3>1. UNCHANGED <<doc, pc>> BY <2>3, AgedStep
    <3>2. absCall' = absCall BY <3>1 DEF absCall
    <3> QED BY <2>1, <2>3, <3>1, <3>2 DEF Abs!Lapse
  <2>4. CASE ~aged /\ ~aged'
    <3>1. Abs!Promised \/ UNCHANGED <<doc, absCall>> BY <2>4, StepSimulates
    <3>2. aged' = aged BY <2>1, <2>4
    <3> QED BY <2>1, <2>4, <3>1, <3>2
  <2> QED BY <2>2, <2>3, <2>4
<1> QED BY <1>1, <1>2, Invariance, PTL DEF Spec, RefinesAtomic, Abs!Spec
=============================================================================

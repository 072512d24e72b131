---------------------------- MODULE BacklogLock ----------------------------
(***************************************************************************)
(* The locked read-modify-write of doc/backlog.md, server/parser.js:       *)
(* withFileLock(), releaseLock(), lockAgeMs(), atomicWrite() and           *)
(* updateBacklog().  A writer is one operating system process (the board,  *)
(* or a `node tools/task.mjs` call); each action is one file-system call   *)
(* of the code, so writers interleave between any two of them, and a       *)
(* writer may die between any two of them.                                 *)
(***************************************************************************)
EXTENDS Naturals

CONSTANTS Writers,     \* the processes that write the backlog
          MaxWaits     \* LOCK_ACQUIRE_TIMEOUT_MS in units of LOCK_BACKOFF_MS

ASSUME WaitsAssumption == MaxWaits \in Nat

VARIABLES
  doc,      \* doc/backlog.md: the writers whose edit is in force
  tmp,      \* doc/backlog.md.tmp, one name shared by all writers: {its text},
            \*   or {} when the file does not exist
  lock,     \* doc/backlog.md.lock: {the writer that created it}, or {}
  stale,    \* the lock file on disk is older than LOCK_STALE_MS
  pc,       \* where each writer is in withFileLock() and what it runs
  waits,    \* how many back-offs the current acquisition has slept
  snap,     \* what the writer parsed from the backlog inside the lock
  ledger,   \* history: the edits applied, each exactly when its rename landed
  aged      \* history: some lock file has outlived LOCK_STALE_MS

vars == <<doc, tmp, lock, stale, pc, waits, snap, ledger, aged>>

Toggle(d, w) == IF w \in d THEN d \ {w} ELSE d \union {w}

Acquiring == {"open", "stat", "steal", "deadline"}
Critical  == {"read", "write", "rename", "applied", "aborted"}
PC        == {"idle", "failed", "returned", "dead"} \union Acquiring \union Critical

Goto(w, l) == pc' = [pc EXCEPT ![w] = l]

\* A frame of withFileLock() or of updateBacklog() is left: its locals are gone.
ForgetWaits(w) == waits' = [waits EXCEPT ![w] = 0]
ForgetSnap(w)  == snap' = [snap EXCEPT ![w] = {}]

TypeOK ==
  /\ doc \in SUBSET Writers /\ ledger \in SUBSET Writers
  /\ tmp \in SUBSET SUBSET Writers
  /\ lock \in SUBSET Writers
  /\ stale \in BOOLEAN /\ aged \in BOOLEAN
  /\ pc \in [Writers -> PC]
  /\ waits \in [Writers -> 0..MaxWaits]
  /\ snap \in [Writers -> SUBSET Writers]

Init ==
  /\ doc = {} /\ ledger = {}
  /\ tmp = {} /\ lock = {}
  /\ stale = FALSE /\ aged = FALSE
  /\ pc = [w \in Writers |-> "idle"]
  /\ waits = [w \in Writers |-> 0]
  /\ snap = [w \in Writers |-> {}]

-----------------------------------------------------------------------------
(* Acquiring: the for(;;) of withFileLock().                               *)

Invoke(w) ==
  /\ pc[w] = "idle"
  /\ Goto(w, "open")
  /\ UNCHANGED <<doc, tmp, lock, stale, waits, snap, ledger, aged>>

\* (mutation: the open forgets `x` and takes an existing file)
AcquireShared(w) ==
  /\ pc[w] = "open"
  /\ lock' = {w} /\ stale' = FALSE
  /\ Goto(w, "read")
  /\ ForgetWaits(w)
  /\ UNCHANGED <<doc, tmp, snap, ledger, aged>>

\* openSync(lockPath, 'wx') succeeds: the file did not exist and is ours.
Acquire(w) ==
  /\ pc[w] = "open" /\ lock = {}
  /\ lock' = {w} /\ stale' = FALSE
  /\ Goto(w, "read")
  /\ ForgetWaits(w)
  /\ UNCHANGED <<doc, tmp, snap, ledger, aged>>

\* EEXIST, or one of TRANSIENT_FS_CODES, which Windows answers while another
\* process is deleting the file, whether or not the file is still there.
OpenFails(w) ==
  /\ pc[w] = "open"
  /\ Goto(w, "stat")
  /\ UNCHANGED <<doc, tmp, lock, stale, waits, snap, ledger, aged>>

\* (mutations: any lock is stale, no lock ever is)
StatImpatient(w) ==
  /\ pc[w] = "stat"
  /\ Goto(w, IF lock # {} THEN "steal" ELSE "deadline")
  /\ UNCHANGED <<doc, tmp, lock, stale, waits, snap, ledger, aged>>
StatTrusting(w) ==
  /\ pc[w] = "stat"
  /\ Goto(w, "deadline")
  /\ UNCHANGED <<doc, tmp, lock, stale, waits, snap, ledger, aged>>

\* lockAgeMs(): the age is read here and acted upon in a later step.
Stat(w) ==
  /\ pc[w] = "stat"
  /\ Goto(w, IF lock # {} /\ stale THEN "steal" ELSE "deadline")
  /\ UNCHANGED <<doc, tmp, lock, stale, waits, snap, ledger, aged>>

\* unlinkSync(lockPath): the path is removed, whatever file it names by now.
Unlink == lock' = {} /\ stale' = FALSE

\* releaseLock() of a lock judged stale; ENOENT counts as success.
Steal(w) ==
  /\ pc[w] = "steal"
  /\ Unlink
  /\ Goto(w, "open")
  /\ UNCHANGED <<doc, tmp, waits, snap, ledger, aged>>

\* The unlink kept failing with a transient code: fall through to the wait.
StealFails(w) ==
  /\ pc[w] = "steal"
  /\ Goto(w, "deadline")
  /\ UNCHANGED <<doc, tmp, lock, stale, waits, snap, ledger, aged>>

\* (mutation: the deadline moves along)
BackoffForEver(w) ==
  /\ pc[w] = "deadline"
  /\ Goto(w, "open")
  /\ UNCHANGED <<doc, tmp, lock, stale, waits, snap, ledger, aged>>

Backoff(w) ==
  /\ pc[w] = "deadline" /\ waits[w] < MaxWaits
  /\ waits' = [waits EXCEPT ![w] = @ + 1]
  /\ Goto(w, "open")
  /\ UNCHANGED <<doc, tmp, lock, stale, snap, ledger, aged>>

\* ELOCKTIMEOUT
Timeout(w) ==
  /\ pc[w] = "deadline" /\ waits[w] = MaxWaits
  /\ Goto(w, "failed")
  /\ ForgetWaits(w)
  /\ UNCHANGED <<doc, tmp, lock, stale, snap, ledger, aged>>

-----------------------------------------------------------------------------
(* Holding: fn() of updateBacklog(), then the finally of withFileLock().   *)

Read(w) ==
  /\ pc[w] = "read"
  /\ snap' = [snap EXCEPT ![w] = doc]
  /\ Goto(w, "write")
  /\ UNCHANGED <<doc, tmp, lock, stale, waits, ledger, aged>>

\* mutate(tasks) throws because a precondition of the caller failed, or the
\* backlog could not be read, or the temporary file not written.
Refuse(w) ==
  /\ pc[w] \in {"read", "write"}
  /\ Goto(w, "aborted")
  /\ ForgetSnap(w)
  /\ UNCHANGED <<doc, tmp, lock, stale, waits, ledger, aged>>

\* writeFileSync(tmp) of the whole mutated document.
WriteTmp(w) ==
  /\ pc[w] = "write"
  /\ tmp' = {Toggle(snap[w], w)}
  /\ Goto(w, "rename")
  /\ UNCHANGED <<doc, lock, stale, waits, snap, ledger, aged>>

Rename(w) ==
  /\ pc[w] = "rename"
  /\ \E text \in tmp : doc' = text
  /\ tmp' = {}
  /\ ledger' = Toggle(ledger, w)
  /\ Goto(w, "applied")
  /\ ForgetSnap(w)
  /\ UNCHANGED <<lock, stale, waits, aged>>

\* (mutation: an exhausted retry falls out of the loop instead of throwing)
RenameFailsSilently(w) ==
  /\ pc[w] = "rename"
  /\ Goto(w, "applied")
  /\ ForgetSnap(w)
  /\ UNCHANGED <<doc, tmp, lock, stale, waits, ledger, aged>>

\* ENOENT because someone else renamed the shared tmp away, or a transient
\* code on every one of RENAME_MAX_RETRIES attempts.
RenameFails(w) ==
  /\ pc[w] = "rename"
  /\ Goto(w, "aborted")
  /\ ForgetSnap(w)
  /\ UNCHANGED <<doc, tmp, lock, stale, waits, ledger, aged>>

After(w) == IF pc[w] = "applied" THEN "returned" ELSE "failed"

Release(w) ==
  /\ pc[w] \in {"applied", "aborted"}
  /\ Unlink
  /\ Goto(w, After(w))
  /\ UNCHANGED <<doc, tmp, waits, snap, ledger, aged>>

\* A lock that resists deletion is left for a later acquirer to steal by age.
ReleaseFails(w) ==
  /\ pc[w] \in {"applied", "aborted"}
  /\ Goto(w, After(w))
  /\ UNCHANGED <<doc, tmp, lock, stale, waits, snap, ledger, aged>>

Return(w) ==
  /\ pc[w] \in {"returned", "failed"}
  /\ Goto(w, "idle")
  /\ UNCHANGED <<doc, tmp, lock, stale, waits, snap, ledger, aged>>

-----------------------------------------------------------------------------
(* The environment.                                                        *)

Crash(w) ==
  /\ pc[w] \notin {"idle", "dead"}
  /\ Goto(w, "dead")
  /\ ForgetWaits(w) /\ ForgetSnap(w)
  /\ UNCHANGED <<doc, tmp, lock, stale, ledger, aged>>

Restart(w) ==
  /\ pc[w] = "dead"
  /\ Goto(w, "idle")
  /\ UNCHANGED <<doc, tmp, lock, stale, waits, snap, ledger, aged>>

\* LOCK_STALE_MS passes over a lock nobody works under any more.  A live
\* holder never lasts that long (a hold is a few milliseconds), which is what
\* the constant was chosen for.
Abandoned == lock # {} /\ \A w \in lock : pc[w] \notin Critical

LockAges ==
  /\ Abandoned /\ ~stale
  /\ stale' = TRUE /\ aged' = TRUE
  /\ UNCHANGED <<doc, tmp, lock, pc, waits, snap, ledger>>

AcquireStep(w) == Acquire(w) \/ OpenFails(w) \/ Stat(w) \/ Steal(w) \/ StealFails(w)
                    \/ Backoff(w) \/ Timeout(w)
HoldStep(w)    == Read(w) \/ Refuse(w) \/ WriteTmp(w) \/ Rename(w) \/ RenameFails(w)
                    \/ Release(w) \/ ReleaseFails(w)
WriterStep(w)  == AcquireStep(w) \/ HoldStep(w) \/ Return(w)

Next ==
  \/ \E w \in Writers : Invoke(w) \/ WriterStep(w) \/ Crash(w) \/ Restart(w)
  \/ LockAges

Spec == Init /\ [][Next]_vars

\* A process that is running goes on running: withFileLock() is straight-line
\* synchronous code.  Nobody is bound to invoke it, to die or to come back.
Fairness == \A w \in Writers : WF_vars(WriterStep(w))

FairSpec == Spec /\ Fairness

-----------------------------------------------------------------------------
(* Properties.                                                             *)

\* At most one writer is between the open and the unlink of withFileLock():
\* "the whole read-modify-write mutually exclusive across processes"
\* (server/parser.js:645-651).
MutualExclusion ==
  \A v, w \in Writers : pc[v] \in Critical /\ pc[w] \in Critical => v = w

\* The exclusion as far as the code provides it: until a lock is old enough
\* to be stolen, whatever crashes, time-outs and I/O errors happen.
FreshExclusion == ~aged => MutualExclusion

\* No edit is lost, doubled or left behind by a call that failed: the backlog
\* holds exactly the edits whose rename landed, although every writer replaces
\* the whole file from its own snapshot (updateBacklog, atomicWrite).
NoLostEdit == ~aged => doc = ledger

\* Every call comes back: no interleaving of waiting, stealing and back-off
\* keeps a writer inside withFileLock() unless locks go on being abandoned
\* for ever.
EveryCallEnds ==
  []<><<LockAges>>_vars
    \/ \A w \in Writers : pc[w] \in Acquiring \union Critical
                             ~> pc[w] \in {"returned", "failed", "dead"}

\* Writers that keep coming, on a disk that does let go of files.
KeenFairness ==
  /\ \A w \in Writers : WF_vars(Invoke(w)) /\ WF_vars(Return(w)) /\ WF_vars(Restart(w))
                           /\ SF_vars(Steal(w))
  /\ WF_vars(LockAges)

\* A lock whose holder died, or could not delete it, does not shut the backlog
\* for good: once the deaths stop, somebody steals it.
AbandonedLockIsCleared ==
  KeenFairness =>
    []<><<\E w \in Writers : Crash(w)>>_vars \/ (Abandoned ~> ~Abandoned)

-----------------------------------------------------------------------------
(* The abstract specification: one atomic edit per call.                   *)

Outcome(l) ==
  CASE l \in {"idle", "dead"} -> "idle"
    [] l \in Acquiring \union {"read", "write", "rename"} -> "pending"
    [] l \in {"applied", "returned"} -> "applied"
    [] l \in {"aborted", "failed"} -> "failed"

absCall == [w \in Writers |-> Outcome(pc[w])]

Abs == INSTANCE AtomicBacklog WITH call <- absCall, lapsed <- aged

\* updateBacklog() is an atomic edit, step by step, until a lock has gone stale.
RefinesAtomic == Abs!Spec
=============================================================================

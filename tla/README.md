# A formal model of briefboard

briefboard is a task board for coding agents: tasks live in a Markdown file, a local
web server shows them and starts agent sessions on them, and agents, people and
scripts edit the same file from the command line. This directory holds TLA+ modules
of the parts whose correctness depends on the order of events, TLC configurations that
check them on small instances, and TLAPS proofs for every size.

## The system

| part | state it keeps | operations | hard because | modules |
|---|---|---|---|---|
| backlog lock, `server/parser.js` | `backlog.md`, `.tmp`, `.lock` | `updateBacklog`, `withFileLock`, `releaseLock`, `atomicWrite` | several OS processes; crashes; locks stolen by age; transient I/O errors | `BacklogLock`, `AtomicBacklog` |
| backlog store, `parser.js`, `tools/task.mjs` | `backlog.md`, `backlog-archive.md` | add, edit, close, reopen, archive, query | two files and no transaction; readers without a lock | `BacklogStore`, `TaskLedger` |
| session runner, `server/sessions.js` | `children`, `records`, `finishedOrder`; worktrees and set-up stamps on disk | `startSession`, `exit` handler, `stopSession`, `shutdown` | a start awaits git and a set-up command between its checks and its registration | `SessionRunner` |
| task routes, `server/server.js` | a card's status, and a request between two awaits | `/open`, `/backlog`, `/cancel`, `/briefing-session`, `/review-session`, `/start`, `/rework`, `/resume`, `/answer`, `/done`, `/remove-worktree`, stop, `/api/shutdown` | a check, an await, and an effect that relies on the check | `TaskDispatch` |
| live board, `server.js`, `ui/index.html` | `board`, `pendingIds`, `sentVersion`; in the page `tasks`, `boardVersion`, `seenVersion`, `resyncedFor` | `refreshBoard`, `broadcast`, `/api/board`, `/events`; `load`, `onBoardEvent`, `onopen` | stat and read are two steps; the stream breaks; loads and frames cross; the process restarts; the browser caches | `BoardDelta` |
| session registry and left-over processes, `sessions.js` | one JSON file for all boards; the process table of a moment ago | `persist`, `restore`, `reconcileSession`, `runningElsewhere`, `scan`, `sweep` | read-modify-write without a lock; pids are reused; results arrive after the sessions they are about have changed | `SessionRegistry` |
| session history and costs, `sessions.js` | `history`, `dropped`, `evictedBefore`, and their copy on disk | `remember`, `trimHistory`, `absorb`, `archive`, `costs`, the `close` handler | `exit` and `close` are two events; evictions must be counted, once | `SessionHistory` |
| git, `server/git.js` | inspections in flight | `inspect`, `survey`, `removeWorktree` | several git processes per answer; shared answers; time budgets | `GitOps`, `Watchdog` |
| watchdog, `server/watchdog.js` | findings, a timer | `schedule`, `scan` | an event during a scan or within the floor | `Watchdog` |
| listener and trace, `server/listen.js`, `server/trace.js` | one socket per address; a file per pid | `listenWithFallback`, `ownLoopbackAddresses`, `writeBoardTrace`, `sweepBoardTraces`, `stopBoard` | several boards start at once; the platform decides who may share a port; pids are reused | `Listener` |
| dispatch from the command line, `task.mjs start` | an exit code | `openBoards`, `dispatchBoard`, `runDispatch` | boards come and go between its three steps; a time-out races the answer | `DispatchCommand` |
| cards and briefs, `task.mjs`, `server/validate.js` | cards, brief files and the links between them | `add`, `status`, `depends`, `brief`, `link`, `archive`, `validate` | a file and a card that must agree; people write files without a lock | `TaskCommands`, `TaskLifecycle` |
| dependencies, `parser.js` | none | `blockingDependencies`, `dependencyCycles`, `depends` | graphs that somebody has edited by hand | `TaskGraph`, `Dependencies` |

The server is one thread: what runs between two awaits is one step. It shares the
files with every `node tools/task.mjs` process, and the file lock is all that orders
them. The routes write a card's status through the lock and call the runner; the runner
starts agents and writes the registry; agents write their own cards through the command
line; file watchers tell the live board and the watchdog, and the live board tells the
pages.

What makes each part correct is stated as the properties of its module, below. What can
go wrong and is hard to test is listed, at its line, under `hazards` in `PROJECT.json`.

## The modules

**`BacklogLock`** models `withFileLock()` and its callers with one action per file-system
call: `Acquire`/`OpenFails` are `openSync('wx')`, `Stat` is `lockAgeMs()`, `Steal` and
`Release` are `releaseLock()`, `WriteTmp` and `Rename` are `atomicWrite()`, `Backoff` and
`Timeout` the deadline. A writer may crash between any two. The document is the set of
writers whose edit is in force; an edit toggles its writer, so that a lost and a doubled edit
both show. `LockAges` lets `LOCK_STALE_MS` pass over a lock nobody works under: a live
hold of a few milliseconds never lasts ten seconds, which is the assumption the constant
was chosen by. **`AtomicBacklog`** is what `updateBacklog()` promises: one indivisible edit
per call or none, until a lock has gone stale.

**`SessionRunner`** models `startSession()` with both kinds of start, the `exit` handler with
`rememberFinished()`, `stopSession()` and `shutdown()`. A start in the project checkout
is one action (`StartHere`): the only await on its way is that of the `spawn` event, which
Node delivers before it serves another request. An isolated start is `BeginIsolated`,
then `CheckWorktree`, `AddWorktree` or `RepeatSetup`, then `SpawnIsolated`, `SpawnFails` or
`PreparationFails`, with everything else in between. The specification states the precondition
the runner relies on and does not check: no start of a task overlaps an earlier start of it
(`Alone`), and a worktree is removed only when unused (`Unused`).

**`TaskDispatch`** extends it with the routes of `server.js` and composes them with the
runner's actions: a route's status write and its call of `startSession()` up to the first await
are one action, and `handler[r]` is a request between two awaits. `AgentMoves` and
`AgentAsks` are the agents' own `task.mjs` calls, `CliMoves` a person's: `--force` overrides the
graph of transitions (`task.mjs:1212-1216`), so they write any status. Dependencies
and briefs are guards that can only refuse, so the routes are left free of them. The constant
`Careful` names routes that are used on a task only while no other request is busy on it. The
code does not enforce it for `/resume`, `/answer`, `/remove-worktree` and the command
line, and the violation runs show what follows; for the other routes the task's status is
enough, and the passing runs show it.

**`BoardDelta`** models both ends of the live board. The server's `stat` and `read` are two
steps with `looked` in between; the key of a read is the stat taken before it. `Frame` is
`boardDeltaJson()`, `AnswerLoad` the `/api/board` route with its 304, `OnFrame` is
`onBoardEvent()`, `Arrive` is `load()` after its awaits. A task is the number of the edit that
last changed it. Loads that a later load has superseded are dropped when that happens:
their answers are thrown away by `loadSeq`. What such a load does to the server is
`AnswerLost` or `Refresh`.

**`BacklogStore`** models the two files behind the lock: edits are atomic (that is what
`BacklogLock` provides), an archive run is two writes with a possible death in between, and
the readers read the two files one after the other, each in its order. **`TaskLedger`** is what
a user sees: one ledger, in which archiving is no event.

**`SessionRegistry`** models the registry file under several boards. A process is a pid and a
start time (`born`), and every pid is handed out again once free, to boards, agents and strangers alike; `InUse` is
`isProcessAlive()`, which asks for a pid and not for a board. `Persist` reads the file (`Read`: one that cannot be
read is an empty one) and decides what to write, `WriteLands` writes it, unless `WriteFails`, which the code only logs: other boards
move in between, the board itself does not. `Boot` is `restore()`: the records of dead boards become `interrupted`,
their trees go to `sweep`, and what had no tree is named (`ReportUnwritten`). `ScanReads`, `ScanEnds`
and `ScanFails` are `scan()` around the await of the process table, `Sweep` and `SweepFails`
the attempts of `sweep()`. `reported`, `excused` and `unsaved` are history: which agents without a board
the user was told of, which of them the code cannot know or is known to lose, and whose records a board's last `persist()` left out.

**`SessionHistory`** models what one board after another remembers of its sessions: `ExitRun`
is the `exit` handler, `CloseLog` the `close` handler that reads the cost, `Reboot` is
`restore()` with `archive()` for the sessions it finds. A run is its start time. The rest is history: `over`
are the runs a board has known to be over, from their exit on, `archived` those it has called `archive()` with, `closed` those whose
log it saw closed; `outrun` are the runs that were going while a younger one was evicted, and `cutOff` those whose
board died with their log open and their record gone.

**`GitOps`** models `inspect()` as its processes (`ReadRefs`, then `ReadAncestor` and `ReadStatus`
side by side, each of which may fail or be late), shared by everyone who asks meanwhile
(`askers`), and what `/done`, `/rework` and `/remove-worktree` make of the one `Answer`.
**`Watchdog`** models `schedule()`, its timer, the scan with its two reads and `findingsFor()`;
time is counted in ticks of the floor, and `unseen` is history: git has changed and nothing
has happened that a board could have heard.

**`Listener`** models the addresses of one machine: `Bind` and `NextCandidate` are the loop of
`listenWithFallback()`, `Hold` is one address of `ownLoopbackAddresses()`, `Adopt` its outcome, the
trace included. `platform` is what the code measures or meets: whether a wildcard socket
leaves loopback to others, whether there is a `::1`, which ports are reserved, and which
wildcard HOST is used. Other programs bind and close loopback sockets at any time.

**`DispatchCommand`** models `task.mjs start` and the board's handler as far as its answer goes:
`FindBoard`, `AskMeta`, `Post`, then a wait of `Patience` ticks, each the budget of one of the stages
lock, worktree and set-up. Boards start, die and take over each other's ports.

**`TaskCommands`** models the writing commands over cards and brief files. `brief` is three steps
(the lookup, the file, the link) and `link` two (the lookup, and the link under the lock), since people create and move files
meanwhile; every other command is one, under the lock, but for an `archive` that dies between its two writes
(`ArchiveStops`) and leaves its tasks in both files. `Errors` is what `validate` reports of the result. **`TaskLifecycle`** holds the statuses and their transitions, **`TaskGraph`** the two graph
algorithms. The depth-first search for cycles is a function of the number of turns: a `Turn` is one pass of the loop of the innermost
`visit()`, or of the loop over the tasks, on a record of each id's `state`, the `path`, how far each task's loop has come
(`looked`) and the `cycles` found. **`Dependencies`** has the `depends` command over any graph somebody may
have written, and what a cycle is, said without a search: a task is on one if every set closed under "needs" that
holds its prerequisites holds the task (`OnCycle`).

`MC*` modules instantiate these for TLC. **`MCBoardParts`** puts eight parts side by side that
share no state, each on its own instance; `part` is chosen once and says which of
them moves. Theorems and proofs about a module `M` are in
`M_proofs`; those about `GitOps`, `Watchdog`, `Listener` and `DispatchCommand` share `BoardParts_proofs`, those about `SessionRunner`
are in `TaskDispatch_proofs`, and those about `TaskGraph` and `Dependencies` in `TaskCommands_proofs`. Operators
marked *mutation* are deliberate faults that nothing uses: each shows that a property
would notice it.

## The runs

| run | instance | what it shows |
|---|---|---|
| `lock` | 2 writers, 1 back-off | `FreshExclusion`, the refinement of `AtomicBacklog`, and the liveness of calls and of abandoned locks |
| `stale` | the same | **fails** `MutualExclusion`: two waiters steal one dead lock |
| `dispatch` | 2 tasks, 2 requests, 2 agents, cap 1, 1 finished record | the safety properties of the routes and of the runner, how far the cap can be outrun (`CapOutrunByStartsOnly`), and that the routes keep the runner's precondition (`RunnerIsWellUsed`) |
| `dispatch_live` | 1 task, 2 requests, 2 agents, cap 2, every route | `OneAgentPerTask`, `StartedOrPutBack` |
| `resume` | 1 task, `/resume` without care | **fails** `OneAgentPerTask` |
| `remove` | 1 task, `/remove-worktree` without care | **fails** `WorktreeUnderAgent` |
| `delta` | 2 tasks, deltas of at most 1, 2 edits, 1 broken stream, 1 restart | the page is never silently behind, never goes back, and ends up current |
| `delta_cache` | the same with a cache that outlives the stream | **fails** `NothingMissed` |
| `registry` | 2 boards, 1 task, 4 pids (2 of them the boards'), 3 processes born, 2 sweep attempts, failing reads and writes | live sessions and strangers are spared; no agent of a dead board is passed over in silence; the file has every running session; what the code loses of these is listed below |
| `shadow` | the same, `persist()` undisturbed and the file always readable and writable | **fails** `OneAgentEverywhere`: a finished record of one board keeps the running one of the other out of the file |
| `parts` | see below | the properties of eight parts |
| `repair` | 1 task, edits between a crash and its repair | **fails** `RefinesLedger` |

| part | instance | properties |
|---|---|---|
| history | 2 tasks, 4 runs, 3 board processes, 2 in the history, 2 finished | `CompleteUnlessLost`, `LossCountedOncePerBoard`, `CostOfClosedRuns` |
| graph | every graph of 3 tasks and an unknown id with at most 2 prerequisites each | `CyclesAreFound`, `NoCycleIsMade` |
| cards | 2 tasks, 2 briefs, 2 slugs, 2 files, one `link` at a time; beside the second task one file of brief number 1 (`OneOfBoth`) | `ValidateIsClean`, `ProseSurvives` |
| git | 1 task, all three routes | `AcceptedAsMerged`, `RemovedAsMerged` |
| watchdog | 1 task, a floor of 2 ticks | `QuietFindingIsRight` |
| listener | 2 boards and other programs, 2 ports, every platform | `OwnAddressesAreKept`, `TraceTellsThePort` |
| command | 2 boards, 2 ports, the command twice | `ExitTellsWhatHappened`, `GivesUpOnTimeOnly` |
| store | 3 tasks, 1 edit each | `NoneLostNoneReissued`, `ReadersMissOnlyArchived`, `ArchiveIsFinal`, `RefinesLedger` |

The failing runs are disagreements between the code and what its comments or
documents say; `PROJECT.json` quotes both sides under `findings`.

**Bounds.** Two writers are what a race over one lock needs: a third can only repeat the
role of the first; one back-off separates a waiter that gives up from one that goes round.
Two tasks make the cap, the eviction of records and the shutdown concern more than one
session, and a cap of one refuses the second, unless both were being prepared when it was asked for. Where there is one
task the cap is two, so that what keeps a second agent off the task is not the cap. Two requests are a request and the one that overtakes it. For the board, two tasks
and a delta of one distinguish a delta from an oversized one; two edits let a reply or a frame
be older than another; one restart mixes two numberings of versions. Larger
instances (three edits with a restart, three edits with a broken stream; about two million
states each) pass as well. Three tasks in the store let an
archived, a closed and an open task meet. In the registry, three births over four pids let an agent's
pid go to a stranger or to an agent of the next board, and a dead board's pid to either or to another board, and two attempts tell a sweep's
first failure from its last. Two bounds of the run keep it small: while two boards are up no write of theirs fails (`FailsAlone`), and one of
them at a time has a process table or leftovers in hand (`OneLooks`). `EverySessionIsWritten` and `NoSilentOrphan` do not speak of two boards
anyway, and the theorems are without these bounds. Four runs over a history of two evict twice, before
and after a restart. Three tasks are the least in which two cycles share a task. Two ports let a
board step aside and meet the other one again. The command run twice meets what its first
run has left, and a budget of three stages is one that a fourth one overruns.

**Assumptions of the passing runs**, each lifted by a failing run or named here:

- `Careful` routes (lifted by `resume` and `remove`). `/answer` is in `dispatch_live` only.
- `LongCache = FALSE`: the browser's stored response does not outlive its stream (lifted by
  `delta_cache`).
- `Settled = TRUE`: the backlog is not taken away while changes of it are still to be told.
  Without it `broadcast()`'s catch clears `pendingIds` and leaves `sentVersion`, and a later
  delta claims a base from which it omits them: `SameVersionSameBoard` fails within twenty
  states.
- `PromptRepair = TRUE`: an interrupted archive run is repeated before the next edit
  (lifted by `repair`).
- `Contended = FALSE` in `dispatch_live`: the rollback's write gets the lock. When it does
  not, the code logs it and leaves the card, so `StartedOrPutBack` cannot hold.
- `NoSilentOrphan` and `EverySessionIsWritten` speak of boards that do not share the file at the moment.
  The second leaves out what the last `persist()` could not write, or could not place beside the record of a dead board whose
  pid another process has. The first excuses the agents that no record can name, because no write of theirs landed before their board died, or because the next
  board cannot read the file, and those the code loses: a crash or a stop between `restore()`'s write and its
  sweep; a start while the process table is being read (`sessions.js:1696-1703`); a session of a dead
  board whose pid another process has (`sessions.js:1575`). It says that these are all.
- `CompleteUnlessLost` allows for two kinds of runs that the code loses, `outrun` and `cutOff` (see below).
- `ValidateIsClean` allows for files made by hand or by a command that died, for links whose file was moved while they were made,
  and for the tasks of an interrupted archive run; nobody touches such a task before the run is repeated, which is `PromptRepair` again.
- A judgement of a pid and the removal of a trace, or the kill of a process the table shows, are one
  step: a pid freed and handed out again within it is not modelled.
- `part` behaviours share nothing: what the parts do to each other through the backlog is in
  `TaskDispatch`, through the lock in `BacklogLock`.

**Fairness.** `BacklogLock`: a process inside `withFileLock()` goes on, since it is synchronous
straight-line code; for abandoned locks also that callers keep coming and that a disk which
now and then releases a file eventually does (`SF` of `Steal`). `TaskDispatch`: an await ends,
because git and the set-up command run under time-outs. `BoardDelta`: the event loop serves
what has arrived and what is armed, the network and the page deliver, a board that ended is
started again; streams break and boards end finitely often, by the bounds. Nobody is
assumed to call anything. The other modules state safety only: the watchdog's promise is
`QuietFindingIsRight`, which speaks of the moments when nothing is due.

**Deadlock** is checked for the lock. The other systems may stop: nobody need call a route,
edits are bounded, and a board that has left does nothing.

## Known disagreements without a run

Definitions state the first three; adding the name as an INVARIANT to the run in brackets shows a
counterexample in a few steps. The properties that are checked allow for the others by name, and leaving out the
allowance shows them.

- `SessionRunner!CapHolds` (`dispatch`): the cap is compared before the awaits of a start
  and counted after them; `sessions.js:9` says it "counts every agent the board has running". What is true, checked and
  proved instead is `CapOutrunByStartsOnly`: agents in the checkout never exceed the cap, and all agents with the
  starts in the air exceed it by the number of concurrent requests at most.
- `BacklogStore!QuerySeesEveryTask` (`parts`): a query reads the archive, an archive run
  moves a task, the query reads the backlog; the guide says that `summary` counts both files,
  always. What is true, checked and proved is `ReadersMissOnlyArchived`: a query may miss a task that
  has got into the archive, and never one that is still only in the backlog.
- `Listener!NobodyElseOnLocalhost` (`parts`): with `HOST=0.0.0.0` on POSIX, `::1:port` is neither covered by the
  board's socket nor held, so that `http://localhost:port` may reach another program; the
  comment at `listen.js:131-136` says that the wildcard socket owns loopback.
- A cost sum may be incomplete and say nothing of it, against `sessions.js:1401-1404`. A session still going while a younger one is evicted is
  turned away by `remember()` (`sessions.js:1504`) when it ends, and not counted as dropped. And one whose record is
  replaced by a restart of its task (2310) or let go (2069) between its exit and the closing of its log (2347-2353) is in no sum until the log closes, and
  never if the board dies first (`outrun`, `closing` and `cutOff` in `CompleteUnlessLost`).
- A dead board whose pid another process has by now is taken for a live one (`sessions.js:603-611`, 625-627): its sessions
  are neither swept nor named by the board that comes after (1575), against "never silent" at 1831-1836, and its record keeps the one of
  a new session on the task out of the file (1466-1470). A session that starts while the process table is read
  loses the mark that its tree is unknown (1696-1703), with the same outcome if the board then crashes (`Overlooked`, `excused` and `unsaved`).
- A worktree may be removed whose branch has got a commit since git was asked: `git.js:361-364` says that the branch "is
  merged, and its tree is clean", but the answer is older than the removal, may be older than the request (`git.js:286`), and its two halves are of
  different moments. `RemovedAsMerged` allows for that. Nothing committed is lost, since the branch stays, nor anything uncommitted,
  since git refuses a dirty worktree. In the same way `/done` may accept a commit that came after its answer (`AcceptedAsMerged`).
- `link` looks for its file before it takes the lock (`task.mjs:1498`, 1504): if the file is moved in between, the command makes
  the entry without a file that 1495-1497 says it must not (`pulled` in `ValidateIsClean`).
- `sessions.js:157` and `server.js:1900-1904` say that no session outlives an orderly stop; one that was being prepared when the
  children were signalled does (`OrphansStartedLate`).

Seen while modelling, and kept as the code has them: after a restart, `restore()` archives the
record of an evicted run again and counts it again (hence "per board" in
`LossCountedOncePerBoard`); "no window" at `task.mjs:1457-1461` is so for one file
name, not for two slugs of one brief number; the budget at `task.mjs:899-912` sums three stages and omits
`git rev-parse`, the spawn and the rollback's lock (`GivesUpOnTimeOnly` allows for it); a shutdown request that comes while
a public board takes its loopback sockets removes the trace, which is then written again (`TraceTellsThePort` is about
boards that serve).

## What is proved

Eight modules hold the theorems, `PROJECT.json` lists them. Each holds for every value of
the constants that satisfies the `ASSUME`s of the module it is about: bounds are natural numbers (most
of them positive), the requests a board serves at a time are finitely many, `Nodes` and `Cards` are sequences, and the values that stand for "nothing" (`NoTask`, `Off`, `NoRecord`, `NoFiling`, `Nobody`,
...) are none of the values they stand beside. TLC evaluates these on the instances of the
runs. Every property of a passing run is a theorem, but for the liveness properties (see below).
Where a theorem needs a condition of its own, it is one that a failing run or the list of
assumptions above shows to be needed, and the theorem says so (`Care`, `PromptRepair`,
`~LongCache` with `Settled`).

**`BacklogLock_proofs`**, for every set of writers and every lock budget: `TypeCorrect`,
`FreshLockExcludes`, `EditsSurvive`, `LockImplementsAtomicBacklog`. Mutual exclusion is
not inductive. What is: as long as no lock has aged, whoever is in the critical section is
the one named in the lock file, and nobody is in `steal`; a writer that has read holds
in `snap` what is on disk now, and a writer about to rename has its own toggle of it in
`tmp`. The refinement follows step by step: `Rename` is the abstract
`Apply`, `LockAges` the abstract `Lapse`, and the rest stutters or changes a call's outcome.

**`TaskDispatch_proofs`**, first about the runner, for every set of tasks, agents and requests and both caps, under the
precondition of its specification: `OneAgent`, `AgentsReachable`, `SetupsAlone` from `IInv`, which joins types, that a
call awaits something exactly when it has a task (`CallsAreWhole`), that calls do not overlap on a task
(`NoOverlap`), that a preparing task has no agent (`PreparedHasNoAgent`), and that `children`, `running`
and `alive` agree (`MapsAgree`). It needs all of them because `SpawnIsolated` checks
nothing: that the task is still free when it registers follows only from what everyone
else was kept from doing meanwhile. `WorktreesLast` and `OrphansAreLate` (`EndInv`) add which worktrees have
an agent in them, and that an agent whose board has left was signalled or started after the signal.
`RecordsAreBounded` (`RecInv`) adds that `finishedOrder` has each finished record once and no running one, so
that a restart of a task takes its record out of the queue before the queue is cut. `CapIsOutrunByStartsOnly`
(`CapInv`) counts: the sessions the cap is compared with are as many as the agents at work (`SessionsCountAgents`, by a
bijection from `MapsAgree`), so whoever begins does so below the cap, and a start in the air that registers is one in the
air less.

Then that the routes keep that precondition, whoever calls them: `RoutesUseRunnerWell`
is the refinement of the runner's specification by the composed board, and
`BoardKeepsRunnersPromises` draws the conclusion for the runner's seven invariants; `RollbackFindsNobody` is about the rollback
itself: whatever statuses the agents force on their own cards meanwhile, the card a failed dispatch puts back has no agent. The invariant `DInv` says that a start being prepared belongs to a request that is still waiting,
and that its task is `in_progress` meanwhile, which none of the routes without care accepts.
`Care`: `/resume`, `/answer`, `/remove-worktree` and the command line are used on a task no other request is busy on.

**`BacklogStore_proofs`**, for any number of tasks and edits: `NoneLost`, `ReadersMissLittle`, `ArchiveStaysFinal`, and
`StoreImplementsLedger` under `PromptRepair`. The ids of the two files together are `1..added`, since a task
leaves the backlog only when the archive has it already; what the board missed in the backlog
is in the archive it reads next, and what a query missed in the archive is in the backlog it reads next or has got into the
archive since. The refinement needs that a task in both files is the same in both
(`CopiesAgree`), which an edit between a crash and its repair breaks.

**`SessionRegistry_proofs`**, for any number of boards, tasks, pids and births. `TheLivingAreSpared` and
`StrangersAreNeverEnded` rest on `RegInv`: no two living processes share a pid, an agent that a board tends is in the records of
one task only, wherever they have been copied, and there as running under that board; leftovers
are agents that nobody tends, and a pid that a table still to be acted upon shows is that of one process. `SessionsAreWritten` and `OrphansAreNoticed` rest on `SilentInv`, which accounts for every live
agent: it is in the file, or tended, or on a sweep's list, or was named to the user, or is among the
excused, through reads that find nothing and writes that do not land. As in the properties, the second half speaks of boards that do not overlap.

**`BoardDelta_proofs`**, for any number of tasks, edits, broken streams and restarts, under `~LongCache` and `Settled`:
`VersionsAgree`, `NoNewsIsLost`, `PagesGoForward`. The page and the server compare numbers, and numbers start again with
each process, so no conjunction over the variables at hand is inductive. `DeltaInv` says
that there is a book of what the tasks were at each version of the present process, of which every reply,
stored response and delta is a page or a step between two, that `pendingIds` covers what has changed since the last
delta, and that the page is held to the book only while its stream stands, since a restart breaks the stream.

**`SessionHistory_proofs`**, for any history size, number of runs and of restarts. `CompleteButForTheLost` and
`CostsAreRead` rest on `HistInv`: a start time is that of one run, the file has a serving board's records, a run
whose log is open has been told to nobody, and a run handed to `archive()` is remembered or counted. That a run which is over has been handed to
it, or has its log open, or was cut off, or will be found by the next board, is `OverIsArchived`. `LossesAreCountedOnce`
rests on `LossInv`: a run that was evicted stays behind `MAX_HISTORY` younger ones for good, so that
what one board counts are different runs, and what it takes over is at most one count for each sunk run and
earlier board.

**`BoardParts_proofs`** has the smaller parts. `GitOps`: `AcceptGateHolds` and `RemovalWasOfMerged`, from what an inspection, in flight or relied on by a removal, says
of its own past. `Watchdog`: `QuietBoardIsRight`, for any floor: unless git has changed unseen, what
the scan in progress has read is still so, or a timer or a put-off scan is there to look again. `DispatchCommand`: `ExitIsHonest`, `PatienceIsEnough`, since one
request is in hand at a time and each stage it has passed has used up its own budget at most. `Listener`: `LocalhostIsOwn` and `TraceIsTrue`, on every
platform, from the fact that no two sockets answer one address.

**`TaskCommands_proofs`**, for any number of tasks with any lists, and any number of cards, briefs and slugs. `SearchIsRight` says
that the depth-first search is correct: it reports a cycle exactly if there is one, and what it reports is one. Its invariant,
kept by every turn (`TurnKeeps`), has the tasks of the path need one another in order, so that what leads back to the path
closes a ring (`RingIsRing`); and as long as none is found, everything a finished task needs is finished, so that
nothing finished is on a cycle (`Cleared`). It ends because every turn does one of the finitely many things `Turns` lists, each of which is done
once (`TurnDoes`, `SearchEnds`). Recursion over the turns, and not over the calls of `visit()`, is what makes the induction one over
numbers, which `AllNumbers` gives from the well-ordering of the naturals. `CommandMakesNoCycle`: a ring that does not
pass through the task whose list was set was there before. The same argument, with an invariant that the
prerequisites of all cards form no ring, gives `CommandsLeaveItClean`, with the rest of `CardInv`: two files of one brief
have two slugs, every link has a file unless that was moved while the link was made, and a file without a link was made by hand, by a command that died, or by the one under way;
`ProseIsKept` rests on it as well.

**Only model-checked:**

- Liveness: that a call of the lock returns and an abandoned lock goes (`lock`), `StartedOrPutBack`, `PageCatchesUp`. The prover does not treat
  fairness and `ENABLED`.
- That `SameRing` reports a cycle once and not once for each of its rotations: the theorems say that something is reported, and
  that what is reported is a cycle.
- The failing runs, whose point is a counterexample.

## What is not modelled, and details left out

- Rendering, wording, text formats, argument parsing, the queries' filters.
- Profiles and labels, and the routes that only edit a card's fields. `disabled` and unknown-profile outcomes of
  a start appear in `DispatchCommand` only (they change no state of the runner). A project without
  a set-up command is one whose worktrees count as stamped; a stamp that cannot be
  written is a set-up that is repeated.
- Failures that are logged and change nothing else: a board trace that cannot be written (`server.js:1976-1980`: the board serves
  without one), a backlog that cannot be read when the watchdog looks (`server.js:239-245`: it finds nothing to compare and looks
  again at the next event), and a failed `persist()` in `SessionHistory`, where every write lands (in `SessionRegistry` writes fail).
- `git worktree remove` killed half-way. A HOST beyond the wildcards and loopback, and boards
  with different wildcards on one machine.
- The full set of SSE clients: one page is modelled.
- A second board inside `SessionRunner`: `runningElsewhere()` is in `SessionRegistry`, where a start is
  one step.
- Replies without a backlog carry no version, and one that is overtaken by a delta blanks a
  current page until the next event. The model has it: `NothingMissed` speaks of a page
  that shows tasks, and `PageCatchesUp` of what it comes to.
- Set-up of a project (`bin/briefboard-init.mjs`), development tools, the parsing and serializing of
  the backlog.

## What is left to do

Every module of the plan is written and the safety properties of the passing runs are theorems. Beyond them:

1. Liveness, as far as steps go: what each `WF` action leads to, as lemmas without `ENABLED`.
2. Several pages on one board, for the full set of SSE clients (`server.js:1826`).
3. A set-up of a project (`bin/briefboard-init.mjs`) that is cut short and repeated.

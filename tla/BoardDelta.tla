----------------------------- MODULE BoardDelta -----------------------------
(***************************************************************************)
(* How an open board page follows doc/backlog.md: the versions and deltas  *)
(* of server/server.js (refreshBoard, boardDeltaJson, broadcast and the    *)
(* /api/board route) and the client of them in ui/index.html (load,        *)
(* onBoardEvent, connect).  The file is written by other processes, the    *)
(* event stream is ordered but breaks, the full loads are answered in any  *)
(* order, the browser revalidates what it has cached, and the board        *)
(* process restarts with its counters at zero.                             *)
(*                                                                         *)
(* The server reads the file in two system calls, stat and read, and       *)
(* another process may write between them; nothing else of the server runs *)
(* there.  `disk[i]` is what the serialized task i looks like: the number  *)
(* of the edit that last changed it, or 0 where there is no such task.     *)
(***************************************************************************)
EXTENDS Integers, FiniteSets, Sequences

CONSTANTS Ids,           \* the tasks
          MaxDelta,      \* MAX_DELTA_TASKS
          LongCache,     \* the browser's stored /api/board outlives the stream
          Settled,       \* the backlog goes away only when all its news is told
          MaxEdits, MaxDrops, MaxRestarts     \* bounds of the environment

ASSUME DeltaAssumption ==
  /\ MaxDelta \in Nat /\ LongCache \in BOOLEAN /\ Settled \in BOOLEAN
  /\ MaxEdits \in Nat /\ MaxDrops \in Nat /\ MaxRestarts \in Nat

VARIABLES
  disk,       \* the tasks in backlog.md and backlog-archive.md
  stamp,      \* their mtimes and sizes: a number for every write
  readable,   \* backlog.md is there
  up,         \* a board process is serving
  board,      \* `board`: the key, version and tasks of the last refresh
  pending,    \* pendingIds
  sent,       \* sentVersion
  armed,      \* a watcher event has armed the 150 ms timer
  looked,     \* the server between its stat and its read: {what it is doing}
  stream,     \* the SSE connection is open
  frames,     \* frames written to it and not yet handled by the client
  load,       \* the client's newest full load, while it is in flight: the
              \*   stored response it revalidates and {the reply}
  cache,      \* the browser's stored /api/board response
  shown,      \* `tasks` of the client
  version,    \* boardVersion
  seen,       \* seenVersion
  resynced,   \* resyncedFor
  drops, restarts    \* how often the stream broke and the process ended

diskVars   == <<disk, stamp, readable>>
serverVars == <<up, board, pending, sent, armed, looked>>
clientVars == <<shown, version, seen, resynced>>
bounds     == <<drops, restarts>>
vars == <<diskVars, serverVars, stream, frames, load, cache, clientVars, bounds>>

None   == -1
NoTask == [i \in Ids |-> 0]

\* A /api/board response; the one of an unreadable backlog has no version, and
\* no ETag to be stored by.
Missing == [key |-> None, version |-> None, tasks |-> NoTask]
Fresh   == [key |-> None, version |-> 0, tasks |-> NoTask]

Texts    == [Ids -> 0..MaxEdits]
Versions == None..MaxEdits
Bodies   == [key : Versions, version : Versions, tasks : Texts]

TypeOK ==
  /\ disk \in Texts /\ stamp \in 0..MaxEdits /\ readable \in BOOLEAN
  /\ up \in BOOLEAN /\ board \in Bodies /\ pending \in SUBSET Ids /\ sent \in 0..MaxEdits
  /\ armed \in BOOLEAN /\ Cardinality(looked) <= 1
  /\ stream \in BOOLEAN
  /\ \A n \in DOMAIN frames : frames[n].base \in 0..MaxEdits /\ frames[n].v \in Versions
  /\ \A l \in load : l.cached \in Bodies /\ l.reply \subseteq Bodies
  /\ cache \in Bodies /\ shown \in Texts
  /\ version \in Versions /\ seen \in Versions /\ resynced \in Versions
  /\ drops \in 0..MaxDrops /\ restarts \in 0..MaxRestarts

-----------------------------------------------------------------------------
(* The server.                                                             *)

\* boardStats() fails on a backlog that is not there.
StatKey == IF readable THEN stamp ELSE None

\* refreshBoard(stats): the cached board when the key is the one it was read
\* under, else what is on disk by now.
Unreadable(key) == key = None \/ (board.key # key /\ ~readable)
Differing       == {i \in Ids : disk[i] # board.tasks[i]}
Baseline        == board.key = None
Refreshed(key)  ==
  IF board.key = key THEN board
  ELSE [key |-> key, tasks |-> disk,
        version |-> board.version + (IF Baseline \/ Differing = {} THEN 0 ELSE 1)]
\* (mutation: only the watcher's own read remembers what has changed)
ForgetfulOfReads(key) == {}
NewlyChanged(key) == IF board.key = key \/ Baseline THEN {} ELSE Differing

\* (mutation: every delta is built against the version just before its own)
FrameFromTheLast(b, ids) ==
  [base |-> b.version - 1, v |-> b.version, full |-> Cardinality(ids) > MaxDelta,
   tasks |-> [i \in ids |-> b.tasks[i]]]
\* boardDeltaJson(): the changes since the last frame, or `full` when they are
\* as large as the board.
Frame(b, ids) ==
  [base |-> sent, v |-> b.version, full |-> Cardinality(ids) > MaxDelta,
   tasks |-> [i \in ids |-> b.tasks[i]]]
ReloadFrame == [base |-> sent, v |-> None, full |-> TRUE, tasks |-> <<>>]

Emit(f) == frames' = IF stream THEN Append(frames, f) ELSE frames

Look(what) ==
  /\ up /\ looked = {}
  /\ looked' = {what}

\* The timer fires: broadcast() up to its stat.
TimerFires ==
  /\ armed /\ armed' = FALSE
  /\ Look([why |-> "event", key |-> StatKey])
  /\ UNCHANGED <<diskVars, up, board, pending, sent, stream, frames, load, cache, clientVars,
                 bounds>>

\* The rest of broadcast(), its catch included.
Broadcast ==
  \E l \in looked :
    /\ l.why = "event" /\ looked' = {}
    /\ pending' = {}
    /\ IF Unreadable(l.key)
         THEN Emit(ReloadFrame) /\ UNCHANGED <<board, sent>>
         ELSE LET b == Refreshed(l.key) IN
              /\ board' = b /\ sent' = b.version
              /\ Emit(Frame(b, pending \union NewlyChanged(l.key)))
    /\ UNCHANGED <<diskVars, up, armed, stream, load, cache, clientVars, bounds>>

\* watchdogSnapshot() and whatever else refreshes the board between two frames.
Refresh ==
  /\ up /\ looked = {} /\ ~Unreadable(StatKey)
  /\ board' = Refreshed(StatKey)
  /\ pending' = pending \union NewlyChanged(StatKey)
  /\ UNCHANGED <<diskVars, up, sent, armed, looked, stream, frames, load, cache, clientVars,
                 bounds>>

\* GET /api/board up to its stat.
TakeLoad ==
  /\ \E l \in load : l.reply = {}
  /\ Look([why |-> "load", key |-> StatKey])
  /\ UNCHANGED <<diskVars, up, board, pending, sent, armed, stream, frames, load, cache,
                 clientVars, bounds>>

\* The answer: 304 on the stat alone, the missing-backlog body, or the board.
AnswerLoad ==
  \E s \in looked, l \in load :
    /\ s.why = "load" /\ looked' = {}
    /\ LET Reply(b) == load' = {[l EXCEPT !.reply = {b}]}
           Known    == s.key # None /\ s.key = l.cached.key
       IN  \/ /\ Known
              /\ Reply(l.cached) /\ UNCHANGED <<board, pending>>
           \/ /\ ~Known /\ Unreadable(s.key)
              /\ Reply(Missing) /\ UNCHANGED <<board, pending>>
           \/ /\ ~Known /\ ~Unreadable(s.key)
              /\ Reply(Refreshed(s.key)) /\ board' = Refreshed(s.key)
              /\ pending' = pending \union NewlyChanged(s.key)
    /\ UNCHANGED <<diskVars, up, sent, armed, stream, frames, cache, clientVars, bounds>>

\* The answer to a load the client has given up: the refresh is all that stays.
AnswerLost ==
  \E s \in looked :
    /\ s.why = "lost" /\ looked' = {}
    /\ IF Unreadable(s.key) THEN UNCHANGED <<board, pending>>
       ELSE board' = Refreshed(s.key) /\ pending' = pending \union NewlyChanged(s.key)
    /\ UNCHANGED <<diskVars, up, sent, armed, stream, frames, load, cache, clientVars, bounds>>

-----------------------------------------------------------------------------
(* The client.                                                             *)

\* load(): ++loadSeq makes an earlier load obsolete; its response is thrown away.
Load(stored) ==
  /\ load' = {[cached |-> stored, reply |-> {}]}
  /\ looked' = {[s EXCEPT !.why = IF @ = "load" THEN "lost" ELSE @] : s \in looked}

\* (mutation: the versions of the old stream are kept)
OpenRemembering ==
  /\ up /\ ~stream /\ stream' = TRUE
  /\ cache' = IF LongCache THEN cache ELSE Missing
  /\ Load(cache')
  /\ UNCHANGED <<diskVars, up, board, pending, sent, armed, frames, clientVars, bounds>>

\* es.onopen: the versions are forgotten and everything is loaded.
Open ==
  /\ up /\ ~stream /\ stream' = TRUE
  /\ version' = None /\ seen' = None /\ resynced' = None
  /\ cache' = IF LongCache THEN cache ELSE Missing
  /\ Load(cache')
  /\ UNCHANGED <<diskVars, up, board, pending, sent, armed, frames, shown, bounds>>

\* load() after its awaits; the browser has stored the response.
Stored(b) == IF b.key # None THEN b ELSE cache
\* (mutation: a reply is never too old)
AnyReply(b) == FALSE
StepBack(b) == b.version # None /\ b.version < version
Behind(b)   == b.version # None /\ seen > b.version /\ resynced # seen

Arrive ==
  \E l \in load : \E b \in l.reply :
    /\ cache' = Stored(b)
    /\ \/ /\ StepBack(b)
          /\ load' = {} /\ UNCHANGED <<shown, version, resynced, looked>>
       \/ /\ ~StepBack(b)
          /\ shown' = b.tasks /\ version' = b.version
          /\ IF Behind(b) THEN Load(Stored(b)) /\ resynced' = seen
                          ELSE load' = {} /\ UNCHANGED <<resynced, looked>>
    /\ UNCHANGED <<diskVars, up, board, pending, sent, armed, stream, frames, seen, bounds>>

\* onBoardEvent()
Applied(f) == [i \in Ids |-> IF i \in DOMAIN f.tasks THEN f.tasks[i] ELSE shown[i]]

OnFrame ==
  /\ frames # <<>> /\ frames' = Tail(frames)
  /\ LET f == Head(frames) IN
     /\ seen' = IF f.v > seen THEN f.v ELSE seen
     /\ \/ /\ f.v # None /\ f.v = version
           /\ UNCHANGED <<shown, version, load, looked>>
        \/ /\ f.v = None \/ f.v # version
           /\ f.full \/ f.base # version
           /\ Load(cache)
           /\ UNCHANGED <<shown, version>>
        \/ /\ f.v # version /\ ~f.full /\ f.base = version
           /\ shown' = Applied(f) /\ version' = f.v
           /\ UNCHANGED <<load, looked>>
  /\ UNCHANGED <<diskVars, up, board, pending, sent, armed, stream, cache, resynced, bounds>>

-----------------------------------------------------------------------------
(* The environment.                                                        *)

\* Another process replaces the files: any tasks get a new text or go.
Edit ==
  /\ stamp < MaxEdits /\ stamp' = stamp + 1
  /\ \E ids \in SUBSET Ids \ {{}}, text \in {0, stamp + 1} :
       disk' = [i \in Ids |-> IF i \in ids THEN text ELSE disk[i]]
  /\ readable' = TRUE
  /\ armed' = up
  /\ UNCHANGED <<up, board, pending, sent, looked, stream, frames, load, cache, clientVars,
                 bounds>>

\* The backlog is deleted or made unreadable.
Vanish ==
  /\ readable /\ stamp < MaxEdits /\ readable' = FALSE
  /\ Settled => ~armed /\ pending = {}
  /\ armed' = up
  /\ UNCHANGED <<disk, stamp, up, board, pending, sent, looked, stream, frames, load, cache,
                 clientVars, bounds>>

\* The stream breaks; EventSource reconnects by itself (Open).
Drop ==
  /\ stream /\ drops < MaxDrops /\ drops' = drops + 1
  /\ stream' = FALSE /\ frames' = <<>>
  /\ UNCHANGED <<diskVars, serverVars, load, cache, clientVars, restarts>>

\* The process ends: the stream breaks, a load without an answer fails.
Die ==
  /\ up /\ restarts < MaxRestarts /\ restarts' = restarts + 1
  /\ up' = FALSE /\ armed' = FALSE /\ looked' = {}
  /\ stream' = FALSE /\ frames' = <<>>
  /\ load' = {l \in load : l.reply # {}}
  /\ UNCHANGED <<diskVars, board, pending, sent, cache, clientVars, drops>>

\* A new process: counters at zero, one read of the backlog before serving.
Boot ==
  /\ ~up /\ up' = TRUE
  /\ board' = IF readable THEN [key |-> stamp, version |-> 0, tasks |-> disk] ELSE Fresh
  /\ pending' = {} /\ sent' = 0
  /\ UNCHANGED <<diskVars, armed, looked, stream, frames, load, cache, clientVars, bounds>>

\* The page has just been opened: load() is on its way, connect() follows.
Init ==
  /\ disk = NoTask /\ stamp = 0 /\ readable = TRUE
  /\ up = TRUE /\ board = [key |-> 0, version |-> 0, tasks |-> NoTask]
  /\ pending = {} /\ sent = 0 /\ armed = FALSE /\ looked = {}
  /\ stream = FALSE /\ frames = <<>>
  /\ load = {[cached |-> Missing, reply |-> {}]} /\ cache = Missing
  /\ shown = NoTask /\ version = None /\ seen = None /\ resynced = None
  /\ drops = 0 /\ restarts = 0

Serve  == TimerFires \/ Broadcast \/ TakeLoad \/ AnswerLoad \/ AnswerLost
Follow == Open \/ OnFrame \/ Arrive
Next   == Serve \/ Refresh \/ Follow \/ Edit \/ Vanish \/ Drop \/ Die \/ Boot

Spec == Init /\ [][Next]_vars

\* The server goes on serving, the network and the page go on delivering, and
\* whoever ended the board starts it again.
FairSpec ==
  /\ Spec
  /\ WF_vars(Serve) /\ WF_vars(TimerFires) /\ WF_vars(Follow) /\ WF_vars(Boot)

-----------------------------------------------------------------------------
(* Properties.                                                             *)

\* "The version /api/board hands out and the version a delta is built against
\* can never disagree" (server.js:427-428): a page that says it is at the
\* server's version, and waits for no reload, shows the server's tasks.
SameVersionSameBoard ==
  stream /\ load = {} /\ version = board.version => shown = board.tasks

\* "One reload too many costs a request; one too few leaves the board silently
\* showing yesterday's status" (index.html:3880-3881): with nothing left on its
\* way to the page, the page shows what is on disk or says it could not be read.
Current == version = None \/ (readable /\ shown = disk)
Quiet   == up /\ stream /\ frames = <<>> /\ load = {} /\ ~armed /\ looked = {}
NothingMissed == Quiet => Current

\* A page never goes back to an older text of a task it has shown.
NeverBackwards ==
  [][\A i \in Ids : shown'[i] < shown[i] => shown'[i] = 0]_vars

\* An open page ends up current, whatever was lost on the way.
PageCatchesUp == <>[]Current
=============================================================================

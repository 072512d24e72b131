-------------------------- MODULE BoardDelta_proofs --------------------------
(***************************************************************************)
(* Proofs about BoardDelta, for any number of tasks, edits, breaks of the  *)
(* stream and restarts: where the browser keeps no response longer than    *)
(* the stream (~LongCache), and the backlog goes away with its news told   *)
(* (Settled), no page goes wrong.                                          *)
(*                                                                         *)
(* The argument is that a board process keeps a book it never writes down: *)
(* what the tasks were at each of its versions.  The inductive invariant   *)
(* says that there is such a book, of which every version the page has in  *)
(* hand, in its cache or on its way is a page, and every delta the step    *)
(* from one page to a later one; that what has changed since the last      *)
(* delta is among the pending ids; and that a reply older than what is     *)
(* shown will be recognized by its version.                                *)
(***************************************************************************)
EXTENDS BoardDelta, SequenceTheorems, TLAPS

Num  == Nat \union {None}
Text == [Ids -> Nat]
Body == [key : Num, version : Num, tasks : Text]
Deltas == [base : Nat, v : Num, full : BOOLEAN, tasks : UNION {[ids -> Nat] : ids \in SUBSET Ids}]
Looks == [why : {"event", "load", "lost"}, key : Num]
Loads == [cached : Body, reply : SUBSET Body]

DeltaTypes ==
  /\ disk \in Text /\ stamp \in Nat /\ readable \in BOOLEAN
  /\ up \in BOOLEAN /\ board \in Body /\ board.version \in Nat
  /\ pending \in SUBSET Ids /\ sent \in Nat /\ armed \in BOOLEAN /\ looked \in SUBSET Looks
  /\ stream \in BOOLEAN /\ frames \in Seq(Deltas) /\ load \in SUBSET Loads
  /\ cache \in Body /\ shown \in Text
  /\ version \in Num /\ seen \in Num /\ resynced \in Num

\* y is no older than x: a task has gone from it, or has a text as young.
NotOlder(y, x) == \A i \in Ids : y[i] = 0 \/ y[i] >= x[i]
Past(x) == (\A i \in Ids : x[i] <= stamp) /\ NotOlder(disk, x) /\ NotOlder(board.tasks, x)

Event   == \E s \in looked : s.why = "event"
Replies == UNION {l.reply : l \in load}
Kept    == {cache} \union {l.cached : l \in load}
Index   == 1..Len(frames)

\* Who is there, and that there is one of each.
Shape ==
  /\ stream => up
  /\ ~stream => frames = <<>>
  /\ ~up => looked = {} /\ ~armed
  /\ \A l, m \in load : l = m
  /\ \A l \in load : \A a, b \in l.reply : a = b
  /\ \A s, u \in looked : s = u
  /\ \A s \in looked : s.why = "load" => load # {} /\ Replies = {}
  /\ \A n \in Index : frames[n].v = None => frames[n].full

\* What the server knows of the disk, and has told of what it knows.
ServerSees ==
  /\ board.key <= stamp
  /\ board.key = stamp => board.tasks = disk
  /\ sent <= board.version
  /\ board.key = None => board.version = 0 /\ pending = {}
  /\ pending = {} => sent = board.version
  /\ ~readable => pending = {}
  /\ up /\ ~armed /\ ~Event => sent = board.version /\ (readable => board.tasks = disk)
  /\ \A s \in looked : /\ s.key = None => pending = {}
                       /\ s.key # None => board.key <= s.key /\ s.key <= stamp
                       /\ s.key = StatKey \/ armed

\* A response the browser or the page has.
Response(b) ==
  /\ b.key <= stamp /\ (b.key = stamp => b.tasks = disk) /\ Past(b.tasks)
  /\ b.version = None => b = Missing
  /\ b.version # None => b.key # None

\* The book of the versions, and what the server owes the page by it.
Book(c) ==
  /\ \A i \in Ids : disk[i] <= stamp
  /\ c[board.version] = board.tasks
  /\ \A i \in Ids : c[sent][i] # board.tasks[i] => i \in pending
  /\ \A w \in 0..board.version : Past(c[w])
  /\ \A v, w \in 0..board.version : v <= w => NotOlder(c[w], c[v])

\* What the page has, or is about to get, of it.
Told(c, b) ==
  /\ b.version # None => board.key # None /\ b.version <= board.version /\ b.tasks = c[b.version]
  /\ b.key = stamp => b = board
Carries(c, f) ==
  f.v # None => /\ board.key # None /\ f.base <= f.v /\ f.v <= sent
                /\ ~f.full => \A i \in Ids : c[f.v][i] = IF i \in DOMAIN f.tasks THEN f.tasks[i] ELSE c[f.base][i]
Reads(c) ==
  stream => /\ version # None => board.key # None /\ version <= board.version /\ shown = c[version]
            /\ \A b \in Kept \union Replies : Told(c, b)
            /\ \A n \in Index : Carries(c, frames[n])

\* What a response on its way can do to the page.
PageKeeps ==
  /\ Past(shown)
  /\ \A b \in Kept \union Replies : Response(b)
  /\ stream /\ version = None => shown = NoTask \/ \A b \in Kept : b = Missing
  /\ \A b \in Replies : b.version = None \/ b.version < version \/ NotOlder(b.tasks, shown)
  /\ \A s \in looked, l \in load : s.why = "load" /\ s.key # None /\ s.key = l.cached.key =>
       NotOlder(l.cached.tasks, shown) /\ (stream => l.cached = board)

\* That the page knows, or will hear of, what the server has told.
PageHears ==
  /\ frames # <<>> => frames[Len(frames)].v \in {sent, None}
  /\ stream /\ frames = <<>> /\ ~armed /\ ~Event =>
       /\ load = {} => version \in {None, sent}
       /\ \A b \in Replies : b.version \in {None, sent} \/ (version = sent /\ b.version < version)
  /\ stream /\ ~readable /\ ~armed /\ ~Event =>
       \/ \E n \in Index : frames[n].v = None
       \/ load = {} /\ version = None
       \/ load # {} /\ \A b \in Replies : b.version = None

DeltaInv ==
  /\ DeltaTypes /\ Shape /\ ServerSees /\ PageKeeps /\ PageHears
  /\ \E c \in [Nat -> Text] : Book(c) /\ Reads(c)

-----------------------------------------------------------------------------
(* What the parts of a step amount to.                                     *)

LEMMA MissingIsBody == Missing \in Body /\ Fresh \in Body /\ NoTask \in Text /\ Missing.version = None
                       /\ Missing.key = None /\ Missing.tasks = NoTask /\ Fresh.key = None
                       /\ Fresh.version = 0 /\ Fresh.tasks = NoTask
BY DEF Missing, Fresh, NoTask, Body, Num, Text

\* A load, and what it makes of an answer that is being prepared.
LEMMA LoadsAnew ==
  ASSUME DeltaTypes, NEW stored \in Body, Load(stored)
  PROVE  /\ load' \in SUBSET Loads /\ looked' \in SUBSET Looks
         /\ load' # {} /\ Replies' = {} /\ \A l \in load' : l.cached = stored /\ l.reply = {}
         /\ \A l, m \in load' : l = m
         /\ \A s \in looked' : s.why # "load" /\ \E u \in looked : u.key = s.key
         /\ Event' <=> Event
         /\ (\A s, u \in looked : s = u) => \A s, u \in looked' : s = u
         /\ looked = {} => looked' = {}
<1> DEFINE new == [cached |-> stored, reply |-> {}]
           Off(s) == [s EXCEPT !.why = IF @ = "load" THEN "lost" ELSE @]
<1>1. new \in Loads /\ new.cached = stored /\ new.reply = {}
  BY DEF Loads
<1>2. ASSUME NEW s \in looked
      PROVE  Off(s) \in Looks /\ Off(s).key = s.key /\ Off(s).why # "load"
             /\ (Off(s).why = "event" <=> s.why = "event")
  BY DEF DeltaTypes, Looks
<1>3. load' = {new} /\ looked' = {Off(s) : s \in looked}
  BY DEF Load
<1> HIDE DEF new, Off
<1>4. Event' <=> Event
  BY <1>2, <1>3 DEF Event
<1>5. Replies' = {}
  BY <1>1, <1>3 DEF Replies
<1> QED BY <1>1, <1>2, <1>3, <1>4, <1>5

\* The board as a read of the disk leaves it: under a key no older than its own.
LEMMA ReadsDisk ==
  ASSUME DeltaTypes, ServerSees, NEW key \in Num, ~Unreadable(key), board.key <= key, key <= stamp
  PROVE  /\ Refreshed(key) \in Body /\ Refreshed(key).key = key /\ key # None
         /\ Refreshed(key).version \in {board.version, board.version + 1}
         /\ Refreshed(key).tasks \in {disk, board.tasks}
         /\ key = stamp => Refreshed(key).tasks = disk
         /\ board.key = stamp => Refreshed(key) = board
         /\ Refreshed(key).version # board.version => NewlyChanged(key) # {} /\ Refreshed(key).tasks = disk
         /\ Refreshed(key).version = board.version /\ board.key # None =>
              Refreshed(key).tasks = board.tasks
         /\ board.key = None => Refreshed(key).version = board.version /\ NewlyChanged(key) = {}
         /\ board.key # None => \A i \in Ids \ NewlyChanged(key) : Refreshed(key).tasks[i] = board.tasks[i]
         /\ NewlyChanged(key) \subseteq Ids
         /\ board.tasks = disk => Refreshed(key).version = board.version /\ NewlyChanged(key) = {}
         /\ NewlyChanged(key) # {} => readable
<1> DEFINE b == Refreshed(key)
           ids == NewlyChanged(key)
<1>1. key # None /\ (board.key = key \/ readable) /\ key \in Nat
  BY DEF Unreadable, Num
<1>2. CASE board.key = key
  <2>1. b = board /\ ids = {}
    BY <1>2 DEF Refreshed, NewlyChanged
  <2> HIDE DEF b, ids
  <2> QED BY <1>1, <1>2, <2>1 DEF DeltaTypes, ServerSees, b, ids
<1>3. CASE board.key # key
  <2>1. b = [key |-> key, tasks |-> disk,
             version |-> board.version + (IF Baseline \/ Differing = {} THEN 0 ELSE 1)]
    BY <1>3 DEF Refreshed
  <2>2. ids = (IF Baseline THEN {} ELSE Differing) /\ (Baseline <=> board.key = None)
    BY <1>3 DEF NewlyChanged, Baseline
  <2>3. b.key = key /\ b.tasks = disk /\ b.version = board.version + (IF Baseline \/ Differing = {} THEN 0 ELSE 1)
    BY <2>1
  <2>4. b \in Body
    BY <2>1 DEF DeltaTypes, Body, Num
  <2>5. Differing = {} <=> disk = board.tasks
    BY DEF Differing, DeltaTypes, Body, Text
  <2>6. board.key # stamp
    BY <1>1, <1>3 DEF DeltaTypes, Body, Num, None
  <2>7. \A i \in Ids \ Differing : disk[i] = board.tasks[i]
    BY DEF Differing
  <2>8. Differing \subseteq Ids /\ board.version \in Nat
    BY DEF Differing, DeltaTypes
  <2> HIDE DEF b, ids
  <2> QED BY <1>1, <1>3, <2>2, <2>3, <2>4, <2>5, <2>6, <2>7, <2>8 DEF b, ids
<1> QED BY <1>2, <1>3

\* A frame of the event stream.
LEMMA FrameIsDelta ==
  ASSUME DeltaTypes, NEW b \in Body, b.version \in Nat, NEW ids \in SUBSET Ids
  PROVE  /\ Frame(b, ids) \in Deltas /\ Frame(b, ids).base = sent /\ Frame(b, ids).v = b.version
         /\ DOMAIN Frame(b, ids).tasks = ids /\ \A i \in ids : Frame(b, ids).tasks[i] = b.tasks[i]
         /\ ReloadFrame \in Deltas /\ ReloadFrame.v = None
<1>1. [i \in ids |-> b.tasks[i]] \in [ids -> Nat]
  BY DEF Body, Text
<1>2. [i \in ids |-> b.tasks[i]] \in UNION {[s -> Nat] : s \in SUBSET Ids}
  BY <1>1
<1>3. Frame(b, ids) \in Deltas
  BY <1>2 DEF Frame, Deltas, Num, DeltaTypes
<1>4. <<>> \in [{} -> Nat]
  OBVIOUS
<1>5. <<>> \in UNION {[s -> Nat] : s \in SUBSET Ids}
  BY <1>4
<1>6. ReloadFrame \in Deltas
  BY <1>5 DEF ReloadFrame, Deltas, Num, DeltaTypes
<1> QED BY <1>3, <1>6 DEF Frame, ReloadFrame

\* What a frame written to the stream leaves in it.
LEMMA Emits ==
  ASSUME frames \in Seq(Deltas), stream \in BOOLEAN, NEW f \in Deltas, Emit(f)
  PROVE  /\ frames' \in Seq(Deltas)
         /\ ~stream => frames' = frames
         /\ stream => /\ frames' # <<>> /\ Len(frames') \in Index' /\ frames'[Len(frames')] = f
                      /\ \A n \in Index' : frames'[n] = f \/ (n \in Index /\ frames'[n] = frames[n])
                      /\ \A n \in Index : n \in Index' /\ frames'[n] = frames[n]
<1>1. CASE stream
  <2>1. frames' = Append(frames, f)
    BY <1>1 DEF Emit
  <2>2. /\ frames' \in Seq(Deltas) /\ Len(frames') = Len(frames) + 1 /\ frames'[Len(frames) + 1] = f
        /\ \A n \in 1..Len(frames) : frames'[n] = frames[n] /\ frames' # <<>>
    BY <2>1, AppendProperties
  <2>3. Len(frames) \in Nat
    BY LenProperties
  <2> QED BY <1>1, <2>2, <2>3 DEF Index
<1>2. CASE ~stream
  BY <1>2 DEF Emit
<1> QED BY <1>1, <1>2

\* What the next frame leaves there.
LEMMA TakesFrame ==
  ASSUME frames \in Seq(Deltas), frames # <<>>, frames' = Tail(frames)
  PROVE  /\ frames' \in Seq(Deltas) /\ Head(frames) = frames[1] /\ frames[1] \in Deltas /\ 1 \in Index
         /\ \A n \in Index' : n + 1 \in Index /\ frames'[n] = frames[n + 1]
         /\ frames' # <<>> => frames'[Len(frames')] = frames[Len(frames)]
         /\ frames' = <<>> => Len(frames) = 1
         /\ \A n \in Index : n # 1 => n - 1 \in Index' /\ frames'[n - 1] = frames[n]
<1>1. /\ frames' \in Seq(Deltas) /\ Len(frames') = Len(frames) - 1 /\ Head(frames) = frames[1]
      /\ \A n \in 1..Len(frames') : frames'[n] = frames[n + 1]
  BY HeadTailProperties
<1>2. Len(frames) \in Nat \ {0} /\ (frames' = <<>> <=> Len(frames') = 0)
  BY <1>1, EmptySeq, LenProperties
<1>3. frames[1] \in Deltas
  BY <1>2, ElementOfSeq
<1> QED BY <1>1, <1>2, <1>3 DEF Index

\* A table of what is looked at: the file as it is, or as it was when an edit since
\* has armed the timer.
LEMMA LookedAt ==
  ASSUME DeltaTypes, ServerSees, NEW s \in looked
  PROVE  /\ s.key \in Num /\ s.why \in {"event", "load", "lost"}
         /\ ~Unreadable(s.key) => board.key <= s.key /\ s.key <= stamp
BY DEF DeltaTypes, ServerSees, Looks, Unreadable

\* What a read between two frames does to the board.
LEMMA StatReads ==
  ASSUME DeltaTypes, ServerSees, ~Unreadable(StatKey)
  PROVE  StatKey = stamp /\ readable /\ StatKey \in Num /\ board.key <= StatKey /\ StatKey <= stamp
BY DEF DeltaTypes, ServerSees, Unreadable, StatKey, Num, None

LEMMA RepliesAreBodies ==
  ASSUME DeltaTypes
  PROVE  Replies \subseteq Body /\ Kept \subseteq Body
BY DEF DeltaTypes, Loads, Replies, Kept

\* What the page makes of a reply.
Takes(b) ==
  /\ cache' = Stored(b)
  /\ \/ StepBack(b) /\ load' = {} /\ UNCHANGED <<shown, version, resynced, looked>>
     \/ /\ ~StepBack(b) /\ shown' = b.tasks /\ version' = b.version
        /\ \/ Load(Stored(b)) /\ resynced' = seen
           \/ load' = {} /\ UNCHANGED <<resynced, looked>>
  /\ UNCHANGED <<diskVars, up, board, pending, sent, armed, stream, frames, seen, bounds>>

LEMMA ArriveTakes == Arrive => \E b \in Replies : Takes(b)
<1> SUFFICES ASSUME NEW l \in load, NEW b \in l.reply,
                    /\ cache' = Stored(b)
                    /\ \/ StepBack(b) /\ load' = {} /\ UNCHANGED <<shown, version, resynced, looked>>
                       \/ /\ ~StepBack(b) /\ shown' = b.tasks /\ version' = b.version
                          /\ IF Behind(b) THEN Load(Stored(b)) /\ resynced' = seen
                                          ELSE load' = {} /\ UNCHANGED <<resynced, looked>>
                    /\ UNCHANGED <<diskVars, up, board, pending, sent, armed, stream, frames, seen, bounds>>
             PROVE  \E r \in Replies : Takes(r)
  BY DEF Arrive
<1>1. b \in Replies
  BY DEF Replies
<1>2. Takes(b)
  BY DEF Takes
<1> QED BY <1>1, <1>2

LEMMA TypesStep ==
  ASSUME DeltaTypes, ServerSees, [Next]_vars
  PROVE  DeltaTypes'
<1>1. StatKey \in Num
  BY DEF StatKey, DeltaTypes, Num
<1>2. ASSUME Look([why |-> "event", key |-> StatKey]) \/ Look([why |-> "load", key |-> StatKey])
      PROVE  looked' \in SUBSET Looks
  BY <1>1, <1>2 DEF Look, Looks
<1>3. CASE TimerFires
  BY <1>2, <1>3 DEF TimerFires, DeltaTypes, diskVars, clientVars, bounds
<1>4. CASE TakeLoad
  BY <1>2, <1>4 DEF TakeLoad, DeltaTypes, diskVars, clientVars, bounds
<1>5. CASE Broadcast
  <2>1. PICK l \in looked :
          /\ looked' = {} /\ pending' = {}
          /\ IF Unreadable(l.key)
               THEN Emit(ReloadFrame) /\ UNCHANGED <<board, sent>>
               ELSE LET b == Refreshed(l.key) IN
                    /\ board' = b /\ sent' = b.version
                    /\ Emit(Frame(b, pending \union NewlyChanged(l.key)))
          /\ UNCHANGED <<diskVars, up, armed, stream, load, cache, clientVars, bounds>>
    BY <1>5 DEF Broadcast
  <2>2. board' \in Body /\ board'.version \in Nat /\ sent' \in Nat /\ frames' \in Seq(Deltas)
    <3>1. CASE Unreadable(l.key)
      <4>1. ReloadFrame \in Deltas
        BY MissingIsBody, FrameIsDelta DEF DeltaTypes
      <4> QED BY <2>1, <3>1, <4>1, Emits DEF DeltaTypes
    <3>2. CASE ~Unreadable(l.key)
      <4> DEFINE b == Refreshed(l.key)
                 ids == pending \union NewlyChanged(l.key)
      <4>1. b \in Body /\ b.version \in Nat /\ ids \in SUBSET Ids
        BY <3>2, LookedAt, ReadsDisk DEF DeltaTypes
      <4>2. board' = b /\ sent' = b.version /\ Emit(Frame(b, ids))
        BY <2>1, <3>2
      <4> HIDE DEF b, ids
      <4>3. Frame(b, ids) \in Deltas
        BY <4>1, FrameIsDelta
      <4> QED BY <4>1, <4>2, <4>3, Emits DEF DeltaTypes
    <3> QED BY <3>1, <3>2
  <2> QED BY <2>1, <2>2 DEF DeltaTypes, diskVars, clientVars
<1>6. ASSUME NEW key \in Num, ~Unreadable(key), board.key <= key, key <= stamp,
             board' = Refreshed(key), pending' = pending \union NewlyChanged(key)
      PROVE  board' \in Body /\ board'.version \in Nat /\ pending' \in SUBSET Ids
  BY <1>6, ReadsDisk DEF DeltaTypes
<1>7. CASE Refresh
  <2>1. board' \in Body /\ board'.version \in Nat /\ pending' \in SUBSET Ids
    BY <1>6, <1>7, StatReads DEF Refresh
  <2> QED BY <1>7, <2>1 DEF Refresh, DeltaTypes, diskVars, clientVars
<1>8. CASE AnswerLost
  <2>1. board' \in Body /\ board'.version \in Nat /\ pending' \in SUBSET Ids
    <3>1. PICK s \in looked : IF Unreadable(s.key) THEN UNCHANGED <<board, pending>>
            ELSE board' = Refreshed(s.key) /\ pending' = pending \union NewlyChanged(s.key)
      BY <1>8 DEF AnswerLost
    <3>2. CASE Unreadable(s.key)
      BY <3>1, <3>2 DEF DeltaTypes
    <3>3. CASE ~Unreadable(s.key)
      BY <1>6, <3>1, <3>3, LookedAt
    <3> QED BY <3>2, <3>3
  <2>2. looked' \in SUBSET Looks
    BY <1>8 DEF AnswerLost
  <2> QED BY <1>8, <2>1, <2>2 DEF AnswerLost, DeltaTypes, diskVars, clientVars
<1>9. CASE AnswerLoad
  <2>1. PICK s \in looked, l \in load :
          /\ looked' = {}
          /\ \/ load' = {[l EXCEPT !.reply = {l.cached}]} /\ UNCHANGED <<board, pending>>
             \/ load' = {[l EXCEPT !.reply = {Missing}]} /\ UNCHANGED <<board, pending>>
             \/ /\ ~Unreadable(s.key) /\ load' = {[l EXCEPT !.reply = {Refreshed(s.key)}]}
                /\ board' = Refreshed(s.key) /\ pending' = pending \union NewlyChanged(s.key)
    BY <1>9 DEF AnswerLoad
  <2>2. ASSUME NEW b \in Body PROVE [l EXCEPT !.reply = {b}] \in Loads
    BY DEF DeltaTypes, Loads
  <2>3. l.cached \in Body
    BY DEF DeltaTypes, Loads
  <2>4. ~Unreadable(s.key) => Refreshed(s.key) \in Body
    BY LookedAt, ReadsDisk
  <2>5. load' \in SUBSET Loads
    BY <2>1, <2>2, <2>3, <2>4, MissingIsBody
  <2>6. board' \in Body /\ board'.version \in Nat /\ pending' \in SUBSET Ids
    BY <1>6, <2>1, LookedAt DEF DeltaTypes
  <2> QED BY <1>9, <2>1, <2>5, <2>6 DEF AnswerLoad, DeltaTypes, diskVars, clientVars
<1>10. CASE Open
  <2>1. cache' \in Body /\ Load(cache') /\ None \in Num
    BY <1>10, MissingIsBody DEF Open, DeltaTypes, Num
  <2>2. load' \in SUBSET Loads /\ looked' \in SUBSET Looks
    BY <2>1, LoadsAnew
  <2> QED BY <1>10, <2>1, <2>2 DEF Open, DeltaTypes, diskVars
<1>11. CASE Arrive
  <2>1. PICK b \in Replies : Takes(b)
    BY <1>11, ArriveTakes
  <2>2. b \in Body
    BY RepliesAreBodies
  <2>3. Stored(b) \in Body /\ b.tasks \in Text /\ b.version \in Num
    BY <2>2 DEF Stored, DeltaTypes, Body
  <2>4. load' \in SUBSET Loads /\ looked' \in SUBSET Looks /\ resynced' \in Num
    <3>1. CASE Load(Stored(b)) /\ resynced' = seen
      BY <2>3, <3>1, LoadsAnew DEF DeltaTypes
    <3>2. CASE load' = {} /\ UNCHANGED <<resynced, looked>>
      BY <3>2 DEF DeltaTypes
    <3> QED BY <2>1, <3>1, <3>2 DEF Takes
  <2>5. shown' \in Text /\ version' \in Num
    BY <2>1, <2>3 DEF Takes, DeltaTypes
  <2> QED BY <2>1, <2>3, <2>4, <2>5 DEF Takes, DeltaTypes, diskVars
<1>12. CASE OnFrame
  <2> DEFINE f == Head(frames)
  <2>1. /\ frames # <<>> /\ frames' = Tail(frames)
        /\ seen' = IF f.v > seen THEN f.v ELSE seen
        /\ \/ UNCHANGED <<shown, version, load, looked>>
           \/ Load(cache) /\ UNCHANGED <<shown, version>>
           \/ shown' = Applied(f) /\ version' = f.v /\ UNCHANGED <<load, looked>>
        /\ UNCHANGED <<diskVars, up, board, pending, sent, armed, stream, cache, resynced, bounds>>
    BY <1>12 DEF OnFrame
  <2>2. frames' \in Seq(Deltas) /\ f \in Deltas
    BY <2>1, TakesFrame DEF DeltaTypes
  <2> HIDE DEF f
  <2>3. f.v \in Num
    BY <2>2 DEF Deltas
  <2>4. Applied(f) \in Text
    <3>1. PICK ids \in SUBSET Ids : f.tasks \in [ids -> Nat]
      BY <2>2 DEF Deltas
    <3>2. \A i \in Ids : (IF i \in DOMAIN f.tasks THEN f.tasks[i] ELSE shown[i]) \in Nat
      BY <3>1 DEF DeltaTypes, Text
    <3> QED BY <3>2 DEF Applied, Text
  <2>5. load' \in SUBSET Loads /\ looked' \in SUBSET Looks
    <3>1. CASE Load(cache)
      BY <3>1, LoadsAnew DEF DeltaTypes
    <3> QED BY <2>1, <3>1 DEF DeltaTypes
  <2> QED BY <2>1, <2>2, <2>3, <2>4, <2>5 DEF DeltaTypes, diskVars
<1>13. CASE Edit
  <2>1. disk' \in Text /\ stamp' \in Nat
    <3>1. PICK ids \in SUBSET Ids, text \in {0, stamp + 1} : disk' = [i \in Ids |-> IF i \in ids THEN text ELSE disk[i]]
      BY <1>13 DEF Edit
    <3>2. text \in Nat
      BY DEF DeltaTypes
    <3> QED BY <1>13, <3>1, <3>2 DEF Edit, DeltaTypes, Text
  <2> QED BY <1>13, <2>1 DEF Edit, DeltaTypes, clientVars
<1>14. CASE Vanish
  BY <1>14 DEF Vanish, DeltaTypes, clientVars
<1>15. CASE Drop \/ Die
  <2>1. <<>> \in Seq(Deltas)
    BY EmptySeq
  <2>2. frames' \in Seq(Deltas) /\ load' \in SUBSET Loads /\ looked' \in SUBSET Looks
    BY <1>15, <2>1 DEF Drop, Die, DeltaTypes, serverVars
  <2> QED BY <1>15, <2>2 DEF Drop, Die, DeltaTypes, serverVars, diskVars, clientVars
<1>16. CASE Boot
  <2>1. board' \in Body /\ board'.version = 0
    BY <1>16, MissingIsBody DEF Boot, DeltaTypes, Body, Num
  <2> QED BY <1>16, <2>1 DEF Boot, DeltaTypes, diskVars, clientVars
<1>17. CASE UNCHANGED vars
  BY <1>17 DEF vars, DeltaTypes, diskVars, serverVars, clientVars
<1> QED BY <1>3, <1>4, <1>5, <1>7, <1>8, <1>9, <1>10, <1>11, <1>12, <1>13, <1>14, <1>15, <1>16, <1>17
        DEF Next, Serve, Follow

\* The one answer that the server gives to a load.
Answers(s, b) ==
  /\ s.why = "load" /\ looked' = {}
  /\ \E l \in load : load' = {[l EXCEPT !.reply = {b}]}
  /\ \/ /\ s.key # None /\ UNCHANGED <<board, pending>>
        /\ \E l \in load : b = l.cached /\ s.key = l.cached.key
     \/ Unreadable(s.key) /\ b = Missing /\ UNCHANGED <<board, pending>>
     \/ /\ ~Unreadable(s.key) /\ b = Refreshed(s.key)
        /\ board' = Refreshed(s.key) /\ pending' = pending \union NewlyChanged(s.key)
  /\ UNCHANGED <<diskVars, up, sent, armed, stream, frames, cache, clientVars, bounds>>

LEMMA LoadIsAnswered == AnswerLoad => \E s \in looked : \E b : Answers(s, b)
<1> SUFFICES ASSUME AnswerLoad PROVE \E s \in looked : \E b : Answers(s, b)
  OBVIOUS
<1>1. PICK s \in looked, l \in load :
        /\ s.why = "load" /\ looked' = {}
        /\ LET Reply(b) == load' = {[l EXCEPT !.reply = {b}]}
               Known    == s.key # None /\ s.key = l.cached.key
           IN  \/ /\ Known
                  /\ Reply(l.cached) /\ UNCHANGED <<board, pending>>
               \/ /\ ~Known /\ Unreadable(s.key)
                  /\ Reply(Missing) /\ UNCHANGED <<board, pending>>
               \/ /\ ~Known /\ ~Unreadable(s.key)
                  /\ Reply(Refreshed(s.key)) /\ board' = Refreshed(s.key)
                  /\ pending' = pending \union NewlyChanged(s.key)
        /\ UNCHANGED <<diskVars, up, sent, armed, stream, frames, cache, clientVars, bounds>>
  BY DEF AnswerLoad
<1>2. CASE s.key # None /\ s.key = l.cached.key
  <2>1. Answers(s, l.cached)
    BY <1>1, <1>2 DEF Answers
  <2> QED BY <2>1
<1>3. CASE ~(s.key # None /\ s.key = l.cached.key) /\ Unreadable(s.key)
  <2>1. Answers(s, Missing)
    BY <1>1, <1>3 DEF Answers
  <2> QED BY <2>1
<1>4. CASE ~(s.key # None /\ s.key = l.cached.key) /\ ~Unreadable(s.key)
  <2>1. Answers(s, Refreshed(s.key))
    BY <1>1, <1>4 DEF Answers
  <2> QED BY <2>1
<1> QED BY <1>2, <1>3, <1>4

\* What is on its way to the page after it.
LEMMA AnswerIsReply ==
  ASSUME DeltaTypes, Shape, NEW s \in looked, NEW b, Answers(s, b)
  PROVE  /\ Replies' = {b} /\ Kept' = Kept /\ load' # {} /\ load # {} /\ Replies = {}
         /\ \A l, m \in load' : l = m
         /\ \A l \in load' : \A p, q \in l.reply : p = q
<1>1. PICK l \in load : load' = {[l EXCEPT !.reply = {b}]}
  BY DEF Answers
<1>2. [l EXCEPT !.reply = {b}].reply = {b} /\ [l EXCEPT !.reply = {b}].cached = l.cached
  BY DEF DeltaTypes, Loads
<1>3. load = {l} /\ Replies = {}
  BY DEF Shape, Answers
<1>4. cache' = cache
  BY DEF Answers
<1> HIDE DEF Answers
<1> DEFINE m == [l EXCEPT !.reply = {b}]
<1> HIDE DEF m
<1>5. load' = {m} /\ m.reply = {b} /\ m.cached = l.cached
  BY <1>1, <1>2 DEF m
<1>6. Replies' = {b}
  BY <1>5 DEF Replies
<1>7. Kept' = Kept
  BY <1>3, <1>4, <1>5 DEF Kept
<1> QED BY <1>3, <1>5, <1>6, <1>7

\* What the page makes of a frame.
HearsOf(f) ==
  /\ seen' = IF f.v > seen THEN f.v ELSE seen
  /\ \/ f.v # None /\ f.v = version /\ UNCHANGED <<shown, version, load, looked>>
     \/ Load(cache) /\ UNCHANGED <<shown, version>>
     \/ /\ f.v # version /\ ~f.full /\ f.base = version /\ f.v # None
        /\ shown' = Applied(f) /\ version' = f.v /\ UNCHANGED <<load, looked>>
  /\ UNCHANGED <<diskVars, up, board, pending, sent, armed, stream, cache, resynced, bounds>>

LEMMA FrameIsHeard ==
  ASSUME DeltaTypes, Shape, OnFrame
  PROVE  frames # <<>> /\ frames' = Tail(frames) /\ Head(frames) = frames[1] /\ HearsOf(frames[1])
<1>1. frames # <<>> /\ frames' = Tail(frames)
  BY DEF OnFrame
<1>2. Head(frames) = frames[1] /\ 1 \in Index
  BY <1>1, TakesFrame DEF DeltaTypes
<1>3. HearsOf(frames[1])
  BY <1>2 DEF OnFrame, HearsOf, Shape
<1> QED BY <1>1, <1>2, <1>3

-----------------------------------------------------------------------------
(* The steps, one part of the invariant at a time.                         *)

LEMMA ShapeStep ==
  ASSUME DeltaTypes, ServerSees, Shape, [Next]_vars
  PROVE  Shape'
<1>1. CASE TimerFires
  <2>1. looked' = {[why |-> "event", key |-> StatKey]}
        /\ UNCHANGED <<up, stream, frames, load>> /\ up /\ armed' = FALSE
    BY <1>1 DEF TimerFires, Look
  <2> QED BY <2>1 DEF Shape, Replies, Index
<1>2. CASE TakeLoad
  <2>1. looked' = {[why |-> "load", key |-> StatKey]} /\ \E l \in load : l.reply = {}
        /\ UNCHANGED <<up, stream, frames, load, armed>> /\ up
    BY <1>2 DEF TakeLoad, Look
  <2>2. load # {} /\ Replies = {}
    BY <2>1 DEF Shape, Replies
  <2> QED BY <2>1, <2>2 DEF Shape, Replies, Index
<1>3. CASE Broadcast
  <2>1. PICK l \in looked :
          /\ looked' = {}
          /\ IF Unreadable(l.key) THEN Emit(ReloadFrame)
               ELSE Emit(Frame(Refreshed(l.key), pending \union NewlyChanged(l.key)))
          /\ UNCHANGED <<up, armed, stream, load>>
    BY <1>3 DEF Broadcast
  <2>2. PICK f \in Deltas : Emit(f) /\ (f.v = None => f.full)
    <3>1. CASE Unreadable(l.key)
      <4>1. ReloadFrame \in Deltas
        BY MissingIsBody, FrameIsDelta DEF DeltaTypes
      <4> QED BY <2>1, <3>1, <4>1 DEF ReloadFrame
    <3>2. CASE ~Unreadable(l.key)
      <4> DEFINE b == Refreshed(l.key)
                 ids == pending \union NewlyChanged(l.key)
      <4>1. b \in Body /\ b.version \in Nat /\ ids \in SUBSET Ids
        BY <3>2, LookedAt, ReadsDisk DEF DeltaTypes
      <4>2. Emit(Frame(b, ids))
        BY <2>1, <3>2
      <4> HIDE DEF b, ids
      <4>3. Frame(b, ids) \in Deltas /\ Frame(b, ids).v # None
        BY <4>1, FrameIsDelta DEF None
      <4> QED BY <4>2, <4>3
    <3> QED BY <3>1, <3>2
  <2>3. ~stream' => frames' = <<>>
    BY <2>1, <2>2, Emits DEF Shape, DeltaTypes
  <2>4. \A n \in Index' : frames'[n].v = None => frames'[n].full
    BY <2>2, Emits DEF Shape, DeltaTypes, Index
  <2> QED BY <2>1, <2>3, <2>4 DEF Shape, Replies
<1>4. CASE Refresh
  BY <1>4 DEF Refresh, Shape, Replies, Index
<1>5. CASE AnswerLost
  <2>1. looked' = {} /\ UNCHANGED <<up, armed, stream, frames, load>>
    BY <1>5 DEF AnswerLost
  <2> QED BY <2>1 DEF Shape, Replies, Index
<1>6. CASE AnswerLoad
  <2>1. PICK s \in looked : \E b : Answers(s, b)
    BY <1>6, LoadIsAnswered
  <2>2. PICK b : Answers(s, b)
    BY <2>1
  <2>3. looked' = {} /\ UNCHANGED <<up, armed, stream, frames>>
    BY <2>2 DEF Answers
  <2>4. (\A l, m \in load' : l = m) /\ \A l \in load' : \A p, q \in l.reply : p = q
    BY <2>2, AnswerIsReply
  <2> QED BY <2>3, <2>4 DEF Shape, Index
<1>7. ASSUME NEW stored \in Body, Load(stored), UNCHANGED <<up, armed>>,
             stream' => up, ~stream' => frames' = <<>>,
             \A n \in Index' : frames'[n].v = None => frames'[n].full
      PROVE  Shape'
  BY <1>7, LoadsAnew DEF Shape
<1>8. CASE Open
  <2>1. /\ up /\ stream' /\ UNCHANGED <<up, armed, frames>> /\ Load(cache')
        /\ cache' \in Body
    BY <1>8, MissingIsBody DEF Open, DeltaTypes
  <2> QED BY <1>7, <2>1 DEF Shape, Index
<1>9. CASE Arrive
  <2>1. PICK b \in Replies : Takes(b)
    BY <1>9, ArriveTakes
  <2>2. UNCHANGED <<up, armed, stream, frames>>
    BY <2>1 DEF Takes
  <2>3. CASE Load(Stored(b))
    <3>1. Stored(b) \in Body
      BY RepliesAreBodies DEF Stored, DeltaTypes
    <3> QED BY <1>7, <2>2, <2>3, <3>1 DEF Shape, Index
  <2>4. CASE load' = {} /\ UNCHANGED looked
    <3>1. \A s \in looked : s.why # "load"
      BY DEF Shape
    <3> QED BY <2>2, <2>4, <3>1 DEF Shape, Index
  <2> QED BY <2>1, <2>3, <2>4 DEF Takes
<1>10. CASE OnFrame
  <2>1. frames # <<>> /\ frames' = Tail(frames) /\ HearsOf(frames[1])
    BY <1>10, FrameIsHeard
  <2>2. \A n \in Index' : frames'[n].v = None => frames'[n].full
    <3>1. \A n \in Index' : n + 1 \in Index /\ frames'[n] = frames[n + 1]
      BY <2>1, TakesFrame DEF DeltaTypes
    <3>2. \A n \in Index : frames[n].v = None => frames[n].full
      BY DEF Shape
    <3> QED BY <3>1, <3>2
  <2>3. UNCHANGED <<up, armed, stream>> /\ stream
    BY <2>1 DEF HearsOf, Shape
  <2>4. CASE Load(cache)
    BY <1>7, <2>2, <2>3, <2>4 DEF Shape, DeltaTypes
  <2>5. CASE UNCHANGED <<load, looked>>
    BY <2>2, <2>3, <2>5 DEF Shape, Replies
  <2> QED BY <2>1, <2>4, <2>5 DEF HearsOf
<1>11. CASE Edit \/ Vanish
  BY <1>11 DEF Edit, Vanish, Shape, Replies, Index
<1>12. CASE Drop \/ Die
  <2>1. frames' = <<>> /\ ~stream' /\ Len(frames') = 0
    BY <1>12 DEF Drop, Die
  <2>2. Drop => UNCHANGED <<up, armed, looked, load>>
    BY DEF Drop, serverVars
  <2>3. Die => looked' = {} /\ armed' = FALSE /\ load' \subseteq load
    BY DEF Die
  <2> QED BY <1>12, <2>1, <2>2, <2>3 DEF Shape, Replies, Index
<1>13. CASE Boot
  BY <1>13 DEF Boot, Shape, Replies, Index
<1>14. CASE UNCHANGED vars
  BY <1>14 DEF vars, serverVars, Shape, Replies, Index
<1> QED BY <1>1, <1>2, <1>3, <1>4, <1>5, <1>6, <1>8, <1>9, <1>10, <1>11, <1>12, <1>13, <1>14
        DEF Next, Serve, Follow

\* A read that no frame tells of.
LEMMA UntoldRead ==
  ASSUME DeltaTypes, ServerSees, NEW key \in Num, ~Unreadable(key), board.key <= key, key <= stamp,
         key = StatKey \/ armed, ~Event, looked' = {},
         board' = Refreshed(key), pending' = pending \union NewlyChanged(key),
         UNCHANGED <<diskVars, up, sent, armed>>
  PROVE  ServerSees'
<1> DEFINE b == Refreshed(key)
           ids == NewlyChanged(key)
<1>1. /\ b.key = key /\ key # None /\ b.version \in {board.version, board.version + 1}
      /\ b.tasks \in {disk, board.tasks} /\ (key = stamp => b.tasks = disk)
      /\ (b.version # board.version => ids # {})
      /\ (board.tasks = disk => b.version = board.version /\ ids = {})
      /\ (ids # {} => readable)
  BY ReadsDisk
<1>2. board' = b /\ pending' = pending \union ids /\ UNCHANGED <<disk, stamp, readable, up, sent, armed>>
  BY DEF diskVars
<1> HIDE DEF b, ids
<1>3. sent \in Nat /\ board.version \in Nat
  BY DEF DeltaTypes
<1>4. up /\ ~armed => sent = board.version /\ board.tasks = disk
  BY <1>1 DEF ServerSees, StatKey
<1>5. ~readable => pending' = {}
  BY <1>1, <1>2 DEF ServerSees
<1>6. pending' = {} => sent = b.version
  BY <1>1, <1>2 DEF ServerSees
<1>7. sent <= b.version
  BY <1>1, <1>3 DEF ServerSees
<1> QED BY <1>1, <1>2, <1>4, <1>5, <1>6, <1>7 DEF ServerSees, Event

\* What a frame of the timer tells.
Tells(l, f) ==
  /\ l.why = "event" /\ looked' = {} /\ pending' = {} /\ f \in Deltas /\ Emit(f)
  /\ \/ Unreadable(l.key) /\ f = ReloadFrame /\ UNCHANGED <<board, sent>>
     \/ /\ ~Unreadable(l.key) /\ board' = Refreshed(l.key) /\ sent' = Refreshed(l.key).version
        /\ f = Frame(Refreshed(l.key), pending \union NewlyChanged(l.key))
  /\ UNCHANGED <<diskVars, up, armed, stream, load, cache, clientVars, bounds>>

LEMMA BroadcastTells ==
  ASSUME DeltaTypes, ServerSees, Broadcast
  PROVE  \E l \in looked : \E f : Tells(l, f)
<1>1. PICK l \in looked :
        /\ l.why = "event" /\ looked' = {} /\ pending' = {}
        /\ IF Unreadable(l.key)
             THEN Emit(ReloadFrame) /\ UNCHANGED <<board, sent>>
             ELSE LET b == Refreshed(l.key) IN
                  /\ board' = b /\ sent' = b.version
                  /\ Emit(Frame(b, pending \union NewlyChanged(l.key)))
        /\ UNCHANGED <<diskVars, up, armed, stream, load, cache, clientVars, bounds>>
  BY DEF Broadcast
<1>2. CASE Unreadable(l.key)
  <2>1. ReloadFrame \in Deltas
    BY MissingIsBody, FrameIsDelta DEF DeltaTypes
  <2>2. Tells(l, ReloadFrame)
    BY <1>1, <1>2, <2>1 DEF Tells
  <2> QED BY <2>2
<1>3. CASE ~Unreadable(l.key)
  <2> DEFINE b == Refreshed(l.key)
             ids == pending \union NewlyChanged(l.key)
  <2>1. b \in Body /\ b.version \in Nat /\ ids \in SUBSET Ids
    BY <1>3, LookedAt, ReadsDisk DEF DeltaTypes
  <2>2. Frame(b, ids) \in Deltas
    <3> HIDE DEF b, ids
    <3> QED BY <2>1, FrameIsDelta
  <2>3. Tells(l, Frame(b, ids))
    BY <1>1, <1>3, <2>2 DEF Tells
  <2> QED BY <2>3
<1> QED BY <1>2, <1>3

\* What it does not tell, there is nothing to tell of.
LEMMA TellsAll ==
  ASSUME DeltaTypes, ServerSees, NEW l \in looked, Unreadable(l.key)
  PROVE  pending = {} /\ sent = board.version /\ (armed \/ ~readable)
<1>1. pending = {}
  BY DEF ServerSees, Unreadable
<1>2. armed \/ ~readable
  BY DEF ServerSees, Unreadable, StatKey, DeltaTypes, None
<1> QED BY <1>1, <1>2 DEF ServerSees

LEMMA ServerStep ==
  ASSUME Settled, DeltaTypes, Shape, ServerSees, [Next]_vars
  PROVE  ServerSees'
<1>1. ASSUME NEW why \in {"event", "load"}, Look([why |-> why, key |-> StatKey]),
             why = "event" \/ UNCHANGED armed,
             UNCHANGED <<diskVars, up, board, pending, sent>>
      PROVE  ServerSees'
  <2>1. /\ looked = {} /\ looked' = {[why |-> why, key |-> StatKey]} /\ ~Event
        /\ UNCHANGED <<disk, stamp, readable, up, board, pending, sent>>
    BY <1>1 DEF Look, Event, diskVars
  <2>2. \A s \in looked' : s.key = StatKey /\ s.why = why
    BY <2>1
  <2>3. /\ StatKey = None => pending = {}
        /\ StatKey # None => board.key <= StatKey /\ StatKey <= stamp
    <3>1. CASE readable
      BY <3>1 DEF StatKey, ServerSees, DeltaTypes, None
    <3>2. CASE ~readable
      BY <3>2 DEF StatKey, ServerSees
    <3> QED BY <3>1, <3>2
  <2>4. StatKey' = StatKey
    BY <2>1 DEF StatKey
  <2>5. Event' <=> why = "event"
    BY <2>1 DEF Event
  <2> QED BY <1>1, <2>1, <2>2, <2>3, <2>4, <2>5 DEF ServerSees
<1>2. CASE TimerFires
  BY <1>1, <1>2 DEF TimerFires
<1>3. CASE TakeLoad
  BY <1>1, <1>3 DEF TakeLoad
<1>4. CASE Broadcast
  <2>1. PICK l \in looked : \E f : Tells(l, f)
    BY <1>4, BroadcastTells
  <2>2. PICK f : Tells(l, f)
    BY <2>1
  <2>3. looked' = {} /\ pending' = {} /\ UNCHANGED <<disk, stamp, readable, up, armed>>
    BY <2>2 DEF Tells, diskVars
  <2>4. CASE Unreadable(l.key)
    <3>1. UNCHANGED <<board, sent>>
      BY <2>2, <2>4 DEF Tells
    <3>2. pending = {} /\ sent = board.version /\ (armed \/ ~readable)
      BY <2>4, TellsAll
    <3> QED BY <2>3, <3>1, <3>2 DEF ServerSees
  <2>5. CASE ~Unreadable(l.key)
    <3> DEFINE b == Refreshed(l.key)
    <3>1. board' = b /\ sent' = b.version
      BY <2>2, <2>5 DEF Tells
    <3>2. b \in Body /\ b.version \in {board.version, board.version + 1} /\ b.key = l.key /\ l.key # None
          /\ l.key <= stamp /\ (l.key = stamp => b.tasks = disk)
      BY <2>5, LookedAt, ReadsDisk
    <3>3. armed \/ l.key = stamp
      BY <3>2 DEF ServerSees, StatKey
    <3> HIDE DEF b
    <3>4. b.version \in Nat
      BY <3>2 DEF DeltaTypes
    <3> QED BY <2>3, <3>1, <3>2, <3>3, <3>4 DEF ServerSees
  <2> QED BY <2>4, <2>5
<1>5. CASE Refresh
  <2>1. looked = {} /\ ~Event
    BY <1>5 DEF Refresh, Event
  <2> QED BY <1>5, <2>1, StatReads, UntoldRead DEF Refresh
<1>6. ASSUME NEW s \in looked, s.why # "event", looked' = {},
             \/ UNCHANGED <<board, pending>>
             \/ /\ ~Unreadable(s.key) /\ board' = Refreshed(s.key)
                /\ pending' = pending \union NewlyChanged(s.key),
             UNCHANGED <<diskVars, up, sent, armed>>
      PROVE  ServerSees'
  <2>1. ~Event
    BY <1>6 DEF Event, Shape
  <2>2. CASE UNCHANGED <<board, pending>>
    BY <1>6, <2>1, <2>2 DEF ServerSees, diskVars
  <2>3. CASE ~Unreadable(s.key) /\ board' = Refreshed(s.key) /\ pending' = pending \union NewlyChanged(s.key)
    <3>1. s.key \in Num /\ board.key <= s.key /\ s.key <= stamp /\ (s.key = StatKey \/ armed)
      BY <2>3, LookedAt DEF ServerSees
    <3> QED BY <1>6, <2>1, <2>3, <3>1, UntoldRead
  <2> QED BY <1>6, <2>2, <2>3
<1>7. CASE AnswerLost
  <2>1. PICK s \in looked :
          /\ s.why = "lost" /\ looked' = {}
          /\ IF Unreadable(s.key) THEN UNCHANGED <<board, pending>>
             ELSE board' = Refreshed(s.key) /\ pending' = pending \union NewlyChanged(s.key)
          /\ UNCHANGED <<diskVars, up, sent, armed>>
    BY <1>7 DEF AnswerLost
  <2> QED BY <1>6, <2>1
<1>8. CASE AnswerLoad
  <2>1. PICK s \in looked : \E b : Answers(s, b)
    BY <1>8, LoadIsAnswered
  <2>2. PICK b : Answers(s, b)
    BY <2>1
  <2> QED BY <1>6, <2>2 DEF Answers
<1>9. ASSUME UNCHANGED <<diskVars, up, board, pending, sent, armed>>,
             UNCHANGED looked \/ \E stored \in Body : Load(stored)
      PROVE  ServerSees'
  <2>1. UNCHANGED <<disk, stamp, readable, up, board, pending, sent, armed>>
    BY <1>9 DEF diskVars
  <2>2. (Event' <=> Event) /\ \A s \in looked' : \E u \in looked : u.key = s.key
    BY <1>9, LoadsAnew DEF Event
  <2>3. StatKey' = StatKey
    BY <2>1 DEF StatKey
  <2> HIDE DEF StatKey
  <2> QED BY <2>1, <2>2, <2>3 DEF ServerSees
<1>10. CASE Open
  <2>1. cache' \in Body /\ Load(cache')
    BY <1>10, MissingIsBody DEF Open, DeltaTypes
  <2> QED BY <1>9, <1>10, <2>1 DEF Open
<1>11. CASE Arrive
  <2>1. PICK b \in Replies : Takes(b)
    BY <1>11, ArriveTakes
  <2>2. Stored(b) \in Body
    BY RepliesAreBodies DEF Stored, DeltaTypes
  <2> QED BY <1>9, <2>1, <2>2 DEF Takes
<1>12. CASE OnFrame
  <2>1. HearsOf(frames[1])
    BY <1>12, FrameIsHeard
  <2>2. cache \in Body
    BY DEF DeltaTypes
  <2> QED BY <1>9, <2>1, <2>2 DEF HearsOf
<1>13. CASE Edit
  <2>1. stamp' = stamp + 1 /\ readable' = TRUE /\ armed' = up /\ UNCHANGED <<up, board, pending, sent, looked>>
    BY <1>13 DEF Edit
  <2>2. stamp \in Nat /\ board.key # stamp + 1 /\ board.key <= stamp + 1
        /\ \A s \in looked : s.key <= stamp => s.key <= stamp + 1
    BY DEF ServerSees, DeltaTypes, Body, Looks, Num, None
  <2>3. looked # {} => up
    BY DEF Shape
  <2> QED BY <2>1, <2>2, <2>3 DEF ServerSees
<1>14. CASE Vanish
  <2>1. /\ pending = {} /\ readable' = FALSE /\ armed' = up
        /\ UNCHANGED <<disk, stamp, up, board, pending, sent, looked>>
    BY <1>14 DEF Vanish
  <2>2. looked # {} => up
    BY DEF Shape
  <2> QED BY <2>1, <2>2 DEF ServerSees
<1>15. CASE Drop
  BY <1>9, <1>15 DEF Drop, serverVars
<1>16. CASE Die
  BY <1>16 DEF Die, ServerSees, diskVars
<1>17. CASE Boot
  <2>1. /\ looked' = {} /\ pending' = {} /\ sent' = 0 /\ UNCHANGED <<disk, stamp, readable>>
        /\ board'.version = 0 /\ (readable => board'.key = stamp /\ board'.tasks = disk)
        /\ (~readable => board'.key = None)
    BY <1>17, MissingIsBody DEF Boot, Shape, diskVars
  <2>2. stamp \in Nat /\ None <= stamp /\ None # stamp /\ stamp # None
    BY DEF DeltaTypes, None
  <2> QED BY <2>1, <2>2 DEF ServerSees
<1>18. CASE UNCHANGED vars
  BY <1>9, <1>18 DEF vars, serverVars
<1> QED BY <1>2, <1>3, <1>4, <1>5, <1>7, <1>8, <1>10, <1>11, <1>12, <1>13, <1>14, <1>15, <1>16, <1>17, <1>18
        DEF Next, Serve, Follow

\* A read of the disk turns a page of the book at most.
LEMMA BookRead ==
  ASSUME DeltaTypes, ServerSees, NEW key \in Num, ~Unreadable(key), board.key <= key, key <= stamp,
         NEW c \in [Nat -> Text], Book(c), board' = Refreshed(key), UNCHANGED <<disk, stamp>>,
         \/ sent' = sent /\ pending \union NewlyChanged(key) \subseteq pending'
         \/ sent' = Refreshed(key).version
  PROVE  \E d \in [Nat -> Text] :
         /\ Book(d)'
         /\ board.key # None => \A v \in 0..board.version : d[v] = c[v]
         /\ \A i \in Ids \ (pending \union NewlyChanged(key)) : d[sent][i] = board'.tasks[i]
         /\ \A r \in Body : Told(c, r) => Told(d, r)'
         /\ \A f \in Deltas : Carries(c, f) => Carries(d, f)'
<1> PICK d : d = [c EXCEPT ![Refreshed(key).version] = Refreshed(key).tasks]
  OBVIOUS
<1> DEFINE b == Refreshed(key)
           ids == NewlyChanged(key)
<1>1. /\ b \in Body /\ b.key = key /\ key # None /\ b.version \in {board.version, board.version + 1}
      /\ b.tasks \in {disk, board.tasks} /\ (board.key = stamp => b = board)
      /\ (b.version = board.version /\ board.key # None => b.tasks = board.tasks)
      /\ (board.key = None => b.version = board.version)
      /\ (board.key # None => \A i \in Ids \ ids : b.tasks[i] = board.tasks[i])
  BY ReadsDisk
<1>2. /\ board' = b /\ d = [c EXCEPT ![b.version] = b.tasks]
      /\ (sent' = sent /\ pending \union ids \subseteq pending') \/ sent' = b.version
  OBVIOUS
<1> HIDE DEF b, ids
<1>3. /\ board.version \in Nat /\ sent \in Nat /\ sent <= board.version /\ b.version \in Nat
      /\ b.tasks \in Text /\ disk \in Text /\ board.tasks \in Text
      /\ (board.key = None => board.version = 0 /\ sent = 0)
  BY <1>1 DEF DeltaTypes, ServerSees, Body
<1>4. d \in [Nat -> Text] /\ d[b.version] = b.tasks /\ \A v \in Nat : v # b.version => d[v] = c[v]
  BY <1>1, <1>2, <1>3
<1>5. board.key # None => \A v \in 0..board.version : d[v] = c[v]
  BY <1>1, <1>3, <1>4 DEF Book
<1>6. \A i \in Ids \ (pending \union ids) : d[sent][i] = b.tasks[i]
  <2>1. CASE board.key = None
    BY <1>1, <1>3, <1>4, <2>1
  <2>2. CASE board.key # None
    <3>1. d[sent] = c[sent]
      BY <1>3, <1>5, <2>2
    <3> QED BY <1>1, <2>2, <3>1 DEF Book
  <2> QED BY <2>1, <2>2
<1>7. ASSUME NEW x \in Text, Past(x) PROVE NotOlder(b.tasks, x) /\ Past(x)'
  BY <1>1, <1>2, <1>7 DEF Past, NotOlder
<1>8. NotOlder(b.tasks, b.tasks) /\ \A x : x = b.tasks => Past(x)'
  <2>1. NotOlder(disk, disk) /\ NotOlder(board.tasks, board.tasks) /\ \A i \in Ids : disk[i] <= stamp
    BY <1>3 DEF NotOlder, Text, Book
  <2>2. Past(board.tasks)
    BY <1>3 DEF Book
  <2> QED BY <1>1, <1>2, <2>1, <2>2 DEF Past
<1>9. \A w \in 0..b.version : d[w] = b.tasks \/ (w \in 0..board.version /\ d[w] = c[w])
  BY <1>1, <1>3, <1>4
<1>10. \A w \in 0..b.version : Past(d[w])'
  <2> SUFFICES ASSUME NEW w \in 0..b.version PROVE Past(d[w])'
    OBVIOUS
  <2>1. CASE d[w] = b.tasks
    BY <1>8, <2>1 DEF Past
  <2>2. CASE w \in 0..board.version /\ d[w] = c[w]
    <3>1. c[w] \in Text /\ Past(c[w])
      BY <1>3, <2>2 DEF Book
    <3>2. Past(c[w])'
      BY <1>7, <3>1
    <3> QED BY <2>2, <3>2 DEF Past
  <2> QED BY <1>9, <2>1, <2>2
<1>11. \A v, w \in 0..b.version : v <= w => NotOlder(d[w], d[v])
  <2> SUFFICES ASSUME NEW v \in 0..b.version, NEW w \in 0..b.version, v <= w PROVE NotOlder(d[w], d[v])
    OBVIOUS
  <2>1. CASE w = b.version /\ v = b.version
    BY <1>4, <1>8, <2>1
  <2>2. CASE w = b.version /\ v # b.version
    <3>1. v \in 0..board.version /\ d[v] = c[v] /\ c[v] \in Text
      BY <1>1, <1>3, <1>4, <2>2
    <3>2. Past(c[v])
      BY <3>1 DEF Book
    <3> QED BY <1>4, <1>7, <2>2, <3>1, <3>2
  <2>3. CASE w # b.version
    <3>1. v \in 0..board.version /\ w \in 0..board.version /\ d[v] = c[v] /\ d[w] = c[w]
      BY <1>1, <1>3, <1>4, <2>3
    <3> QED BY <3>1 DEF Book
  <2> QED BY <2>1, <2>2, <2>3
<1>12. Book(d)'
  <2>1. \A i \in Ids : d[sent'][i] # b.tasks[i] => i \in pending'
    BY <1>2, <1>4, <1>6
  <2>2. \A i \in Ids : disk'[i] <= stamp'
    BY DEF Book
  <2> QED BY <1>2, <1>4, <1>10, <1>11, <2>1, <2>2 DEF Book
<1>13. ASSUME NEW r \in Body, Told(c, r) PROVE Told(d, r)'
  <2>1. r.version # None =>
          board.key # None /\ r.version \in 0..board.version /\ r.tasks = c[r.version]
    BY <1>3, <1>13 DEF Told, Body, Num
  <2>2. r.key = stamp => r = b
    BY <1>1, <1>13 DEF Told
  <2> QED BY <1>1, <1>2, <1>3, <1>5, <2>1, <2>2 DEF Told
<1>14. ASSUME NEW f \in Deltas, Carries(c, f) PROVE Carries(d, f)'
  <2> SUFFICES ASSUME f.v # None PROVE Carries(d, f)'
    BY DEF Carries
  <2>1. /\ board.key # None /\ f.base <= f.v /\ f.v <= sent /\ f.v \in Nat /\ f.base \in Nat
        /\ ~f.full => \A i \in Ids : c[f.v][i] = IF i \in DOMAIN f.tasks THEN f.tasks[i] ELSE c[f.base][i]
    BY <1>14 DEF Carries, Deltas, Num
  <2>2. d[f.v] = c[f.v] /\ d[f.base] = c[f.base]
    BY <1>3, <1>5, <2>1
  <2>3. f.v <= sent'
    BY <1>1, <1>2, <1>3, <2>1
  <2> QED BY <1>1, <1>2, <2>1, <2>2, <2>3 DEF Carries
<1> QED BY <1>2, <1>4, <1>5, <1>6, <1>12, <1>13, <1>14 DEF ids

\* What the page gets of what it was to get, the server having read nothing.
LEMMA ReadsOn ==
  ASSUME NEW c, Reads(c), UNCHANGED <<board, sent, stamp, stream>>,
         stream => \/ version' = None \/ UNCHANGED <<version, shown>>
                   \/ board.key # None /\ version' <= board.version /\ shown' = c[version'],
         stream => \A b \in Kept' \union Replies' : b \in Kept \union Replies \/ b = Missing,
         stream => \A n \in Index' : \E m \in Index : frames'[n] = frames[m],
         stamp \in Nat
  PROVE  Reads(c)'
<1> SUFFICES ASSUME stream
             PROVE  /\ version' # None => board'.key # None /\ version' <= board'.version /\ shown' = c[version']
                    /\ \A b \in Kept' \union Replies' : Told(c, b)'
                    /\ \A n \in Index' : Carries(c, frames[n])'
  BY DEF Reads
<1>1. version' # None => board'.key # None /\ version' <= board'.version /\ shown' = c[version']
  BY DEF Reads
<1>2. ASSUME NEW b \in Kept' \union Replies' PROVE Told(c, b)'
  <2>1. Told(c, Missing)
    BY MissingIsBody DEF Told, None
  <2>2. Told(c, b)
    BY <2>1 DEF Reads
  <2> QED BY <2>2 DEF Told
<1>3. ASSUME NEW n \in Index' PROVE Carries(c, frames[n])'
  <2>1. PICK m \in Index : frames'[n] = frames[m]
    OBVIOUS
  <2>2. Carries(c, frames[m])
    BY DEF Reads
  <2> QED BY <2>1, <2>2 DEF Carries
<1> QED BY <1>1, <1>2, <1>3

\* An edit of the disk changes no page of the book.
LEMMA EditKeepsPast ==
  ASSUME DeltaTypes, \A i \in Ids : disk[i] <= stamp, Edit
  PROVE  /\ \A x \in Text : Past(x) => Past(x)'
         /\ \A i \in Ids : disk'[i] <= stamp'
<1>1. PICK ids \in SUBSET Ids, text \in {0, stamp + 1} :
        /\ disk' = [i \in Ids |-> IF i \in ids THEN text ELSE disk[i]]
        /\ stamp' = stamp + 1 /\ UNCHANGED board
  BY DEF Edit
<1>2. \A i \in Ids : disk'[i] \in {0, stamp + 1, disk[i]}
  BY <1>1
<1>3. stamp \in Nat /\ disk \in Text
  BY DEF DeltaTypes
<1>4. \A i \in Ids : disk[i] \in Nat
  BY <1>3 DEF Text
<1>5. \A i \in Ids : disk'[i] <= stamp'
  BY <1>1, <1>2, <1>3, <1>4
<1>6. ASSUME NEW x \in Text, Past(x) PROVE Past(x)'
  <2>1. \A i \in Ids : x[i] \in Nat /\ x[i] <= stamp /\ (disk[i] = 0 \/ disk[i] >= x[i])
    BY <1>6 DEF Past, NotOlder, Text
  <2>2. \A i \in Ids : x[i] <= stamp' /\ (disk'[i] = 0 \/ disk'[i] >= x[i])
    BY <1>1, <1>2, <1>3, <2>1
  <2> QED BY <1>1, <1>6, <2>2 DEF Past, NotOlder
<1> QED BY <1>5, <1>6

\* A delta that the page applies takes it from one page of the book to another.
LEMMA FrameApplies ==
  ASSUME DeltaTypes, ServerSees, stream, NEW c \in [Nat -> Text], Reads(c),
         frames[1] \in Deltas, 1 \in Index,
         ~frames[1].full, frames[1].base = version, frames[1].v # None
  PROVE  /\ frames[1].v \in 0..board.version /\ version <= frames[1].v /\ board.key # None
         /\ Applied(frames[1]) = c[frames[1].v]
<1> PICK f : f = frames[1]
  OBVIOUS
<1>1. Carries(c, f) /\ shown = c[version]
  BY DEF Reads, Deltas, None
<1>2. /\ f.v \in Nat /\ f.v <= sent /\ sent <= board.version /\ sent \in Nat /\ board.version \in Nat
      /\ board.key # None /\ version <= f.v
  BY <1>1 DEF Carries, ServerSees, DeltaTypes, Deltas, Num
<1>3. \A i \in Ids : Applied(f)[i] = c[f.v][i]
  BY <1>1 DEF Carries, Applied
<1>4. Applied(f) = c[f.v]
  <2>1. c[f.v] \in [Ids -> Nat]
    BY <1>2 DEF Text
  <2> QED BY <1>3, <2>1 DEF Applied
<1> QED BY <1>2, <1>4

LEMMA BookStep ==
  ASSUME ~LongCache, DeltaTypes, Shape, ServerSees, PageKeeps, [Next]_vars,
         NEW c \in [Nat -> Text], Book(c), Reads(c)
  PROVE  \E d \in [Nat -> Text] : Book(d)' /\ Reads(d)'
<1> USE RepliesAreBodies
<1>1. ASSUME UNCHANGED <<disk, stamp, board, sent>>, UNCHANGED pending \/ pending = {} PROVE Book(c)'
  BY <1>1 DEF Book, Past
<1>2. ASSUME Reads(c)', Book(c)' PROVE \E d \in [Nat -> Text] : Book(d)' /\ Reads(d)'
  BY <1>2
<1>3. stamp \in Nat
  BY DEF DeltaTypes
<1>4. ASSUME NEW key \in Num, ~Unreadable(key), board.key <= key, key <= stamp,
             board' = Refreshed(key), UNCHANGED <<disk, stamp>>,
             \/ sent' = sent /\ pending \union NewlyChanged(key) \subseteq pending'
             \/ sent' = Refreshed(key).version,
             UNCHANGED <<stream, version, shown>>, Kept' = Kept,
             \A b \in Replies' : b \in Replies \/ b \in Kept \/ b = board',
             \A n \in Index' : \/ \E m \in Index : frames'[n] = frames[m]
                               \/ stream /\ sent' = Refreshed(key).version
                                  /\ frames'[n] = Frame(Refreshed(key), pending \union NewlyChanged(key))
      PROVE  \E d \in [Nat -> Text] : Book(d)' /\ Reads(d)'
  <2>2. PICK d \in [Nat -> Text] :
        /\ Book(d)'
        /\ board.key # None => \A v \in 0..board.version : d[v] = c[v]
        /\ \A i \in Ids \ (pending \union NewlyChanged(key)) : d[sent][i] = board'.tasks[i]
        /\ \A r \in Body : Told(c, r) => Told(d, r)'
        /\ \A f \in Deltas : Carries(c, f) => Carries(d, f)'
    BY <1>4, BookRead
  <2> DEFINE b == Refreshed(key)
             ids == pending \union NewlyChanged(key)
  <2>3. /\ b \in Body /\ b.key # None /\ board.version \in Nat /\ b.version \in {board.version, board.version + 1}
        /\ NewlyChanged(key) \subseteq Ids
    BY <1>4, ReadsDisk DEF DeltaTypes
  <2>4. board' = b /\ ids \in SUBSET Ids
    BY <1>4, <2>3 DEF DeltaTypes
  <2>5. CASE stream
    <3>1. /\ version # None => board.key # None /\ version <= board.version /\ shown = c[version]
          /\ \A r \in Kept \union Replies : Told(c, r)
          /\ \A n \in Index : Carries(c, frames[n])
      BY <2>5 DEF Reads
    <3> HIDE DEF b, ids
    <3>2. version' # None => board'.key # None /\ version' <= board'.version /\ shown' = d[version']
      BY <1>4, <2>2, <2>3, <2>4, <3>1 DEF DeltaTypes, Num
    <3>3. Told(d, board)'
      <4>1. d[b.version] = board'.tasks
        BY <2>2, <2>4 DEF Book
      <4> QED BY <2>3, <2>4, <4>1 DEF Told
    <3>4. \A r \in Kept' \union Replies' : Told(d, r)'
      BY <1>4, <2>2, <3>1, <3>3
    <3>5. ASSUME sent' = b.version, NEW f, f = Frame(b, ids) PROVE Carries(d, f)'
      <4>1. /\ f.base = sent /\ f.v = b.version /\ DOMAIN f.tasks = ids
            /\ \A i \in ids : f.tasks[i] = b.tasks[i]
        BY <2>3, <2>4, <3>5, FrameIsDelta
      <4>2. sent <= b.version /\ b.version \in Nat /\ d[b.version] = b.tasks
        BY <2>2, <2>3, <2>4 DEF ServerSees, DeltaTypes, Book
      <4>3. \A i \in Ids : d[f.v][i] = IF i \in DOMAIN f.tasks THEN f.tasks[i] ELSE d[f.base][i]
        BY <2>2, <2>4, <4>1, <4>2 DEF ids
      <4> QED BY <2>3, <2>4, <3>5, <4>1, <4>2, <4>3 DEF Carries
    <3>6. ASSUME NEW n \in Index' PROVE Carries(d, frames[n])'
      <4>1. CASE \E m \in Index : frames'[n] = frames[m]
        <5>1. PICK m \in Index : frames'[n] = frames[m]
          BY <4>1
        <5>2. frames[m] \in Deltas
          BY ElementOfSeq DEF DeltaTypes, Index
        <5> QED BY <2>2, <3>1, <5>1, <5>2
      <4>2. CASE sent' = b.version /\ frames'[n] = Frame(b, ids)
        BY <3>5, <4>2
      <4> QED BY <1>4, <4>1, <4>2 DEF b, ids
    <3> QED BY <2>2, <3>2, <3>4, <3>6 DEF Reads
  <2>6. CASE ~stream
    BY <1>4, <2>2, <2>6 DEF Reads
  <2> QED BY <2>5, <2>6
<1>5. ASSUME UNCHANGED <<disk, stamp, board, pending, sent, stream, frames, cache, load, version, shown>>
      PROVE  Book(c)' /\ Reads(c)'
  <2>1. Kept' = Kept /\ Replies' = Replies /\ Index' = Index
    BY <1>5 DEF Kept, Replies, Index
  <2> QED BY <1>1, <1>3, <1>5, <2>1, ReadsOn
<1>6. CASE TimerFires \/ TakeLoad \/ Vanish \/ UNCHANGED vars
  <2>1. UNCHANGED <<disk, stamp, board, pending, sent, stream, frames, cache, load, version, shown>>
    BY <1>6 DEF TimerFires, TakeLoad, Vanish, vars, diskVars, serverVars, clientVars
  <2> QED BY <1>2, <1>5, <2>1
<1>7. CASE Broadcast
  <2>1. PICK l \in looked : \E f : Tells(l, f)
    BY <1>7, BroadcastTells
  <2>2. PICK f : Tells(l, f)
    BY <2>1
  <2>3. /\ UNCHANGED <<disk, stamp, stream, version, shown>> /\ pending' = {}
        /\ Kept' = Kept /\ Replies' = Replies /\ f \in Deltas /\ Emit(f)
    BY <2>2 DEF Tells, diskVars, clientVars, Kept, Replies
  <2>4. \A n \in Index' : (\E m \in Index : frames'[n] = frames[m]) \/ (stream /\ frames'[n] = f)
    <3>1. CASE stream
      BY <2>3, <3>1, Emits DEF DeltaTypes
    <3>2. CASE ~stream
      BY <2>3, <3>2, Emits DEF DeltaTypes, Index
    <3> QED BY <3>1, <3>2
  <2>5. CASE Unreadable(l.key)
    <3>1. UNCHANGED <<board, sent>> /\ f.v = None
      BY <2>2, <2>5 DEF Tells, ReloadFrame
    <3>2. Book(c)'
      BY <1>1, <2>3, <2>5, <3>1, TellsAll
    <3>3. Reads(c)'
      <4> SUFFICES ASSUME stream
                   PROVE  /\ version' # None => board'.key # None /\ version' <= board'.version /\ shown' = c[version']
                          /\ \A b \in Kept' \union Replies' : Told(c, b)'
                          /\ \A n \in Index' : Carries(c, frames[n])'
        BY <2>3 DEF Reads
      <4>1. \A g : Carries(c, g) \/ g = f => Carries(c, g)'
        BY <3>1 DEF Carries
      <4>2. \A b : Told(c, b) => Told(c, b)'
        BY <2>3, <3>1 DEF Told
      <4>3. /\ version # None => board.key # None /\ version <= board.version /\ shown = c[version]
            /\ \A b \in Kept \union Replies : Told(c, b)
            /\ \A n \in Index : Carries(c, frames[n])
        BY DEF Reads
      <4>4. \A n \in Index' : Carries(c, frames[n])'
        BY <2>4, <4>1, <4>3
      <4>5. \A b \in Kept' \union Replies' : Told(c, b)'
        BY <2>3, <4>2, <4>3
      <4> QED BY <2>3, <3>1, <4>3, <4>4, <4>5
    <3> QED BY <3>2, <3>3
  <2>6. CASE ~Unreadable(l.key)
    <3>1. /\ board' = Refreshed(l.key) /\ sent' = Refreshed(l.key).version
          /\ f = Frame(Refreshed(l.key), pending \union NewlyChanged(l.key))
      BY <2>2, <2>6 DEF Tells
    <3>2. l.key \in Num /\ board.key <= l.key /\ l.key <= stamp
      BY <2>6, LookedAt
    <3> QED BY <1>4, <2>3, <2>4, <2>6, <3>1, <3>2
  <2> QED BY <2>5, <2>6
<1>8. CASE Refresh
  <2>1. /\ ~Unreadable(StatKey) /\ board' = Refreshed(StatKey) /\ pending' = pending \union NewlyChanged(StatKey)
        /\ UNCHANGED <<disk, stamp, sent, stream, version, shown, frames>> /\ Kept' = Kept /\ Replies' = Replies
        /\ Index' = Index
    BY <1>8 DEF Refresh, diskVars, clientVars, Kept, Replies, Index
  <2>2. StatKey \in Num /\ board.key <= StatKey /\ StatKey <= stamp
    BY <2>1, StatReads
  <2> QED BY <1>4, <2>1, <2>2
<1>9. CASE AnswerLost
  <2>1. PICK s \in looked :
          /\ IF Unreadable(s.key) THEN UNCHANGED <<board, pending>>
             ELSE board' = Refreshed(s.key) /\ pending' = pending \union NewlyChanged(s.key)
          /\ UNCHANGED <<disk, stamp, sent, stream, version, shown, frames, load, cache>>
    BY <1>9 DEF AnswerLost, diskVars, clientVars
  <2>2. Kept' = Kept /\ Replies' = Replies /\ Index' = Index
    BY <2>1 DEF Kept, Replies, Index
  <2>3. CASE Unreadable(s.key)
    BY <1>2, <1>5, <2>1, <2>3
  <2>4. CASE ~Unreadable(s.key)
    <3>1. s.key \in Num /\ board.key <= s.key /\ s.key <= stamp
      BY <2>4, LookedAt
    <3> QED BY <1>4, <2>1, <2>2, <2>4, <3>1
  <2> QED BY <2>3, <2>4
<1>10. CASE AnswerLoad
  <2>1. PICK s \in looked : \E b : Answers(s, b)
    BY <1>10, LoadIsAnswered
  <2>2. PICK b : Answers(s, b)
    BY <2>1
  <2>3. Replies' = {b} /\ Kept' = Kept
    BY <2>2, AnswerIsReply
  <2>4. UNCHANGED <<disk, stamp, sent, stream, version, shown, frames>> /\ Index' = Index
    BY <2>2 DEF Answers, diskVars, clientVars, Index
  <2>5. CASE UNCHANGED <<board, pending>> /\ (b \in Kept \/ b = Missing)
    <3>1. Book(c)'
      BY <1>1, <2>4, <2>5
    <3>2. Reads(c)'
      BY <1>3, <2>3, <2>4, <2>5, ReadsOn
    <3> QED BY <3>1, <3>2
  <2>6. CASE /\ ~Unreadable(s.key) /\ b = Refreshed(s.key)
             /\ board' = Refreshed(s.key) /\ pending' = pending \union NewlyChanged(s.key)
    <3>1. s.key \in Num /\ board.key <= s.key /\ s.key <= stamp
      BY <2>6, LookedAt
    <3> QED BY <1>4, <2>3, <2>4, <2>6, <3>1
  <2>7. \A l \in load : l.cached \in Kept
    BY DEF Kept
  <2> QED BY <2>2, <2>5, <2>6, <2>7 DEF Answers
<1>11. CASE Open
  <2>1. /\ UNCHANGED <<disk, stamp, board, pending, sent, frames>> /\ version' = None /\ ~stream
        /\ cache' = Missing /\ Load(cache')
    BY <1>11 DEF Open, diskVars
  <2>2. Replies' = {} /\ Kept' = {Missing}
    BY <2>1, LoadsAnew, MissingIsBody DEF Kept
  <2>3. Told(c, Missing) /\ \A b : Told(c, b) => Told(c, b)'
    BY <1>3, <2>1, MissingIsBody DEF Told, None
  <2>4. Index' = {}
    BY <2>1 DEF Shape, Index
  <2>5. Reads(c)'
    <3>1. \A b \in Kept' \union Replies' : Told(c, b)'
      BY <2>2, <2>3
    <3> QED BY <2>1, <2>4, <3>1 DEF Reads
  <2> QED BY <1>1, <1>2, <2>1, <2>5
<1>12. CASE Arrive
  <2>1. PICK b \in Replies : Takes(b)
    BY <1>12, ArriveTakes
  <2>2. UNCHANGED <<disk, stamp, board, pending, sent, stream, frames>> /\ cache' \in {b, cache} /\ Index' = Index
    BY <2>1 DEF Takes, Stored, diskVars, Index
  <2>3. Replies' = {} /\ Kept' \subseteq Kept \union Replies
    <3>1. cache' = Stored(b) /\ cache' \in Body /\ cache \in Kept
      BY <2>1, <2>2 DEF Takes, Kept
    <3>2. CASE load' = {}
      BY <2>2, <3>1, <3>2 DEF Kept, Replies
    <3>3. CASE Load(Stored(b))
      BY <2>2, <3>1, <3>3, LoadsAnew DEF Kept
    <3> QED BY <2>1, <3>2, <3>3 DEF Takes
  <2>4. stream => \/ UNCHANGED <<version, shown>> \/ version' = None
                  \/ board.key # None /\ version' <= board.version /\ shown' = c[version']
    BY <2>1 DEF Takes, Reads, Told
  <2>5. Reads(c)'
    BY <1>3, <2>2, <2>3, <2>4, ReadsOn
  <2> QED BY <1>1, <1>2, <2>2, <2>5
<1>13. CASE OnFrame
  <2>1. frames # <<>> /\ frames' = Tail(frames) /\ HearsOf(frames[1])
    BY <1>13, FrameIsHeard
  <2>2. /\ \A n \in Index' : \E m \in Index : frames'[n] = frames[m]
        /\ frames[1] \in Deltas /\ 1 \in Index
    BY <2>1, TakesFrame DEF DeltaTypes
  <2>3. stream /\ UNCHANGED <<disk, stamp, board, pending, sent, stream, cache>>
    BY <2>1 DEF Shape, HearsOf, diskVars
  <2>4. \A b \in Kept' \union Replies' : b \in Kept \union Replies
    <3>1. CASE Load(cache)
      BY <2>3, <3>1, LoadsAnew DEF Kept, DeltaTypes
    <3>2. CASE UNCHANGED load
      BY <2>3, <3>2 DEF Kept, Replies
    <3> QED BY <2>1, <3>1, <3>2 DEF HearsOf
  <2>5. \/ UNCHANGED <<version, shown>>
        \/ board.key # None /\ version' <= board.version /\ shown' = c[version']
    <3> DEFINE f == frames[1]
    <3>1. CASE UNCHANGED <<version, shown>>
      BY <3>1
    <3>2. CASE f.v # version /\ ~f.full /\ f.base = version /\ f.v # None /\ shown' = Applied(f) /\ version' = f.v
      <4>1. f.v \in 0..board.version /\ board.key # None /\ Applied(f) = c[f.v]
        BY <2>2, <2>3, <3>2, FrameApplies
      <4> QED BY <3>2, <4>1
    <3> QED BY <2>1, <3>1, <3>2 DEF HearsOf
  <2>6. Reads(c)'
    BY <1>3, <2>2, <2>3, <2>4, <2>5, ReadsOn
  <2> QED BY <1>1, <1>2, <2>3, <2>6
<1>14. CASE Edit
  <2>1. stamp' = stamp + 1 /\ UNCHANGED <<board, pending, sent, stream, frames, load, cache, version, shown>>
    BY <1>14 DEF Edit, clientVars
  <2>2. Book(c)'
    <3>1. \A w \in 0..board.version : Past(c[w])'
      <4> SUFFICES ASSUME NEW w \in 0..board.version PROVE Past(c[w])'
        OBVIOUS
      <4>1. c[w] \in Text /\ Past(c[w])
        BY DEF Book, DeltaTypes
      <4> QED BY <1>14, <4>1, EditKeepsPast DEF Book
    <3>2. \A i \in Ids : disk'[i] <= stamp'
      BY <1>14, EditKeepsPast DEF Book
    <3> QED BY <2>1, <3>1, <3>2 DEF Book
  <2>3. Kept' = Kept /\ Replies' = Replies /\ Index' = Index
    BY <2>1 DEF Kept, Replies, Index
  <2>4. \A b \in Kept \union Replies : Told(c, b) => Told(c, b)'
    <3> SUFFICES ASSUME NEW b \in Kept \union Replies, Told(c, b) PROVE Told(c, b)'
      OBVIOUS
    <3>1. b.key <= stamp /\ b.key \in Num
      BY DEF PageKeeps, Response, Body
    <3>2. b.key # stamp'
      BY <1>3, <2>1, <3>1 DEF Num, None
    <3> QED BY <2>1, <3>2 DEF Told
  <2>5. \A f : Carries(c, f) => Carries(c, f)'
    BY <2>1 DEF Carries
  <2>6. Reads(c)'
    BY <2>1, <2>3, <2>4, <2>5 DEF Reads
  <2> QED BY <2>2, <2>6
<1>15. CASE Drop \/ Die
  <2>1. ~stream' /\ UNCHANGED <<disk, stamp, board, pending, sent>>
    BY <1>15 DEF Drop, Die, serverVars, diskVars
  <2> QED BY <1>1, <1>2, <2>1 DEF Reads
<1>16. CASE Boot
  <2>1. PICK d : d = [v \in Nat |-> board'.tasks]
    OBVIOUS
  <2>2. /\ ~stream' /\ UNCHANGED <<disk, stamp>> /\ sent' = 0 /\ board'.version = 0 /\ board'.tasks \in {disk, NoTask}
        /\ NoTask \in Text
    BY <1>16, MissingIsBody DEF Boot, Shape, diskVars
  <2>3. disk \in Text /\ \A i \in Ids : disk[i] <= stamp
    BY DEF DeltaTypes, Book
  <2>4. board'.tasks \in Text /\ d \in [Nat -> Text]
    BY <2>1, <2>2, <2>3
  <2>5. NotOlder(board'.tasks, board'.tasks) /\ \A x : x = board'.tasks => Past(x)'
    BY <1>3, <2>2, <2>3 DEF Past, NotOlder, NoTask, Text
  <2>6. Book(d)'
    <3>1. d[0] = board'.tasks /\ \A w \in 0..0 : w = 0
      BY <2>1
    <3> QED BY <2>2, <2>3, <2>5, <3>1 DEF Book
  <2> QED BY <2>2, <2>4, <2>6 DEF Reads
<1> QED BY <1>6, <1>7, <1>8, <1>9, <1>10, <1>11, <1>12, <1>13, <1>14, <1>15, <1>16
        DEF Next, Serve, Follow

\* What the page has stays as good as it was, through a read of the disk.
LEMMA ReadKeeps ==
  ASSUME DeltaTypes, ServerSees, NEW key \in Num, ~Unreadable(key), board.key <= key, key <= stamp,
         NEW c \in [Nat -> Text], Book(c), board' = Refreshed(key), UNCHANGED <<disk, stamp>>
  PROVE  /\ \A x \in Text : Past(x) => Past(x)' /\ NotOlder(board'.tasks, x)
         /\ \A r \in Body : Response(r) => Response(r)'
         /\ \A r \in Body : r = board' => Response(r)'
<1> PICK b : b = Refreshed(key)
  OBVIOUS
<1>1. /\ b \in Body /\ b.key = key /\ key # None /\ b.version \in {board.version, board.version + 1}
      /\ b.tasks \in {disk, board.tasks} /\ (key = stamp => b.tasks = disk) /\ board' = b
  BY ReadsDisk
<1>2. \A x \in Text : Past(x) => Past(x)' /\ NotOlder(b.tasks, x)
  BY <1>1 DEF Past
<1>3. \A r \in Body : Response(r) => Response(r)'
  <2> SUFFICES ASSUME NEW r \in Body, Response(r) PROVE Response(r)'
    OBVIOUS
  <2>1. r.tasks \in Text /\ Past(r.tasks)
    BY DEF Body, Response
  <2>2. PICK x \in Text : x = r.tasks
    BY <2>1
  <2>3. Past(x)'
    BY <1>2, <2>1, <2>2
  <2> QED BY <2>2, <2>3 DEF Response, Past
<1>4. \A r \in Body : r = b => Response(r)'
  <2> SUFFICES Response(b)'
    OBVIOUS
  <2>1. disk \in Text /\ board.tasks \in Text /\ board.version \in Nat
    BY DEF DeltaTypes, Body
  <2>2. Past(board.tasks)
    <3>1. c[board.version] = board.tasks /\ \A w \in 0..board.version : Past(c[w])
      BY DEF Book
    <3> QED BY <2>1, <3>1
  <2>3. (\A i \in Ids : b.tasks[i] <= stamp) /\ NotOlder(disk, b.tasks) /\ NotOlder(b.tasks, b.tasks)
    BY <1>1, <2>1, <2>2 DEF Past, NotOlder, Text, Book
  <2>4. Past(b.tasks)'
    BY <1>1, <2>3 DEF Past
  <2>5. b.version # None
    BY <1>1, <2>1 DEF None
  <2> QED BY <1>1, <2>4, <2>5 DEF Response
<1> QED BY <1>1, <1>2, <1>3, <1>4

\* The page itself takes nothing.
LEMMA KeepsOn ==
  ASSUME DeltaTypes, PageKeeps, UNCHANGED <<shown, version>>,
         Kept' \subseteq Kept, Replies' \subseteq Replies, stream' => stream,
         \A x \in Text : Past(x) => Past(x)',
         \A r \in Body : Response(r) => Response(r)',
         \A s \in looked', l \in load' : s.why = "load" /\ s.key # None /\ s.key = l.cached.key =>
           NotOlder(l.cached.tasks, shown) /\ (stream' => l.cached = board')
  PROVE  PageKeeps'
<1>1. Past(shown)'
  <2>1. shown \in Text /\ Past(shown)
    BY DEF DeltaTypes, PageKeeps
  <2>2. PICK x \in Text : x = shown
    BY <2>1
  <2>3. Past(x)'
    BY <2>1, <2>2
  <2> QED BY <2>2, <2>3 DEF Past
<1>2. \A r \in Kept' \union Replies' : Response(r)'
  BY RepliesAreBodies DEF PageKeeps
<1>3. stream' /\ version' = None => shown' = NoTask \/ \A b \in Kept' : b = Missing
  BY DEF PageKeeps
<1>4. \A b \in Replies' : b.version = None \/ b.version < version' \/ NotOlder(b.tasks, shown')
  BY DEF PageKeeps
<1> QED BY <1>1, <1>2, <1>3, <1>4 DEF PageKeeps, NotOlder

LEMMA KeepsStep ==
  ASSUME ~LongCache, DeltaTypes, Shape, ServerSees, PageKeeps, [Next]_vars,
         NEW c \in [Nat -> Text], Book(c), Reads(c)
  PROVE  PageKeeps'
<1> USE RepliesAreBodies
<1>1. ASSUME UNCHANGED <<disk, stamp, board>>
      PROVE  /\ \A x \in Text : Past(x) => Past(x)'
             /\ \A r \in Body : Response(r) => Response(r)'
  BY <1>1 DEF Past, Response
<1>2. ASSUME UNCHANGED <<load, cache>> PROVE Kept' = Kept /\ Replies' = Replies
  BY <1>2 DEF Kept, Replies
<1>3. ASSUME NEW stored \in Body, Load(stored), cache' = stored
      PROVE  /\ Kept' = {stored} /\ Replies' = {} /\ \A s \in looked' : s.why # "load"
  <2>1. Replies' = {} /\ \A s \in looked' : s.why # "load"
    BY <1>3, LoadsAnew
  <2>2. Kept' = {stored}
    BY <1>3, LoadsAnew DEF Kept
  <2> QED BY <2>1, <2>2
<1>4. Response(Missing) /\ Past(NoTask)
  <2>1. stamp \in Nat /\ disk \in Text /\ board.tasks \in Text
    BY DEF DeltaTypes, Body
  <2>2. Past(NoTask)
    BY <2>1 DEF Past, NotOlder, NoTask, Text
  <2> QED BY <2>1, <2>2, MissingIsBody DEF Response, None
<1>5. CASE TimerFires
  <2>1. \A s \in looked' : s.why # "load"
    BY <1>5 DEF TimerFires, Look
  <2>2. UNCHANGED <<disk, stamp, board, load, cache, shown, version, stream>>
    BY <1>5 DEF TimerFires, diskVars, clientVars
  <2> QED BY <1>1, <1>2, <2>1, <2>2, KeepsOn
<1>6. CASE TakeLoad
  <2>1. UNCHANGED <<disk, stamp, board, load, cache, shown, version, stream>>
        /\ \A s \in looked' : s.key = StatKey
    BY <1>6 DEF TakeLoad, Look, diskVars, clientVars
  <2>2. ASSUME NEW l \in load, l.cached.key = StatKey, StatKey # None
        PROVE  NotOlder(l.cached.tasks, shown) /\ (stream => l.cached = board)
    <3>1. l.cached \in Kept /\ l.cached.key = stamp
      BY <2>2 DEF Kept, StatKey
    <3>2. l.cached.tasks = disk
      BY <3>1 DEF PageKeeps, Response
    <3>3. stream => l.cached = board
      BY <3>1 DEF Reads, Told
    <3> QED BY <3>2, <3>3 DEF PageKeeps, Past
  <2> QED BY <1>1, <1>2, <2>1, <2>2, KeepsOn
<1>7. ASSUME UNCHANGED <<load, cache, shown, version, stream>>, looked' = {},
             \A x \in Text : Past(x) => Past(x)', \A r \in Body : Response(r) => Response(r)'
      PROVE  PageKeeps'
  BY <1>2, <1>7, KeepsOn
<1>8. CASE Broadcast
  <2>1. PICK l \in looked : \E f : Tells(l, f)
    BY <1>8, BroadcastTells
  <2>2. PICK f : Tells(l, f)
    BY <2>1
  <2>3. UNCHANGED <<disk, stamp, load, cache, shown, version, stream>> /\ looked' = {}
    BY <2>2 DEF Tells, diskVars, clientVars
  <2>4. CASE Unreadable(l.key)
    BY <1>1, <1>7, <2>2, <2>3, <2>4 DEF Tells
  <2>5. CASE ~Unreadable(l.key)
    <3>1. board' = Refreshed(l.key) /\ l.key \in Num /\ board.key <= l.key /\ l.key <= stamp
      BY <2>2, <2>5, LookedAt DEF Tells
    <3> QED BY <1>7, <2>3, <2>5, <3>1, ReadKeeps
  <2> QED BY <2>4, <2>5
<1>9. CASE Refresh
  <2>1. /\ ~Unreadable(StatKey) /\ board' = Refreshed(StatKey) /\ looked' = {}
        /\ UNCHANGED <<disk, stamp, load, cache, shown, version, stream>>
    BY <1>9 DEF Refresh, diskVars, clientVars
  <2>2. StatKey \in Num /\ board.key <= StatKey /\ StatKey <= stamp
    BY <2>1, StatReads
  <2> QED BY <1>7, <2>1, <2>2, ReadKeeps
<1>10. CASE AnswerLost
  <2>1. PICK s \in looked :
          /\ looked' = {}
          /\ IF Unreadable(s.key) THEN UNCHANGED board ELSE board' = Refreshed(s.key)
          /\ UNCHANGED <<disk, stamp, load, cache, shown, version, stream>>
    BY <1>10 DEF AnswerLost, diskVars, clientVars
  <2>2. CASE Unreadable(s.key)
    BY <1>1, <1>7, <2>1, <2>2
  <2>3. CASE ~Unreadable(s.key)
    <3>1. board' = Refreshed(s.key) /\ s.key \in Num /\ board.key <= s.key /\ s.key <= stamp
      BY <2>1, <2>3, LookedAt
    <3> QED BY <1>7, <2>1, <2>3, <3>1, ReadKeeps
  <2> QED BY <2>2, <2>3
<1>11. CASE AnswerLoad
  <2>1. PICK s \in looked : \E b : Answers(s, b)
    BY <1>11, LoadIsAnswered
  <2>2. PICK b : Answers(s, b)
    BY <2>1
  <2>3. Replies' = {b} /\ Kept' = Kept /\ Replies = {}
    BY <2>2, AnswerIsReply
  <2>4. UNCHANGED <<disk, stamp, version, shown, stream>> /\ looked' = {} /\ s.why = "load"
    BY <2>2 DEF Answers, diskVars, clientVars
  <2>5. ASSUME \A x \in Text : Past(x) => Past(x)', \A r \in Body : Response(r) => Response(r)',
               \A r : r = b => Response(r)',
               b.version = None \/ NotOlder(b.tasks, shown)
        PROVE  PageKeeps'
    <3>1. Past(shown)'
      <4>1. PICK x \in Text : x = shown
        BY DEF DeltaTypes
      <4>2. Past(x)'
        BY <2>5, <4>1 DEF PageKeeps
      <4> QED BY <2>4, <4>1, <4>2 DEF Past
    <3>2. \A r \in Kept' \union Replies' : Response(r)'
      BY <2>3, <2>5 DEF PageKeeps
    <3>3. stream' /\ version' = None => shown' = NoTask \/ \A r \in Kept' : r = Missing
      BY <2>3, <2>4 DEF PageKeeps
    <3> QED BY <2>3, <2>4, <2>5, <3>1, <3>2, <3>3 DEF PageKeeps, NotOlder
  <2>6. CASE UNCHANGED board /\ s.key # None /\ \E l \in load : b = l.cached /\ s.key = l.cached.key
    <3>1. NotOlder(b.tasks, shown) /\ b \in Kept
      BY <2>4, <2>6 DEF PageKeeps, Kept
    <3>2. Response(b)
      BY <3>1 DEF PageKeeps
    <3>3. b \in Body
      BY <3>1
    <3> QED BY <1>1, <2>4, <2>5, <2>6, <3>1, <3>2, <3>3
  <2>7. CASE UNCHANGED board /\ b = Missing
    BY <1>1, <1>4, <2>4, <2>5, <2>7, MissingIsBody
  <2>8. CASE ~Unreadable(s.key) /\ b = Refreshed(s.key) /\ board' = Refreshed(s.key)
    <3>1. s.key \in Num /\ board.key <= s.key /\ s.key <= stamp /\ shown \in Text /\ Past(shown)
      BY <2>8, LookedAt DEF PageKeeps, DeltaTypes
    <3>2. b \in Body
      BY <2>8, <3>1, ReadsDisk
    <3> QED BY <2>4, <2>5, <2>8, <3>1, <3>2, ReadKeeps
  <2> QED BY <2>2, <2>6, <2>7, <2>8 DEF Answers
<1>12. CASE Open
  <2>1. /\ UNCHANGED <<disk, stamp, board, shown>> /\ cache' = Missing /\ Load(Missing)
    BY <1>12 DEF Open, diskVars
  <2>2. Kept' = {Missing} /\ Replies' = {} /\ \A s \in looked' : s.why # "load"
    BY <1>3, <2>1, MissingIsBody
  <2>3. Past(shown)'
    BY <2>1 DEF Past, PageKeeps
  <2>4. \A r \in Kept' \union Replies' : Response(r)'
    BY <1>1, <1>4, <2>1, <2>2, MissingIsBody
  <2> QED BY <2>2, <2>3, <2>4 DEF PageKeeps
<1>13. CASE Arrive
  <2>1. PICK b \in Replies : Takes(b)
    BY <1>13, ArriveTakes
  <2>2. UNCHANGED <<disk, stamp, board, stream>> /\ cache' = Stored(b) /\ cache' \in {b, cache}
        /\ b \in Body /\ cache' \in Body /\ Response(b)
    BY <2>1 DEF Takes, Stored, diskVars, DeltaTypes, PageKeeps
  <2>3. Replies' = {} /\ Kept' = {cache'} /\ \A s \in looked', l \in load' : s.why # "load"
    <3>1. CASE load' = {}
      BY <3>1 DEF Kept, Replies
    <3>2. CASE Load(Stored(b))
      BY <1>3, <2>2, <3>2
    <3> QED BY <2>1, <3>1, <3>2 DEF Takes
  <2>4. \A r \in Kept' \union Replies' : Response(r)'
    BY <1>1, <2>2, <2>3 DEF PageKeeps, Kept
  <2>5. Past(shown)' /\ (stream' /\ version' = None => shown' = NoTask)
    <3>1. CASE StepBack(b)
      <4>1. UNCHANGED <<shown, version>> /\ version # None
        BY <2>1, <2>2, <3>1 DEF Takes, StepBack, Body, Num, None, DeltaTypes
      <4> QED BY <2>2, <4>1 DEF Past, PageKeeps
    <3>2. CASE ~StepBack(b)
      <4>1. shown' = b.tasks /\ version' = b.version
        BY <2>1, <3>2 DEF Takes
      <4> QED BY <2>2, <4>1, MissingIsBody DEF Past, Response
    <3> QED BY <3>1, <3>2
  <2> QED BY <2>3, <2>4, <2>5 DEF PageKeeps
<1>14. CASE OnFrame
  <2>1. frames # <<>> /\ frames' = Tail(frames) /\ HearsOf(frames[1])
    BY <1>14, FrameIsHeard
  <2>2. frames[1] \in Deltas /\ 1 \in Index
    BY <2>1, TakesFrame DEF DeltaTypes
  <2>3. stream /\ UNCHANGED <<disk, stamp, board, stream, cache>> /\ cache \in Body /\ cache \in Kept
    BY <2>1 DEF Shape, HearsOf, diskVars, DeltaTypes, Kept
  <2>4. CASE UNCHANGED <<shown, version, load, looked>>
    BY <1>1, <1>2, <2>3, <2>4, KeepsOn DEF PageKeeps
  <2>5. CASE Load(cache) /\ UNCHANGED <<shown, version>>
    <3>1. Kept' = {cache} /\ Replies' = {} /\ \A s \in looked' : s.why # "load"
      BY <1>3, <2>3, <2>5
    <3> QED BY <1>1, <2>3, <2>5, <3>1, KeepsOn
  <2> DEFINE f == frames[1]
  <2>6. CASE /\ ~f.full /\ f.base = version /\ f.v # None
             /\ shown' = Applied(f) /\ version' = f.v /\ UNCHANGED <<load, looked>>
    <3>1. f.v \in 0..board.version /\ version <= f.v /\ shown' = c[f.v]
      BY <2>2, <2>3, <2>6, FrameApplies
    <3> HIDE DEF f
    <3>2. Past(c[f.v])
      BY <3>1 DEF Book
    <3>3. Past(shown)'
      BY <2>3, <3>1, <3>2 DEF Past
    <3>4. \A r \in Kept' \union Replies' : Response(r)'
      BY <1>1, <1>2, <2>3, <2>6 DEF PageKeeps
    <3>5. version' # None
      BY <2>6
    <3>6. ASSUME NEW b \in Replies PROVE b.version = None \/ b.version < f.v \/ NotOlder(b.tasks, c[f.v])
      <4>1. b \in Body /\ Told(c, b)
        BY <2>3 DEF Reads
      <4>2. CASE b.version # None /\ f.v <= b.version
        <5>1. b.version \in 0..board.version /\ b.tasks = c[b.version]
          BY <4>1, <4>2 DEF Told, Body, Num
        <5> QED BY <3>1, <4>2, <5>1 DEF Book
      <4>3. b.version \in Int /\ f.v \in Int
        BY <3>1, <4>1 DEF Body, Num, None
      <4> QED BY <4>2, <4>3
    <3>7. NotOlder(board.tasks, c[f.v])
      BY <3>2 DEF Past
    <3>8. \A s \in looked', l \in load' : s.why = "load" /\ s.key # None /\ s.key = l.cached.key =>
            NotOlder(l.cached.tasks, c[f.v]) /\ l.cached = board
      BY <2>3, <2>6, <3>7 DEF PageKeeps
    <3> QED BY <1>2, <2>3, <2>6, <3>1, <3>3, <3>4, <3>5, <3>6, <3>8 DEF PageKeeps, NotOlder
  <2> QED BY <2>1, <2>4, <2>5, <2>6 DEF HearsOf
<1>15. CASE Edit
  <2>1. UNCHANGED <<board, looked, stream, load, cache, version, shown>> /\ stamp' = stamp + 1 /\ stamp \in Nat
    BY <1>15 DEF Edit, clientVars, DeltaTypes
  <2>2. \A x \in Text : Past(x) => Past(x)'
    BY <1>15, EditKeepsPast DEF Book
  <2>3. ASSUME NEW r \in Body, Response(r) PROVE Response(r)'
    <3>1. PICK x \in Text : x = r.tasks
      BY DEF Body
    <3>2. Past(x)'
      BY <2>2, <2>3, <3>1 DEF Response
    <3>3. r.key <= stamp' /\ r.key # stamp'
      BY <2>1, <2>3 DEF Response, Body, Num, None
    <3> QED BY <2>1, <2>3, <3>1, <3>2, <3>3 DEF Response, Past
  <2> QED BY <1>2, <2>1, <2>2, <2>3, KeepsOn DEF PageKeeps
<1>16. CASE Vanish \/ UNCHANGED vars
  <2>1. UNCHANGED <<disk, stamp, board, looked, stream, load, cache, version, shown>>
    BY <1>16 DEF Vanish, vars, diskVars, serverVars, clientVars
  <2> QED BY <1>1, <1>2, <2>1, KeepsOn DEF PageKeeps
<1>17. CASE Drop \/ Die
  <2>1. /\ UNCHANGED <<disk, stamp, board, cache, version, shown>> /\ ~stream' /\ load' \subseteq load
        /\ looked' \subseteq looked
    BY <1>17 DEF Drop, Die, diskVars, serverVars, clientVars
  <2>2. Kept' \subseteq Kept /\ Replies' \subseteq Replies
    BY <2>1 DEF Kept, Replies
  <2> QED BY <1>1, <2>1, <2>2, KeepsOn DEF PageKeeps
<1>18. CASE Boot
  <2>1. /\ looked' = {} /\ UNCHANGED <<disk, stamp, load, cache, shown, version, stream>>
        /\ board'.tasks \in {disk, NoTask}
    BY <1>18, MissingIsBody DEF Boot, Shape, diskVars, clientVars
  <2>2. \A x \in Text : Past(x) => Past(x)'
    BY <2>1 DEF Past, NotOlder, NoTask
  <2>3. ASSUME NEW r \in Body, Response(r) PROVE Response(r)'
    <3>1. PICK x \in Text : x = r.tasks
      BY DEF Body
    <3>2. Past(x)'
      BY <2>2, <2>3, <3>1 DEF Response
    <3> QED BY <2>1, <2>3, <3>1, <3>2 DEF Response, Past
  <2> QED BY <1>7, <2>1, <2>2, <2>3
<1> QED BY <1>5, <1>6, <1>8, <1>9, <1>10, <1>11, <1>12, <1>13, <1>14, <1>15, <1>16, <1>17, <1>18
        DEF Next, Serve, Follow

\* Where the server owes no news, it has told its version, and the page has none above it.
LEMMA NothingOwed ==
  ASSUME DeltaTypes, Shape, ServerSees, NEW c \in [Nat -> Text], Reads(c), stream, ~armed, ~Event
  PROVE  /\ sent = board.version /\ sent \in Nat
         /\ version # None => version <= sent
         /\ \A b \in Kept \union Replies : b.version # None => b.version <= sent
<1>1. up /\ sent = board.version /\ sent \in Nat
  BY DEF Shape, ServerSees, DeltaTypes
<1> QED BY <1>1 DEF Reads, Told

LEMMA HearsStep ==
  ASSUME ~LongCache, DeltaTypes, Shape, ServerSees, PageHears, [Next]_vars,
         NEW c \in [Nat -> Text], Reads(c)
  PROVE  PageHears'
<1> USE RepliesAreBodies
<1>1. ASSUME UNCHANGED <<sent, frames, stream, readable, armed, load, version>>, Event' <=> Event
      PROVE  PageHears'
  <2>1. Replies' = Replies /\ Index' = Index
    BY <1>1 DEF Replies, Index
  <2> QED BY <1>1, <2>1 DEF PageHears
<1>2. ASSUME UNCHANGED <<sent, frames>>, stream' => armed' \/ Event' PROVE PageHears'
  BY <1>2 DEF PageHears
<1>3. ASSUME frames' = <<>>, ~stream' PROVE PageHears'
  BY <1>3 DEF PageHears
<1>4. CASE TimerFires
  <2>1. Event' /\ UNCHANGED <<sent, frames>>
    BY <1>4 DEF TimerFires, Look, Event
  <2> QED BY <1>2, <2>1
<1>5. CASE TakeLoad
  <2>1. ~Event /\ ~Event'
    BY <1>5 DEF TakeLoad, Look, Event
  <2> QED BY <1>1, <1>5, <2>1 DEF TakeLoad, diskVars, clientVars
<1>6. CASE Broadcast
  <2>1. PICK l \in looked : \E f : Tells(l, f)
    BY <1>6, BroadcastTells
  <2>2. PICK f : Tells(l, f)
    BY <2>1
  <2>3. UNCHANGED <<readable, armed, stream>> /\ f \in Deltas /\ Emit(f)
    BY <2>2 DEF Tells, diskVars
  <2>4. CASE stream
    <3>1. /\ frames' # <<>> /\ Len(frames') \in Index' /\ frames'[Len(frames')] = f
      BY <2>3, <2>4, Emits DEF DeltaTypes
    <3>2. f.v \in {sent', None}
      <4>1. CASE Unreadable(l.key)
        BY <2>2, <4>1, MissingIsBody, FrameIsDelta DEF Tells, DeltaTypes
      <4>2. CASE ~Unreadable(l.key)
        BY <2>2, <4>2 DEF Tells, Frame
      <4> QED BY <4>1, <4>2
    <3>3. ~readable' /\ ~armed' => f.v = None
      <4>1. ~readable /\ ~armed => Unreadable(l.key)
        BY DEF ServerSees, StatKey, Unreadable
      <4> QED BY <2>2, <2>3, <4>1 DEF Tells, ReloadFrame
    <3> QED BY <3>1, <3>2, <3>3 DEF PageHears
  <2>5. CASE ~stream
    <3>1. frames' = <<>>
      BY <2>3, <2>5, Emits DEF Shape, DeltaTypes
    <3> QED BY <1>3, <2>3, <2>5, <3>1
  <2> QED BY <2>4, <2>5 DEF DeltaTypes
<1>7. CASE Refresh \/ UNCHANGED vars
  <2>1. UNCHANGED <<sent, frames, stream, readable, armed, load, version, looked>>
    BY <1>7 DEF Refresh, vars, diskVars, serverVars, clientVars
  <2> QED BY <1>1, <2>1 DEF Event
<1>8. CASE AnswerLost
  <2>1. UNCHANGED <<sent, frames, stream, readable, armed, load, version>> /\ ~Event' /\ ~Event
    BY <1>8 DEF AnswerLost, diskVars, clientVars, Event, Shape
  <2> QED BY <1>1, <2>1
<1>9. CASE AnswerLoad
  <2>1. PICK s \in looked : \E b : Answers(s, b)
    BY <1>9, LoadIsAnswered
  <2>2. PICK b : Answers(s, b)
    BY <2>1
  <2>3. Replies' = {b} /\ load' # {} /\ Kept' = Kept
    BY <2>2, AnswerIsReply
  <2>4. UNCHANGED <<sent, frames, stream, readable, armed, version>> /\ ~Event
    BY <2>2 DEF Answers, diskVars, clientVars, Event, Shape
  <2>5. stream /\ ~armed => b.version \in {None, sent}
    <3> SUFFICES ASSUME stream, ~armed PROVE b.version \in {None, sent}
      OBVIOUS
    <3>1. s.key = StatKey /\ sent = board.version
      BY <2>4, NothingOwed DEF ServerSees
    <3>2. CASE s.key # None /\ \E l \in load : b = l.cached /\ s.key = l.cached.key
      <4>1. b \in Kept /\ b.key = stamp
        BY <3>1, <3>2 DEF Kept, StatKey
      <4>2. b = board
        BY <4>1 DEF Reads, Told
      <4> QED BY <3>1, <4>2
    <3>3. CASE ~Unreadable(s.key) /\ b = Refreshed(s.key)
      <4>1. s.key \in Num /\ board.key <= s.key /\ s.key <= stamp
        BY <3>3, LookedAt
      <4>2. board.tasks = disk
        <5>1. readable /\ up
          BY <3>1, <3>3 DEF StatKey, Unreadable, Shape
        <5> QED BY <2>4, <5>1 DEF ServerSees
      <4>3. b.version = board.version
        BY <3>3, <4>1, <4>2, ReadsDisk
      <4> QED BY <3>1, <4>3
    <3> QED BY <2>2, <3>2, <3>3, MissingIsBody DEF Answers
  <2>6. ~readable /\ ~armed => b.version = None
    <3>1. ~readable /\ ~armed => s.key = None /\ Unreadable(s.key)
      BY DEF ServerSees, StatKey, Unreadable
    <3> QED BY <2>2, <3>1, MissingIsBody DEF Answers
  <2> QED BY <2>3, <2>4, <2>5, <2>6 DEF PageHears
<1>10. CASE Open
  <2>1. /\ cache' = Missing /\ Load(Missing) /\ frames' = frames /\ frames = <<>>
    BY <1>10 DEF Open, Shape
  <2>2. load' # {} /\ Replies' = {}
    BY <2>1, LoadsAnew, MissingIsBody
  <2> QED BY <2>1, <2>2 DEF PageHears
<1>11. CASE Arrive
  <2>1. PICK b \in Replies : Takes(b)
    BY <1>11, ArriveTakes
  <2>2. /\ UNCHANGED <<sent, frames, stream, readable, armed>> /\ Index' = Index
        /\ b \in Body /\ Stored(b) \in Body /\ load # {}
    BY <2>1 DEF Takes, Stored, diskVars, DeltaTypes, Replies, Index
  <2>3. /\ Replies' = {}
        /\ Event' <=> Event
    <3>1. CASE load' = {} /\ UNCHANGED looked
      BY <3>1 DEF Replies, Event
    <3>2. CASE Load(Stored(b))
      BY <2>2, <3>2, LoadsAnew
    <3> QED BY <2>1, <3>1, <3>2 DEF Takes
  <2>4. IF StepBack(b) THEN version' = version ELSE version' = b.version
    BY <2>1 DEF Takes
  <2>5. StepBack(b) => load' = {} /\ version # None
    BY <2>1, <2>2 DEF Takes, StepBack, Body, Num, None, DeltaTypes
  <2>6. stream /\ frames = <<>> /\ ~armed /\ ~Event /\ load' = {} => version' \in {None, sent}
    <3> SUFFICES ASSUME stream, frames = <<>>, ~armed, ~Event, load' = {} PROVE version' \in {None, sent}
      OBVIOUS
    <3>1. b.version \in {None, sent} \/ (version = sent /\ b.version < version)
      BY DEF PageHears
    <3>2. sent \in Nat /\ (version # None => version <= sent) /\ version \in Num
      BY NothingOwed DEF DeltaTypes
    <3> QED BY <2>4, <2>5, <3>1, <3>2 DEF StepBack, Num, None
  <2>7. stream /\ ~readable /\ ~armed /\ ~Event =>
          (\E n \in Index : frames[n].v = None) \/ (load' = {} /\ version' = None) \/ load' # {}
    <3>1. b.version = None => version' = None
      BY <2>4 DEF StepBack
    <3> QED BY <2>2, <3>1 DEF PageHears
  <2> QED BY <2>2, <2>3, <2>6, <2>7 DEF PageHears
<1>12. CASE OnFrame
  <2>1. frames # <<>> /\ frames' = Tail(frames) /\ HearsOf(frames[1])
    BY <1>12, FrameIsHeard
  <2>2. /\ frames[1] \in Deltas /\ 1 \in Index
        /\ frames' # <<>> => frames'[Len(frames')] = frames[Len(frames)]
        /\ frames' = <<>> => Len(frames) = 1
        /\ \A n \in Index : n # 1 => n - 1 \in Index' /\ frames'[n - 1] = frames[n]
    BY <2>1, TakesFrame DEF DeltaTypes
  <2>3. stream /\ UNCHANGED <<sent, stream, readable, armed>> /\ cache \in Body
    BY <2>1 DEF Shape, HearsOf, diskVars, DeltaTypes
  <2>4. CASE Load(cache)
    <3>1. load' # {} /\ Replies' = {}
      BY <2>3, <2>4, LoadsAnew
    <3> QED BY <2>1, <2>2, <2>3, <3>1 DEF PageHears
  <2>5. CASE UNCHANGED <<load, looked>> /\ frames[1].v # None /\ version' = frames[1].v
             /\ (version = frames[1].v \/ frames[1].base = version)
    <3>1. Replies' = Replies /\ (Event' <=> Event)
      BY <2>5 DEF Replies, Event
    <3>2. version # None
      BY <2>2, <2>5 DEF Deltas, None
    <3>3. frames' = <<>> => version' = sent
      BY <2>1, <2>2, <2>5 DEF PageHears
    <3>4. ASSUME frames' = <<>>, ~armed, ~Event, NEW b \in Replies
          PROVE  b.version \in {None, sent} \/ (version' = sent /\ b.version < version')
      <4>1. sent \in Nat /\ (b.version # None => b.version <= sent) /\ b.version \in Num
        BY <2>3, <3>4, NothingOwed DEF Body
      <4> QED BY <3>3, <3>4, <4>1 DEF Num
    <3>5. ~readable /\ ~armed /\ ~Event =>
            \/ \E n \in Index' : frames'[n].v = None
            \/ load # {} /\ \A b \in Replies : b.version = None
      BY <2>2, <2>3, <2>5, <3>2 DEF PageHears
    <3> QED BY <2>1, <2>2, <2>3, <2>5, <3>1, <3>3, <3>4, <3>5 DEF PageHears
  <2> QED BY <2>1, <2>4, <2>5 DEF HearsOf
<1>13. CASE Edit \/ Vanish
  <2>1. UNCHANGED <<sent, frames, stream, up>> /\ armed' = up
    BY <1>13 DEF Edit, Vanish
  <2> QED BY <1>2, <2>1 DEF Shape
<1>14. CASE Drop \/ Die
  BY <1>3, <1>14 DEF Drop, Die
<1>15. CASE Boot
  BY <1>3, <1>15 DEF Boot, Shape
<1> QED BY <1>4, <1>5, <1>6, <1>7, <1>8, <1>9, <1>10, <1>11, <1>12, <1>13, <1>14, <1>15
        DEF Next, Serve, Follow

LEMMA DeltaBegins == Init => DeltaInv
<1> SUFFICES ASSUME Init PROVE DeltaInv
  OBVIOUS
<1>1. PICK l : l = [cached |-> Missing, reply |-> {}]
  OBVIOUS
<1>2. /\ load = {l} /\ l \in Loads /\ l.cached = Missing /\ l.reply = {} /\ cache = Missing
      /\ Replies = {} /\ Kept = {Missing}
  BY <1>1, MissingIsBody DEF Init, Loads, Replies, Kept
<1>3. frames = <<>> /\ Index = {} /\ frames \in Seq(Deltas)
  BY EmptySeq DEF Init, Index
<1>4. board \in Body /\ board.key = 0 /\ board.version = 0 /\ board.tasks = NoTask
  BY MissingIsBody DEF Init, Body, Num
<1>5. /\ disk = NoTask /\ stamp = 0 /\ readable = TRUE /\ up = TRUE /\ pending = {} /\ sent = 0 /\ armed = FALSE
      /\ looked = {} /\ stream = FALSE /\ shown = NoTask /\ version = None /\ seen = None /\ resynced = None
  BY DEF Init
<1>6. DeltaTypes
  <2>1. disk \in Text /\ shown \in Text /\ cache \in Body
    BY <1>2, <1>5, MissingIsBody
  <2>2. version \in Num /\ seen \in Num /\ resynced \in Num
    BY <1>5 DEF Num
  <2>3. load \in SUBSET Loads /\ looked \in SUBSET Looks /\ pending \in SUBSET Ids
    BY <1>2, <1>5
  <2>4. stamp \in Nat /\ sent \in Nat /\ board.version \in Nat
    BY <1>4, <1>5
  <2>5. readable \in BOOLEAN /\ up \in BOOLEAN /\ armed \in BOOLEAN /\ stream \in BOOLEAN
    BY <1>5
  <2> QED BY <1>3, <1>4, <2>1, <2>2, <2>3, <2>4, <2>5 DEF DeltaTypes
<1>7. Shape
  BY <1>2, <1>3, <1>5 DEF Shape
<1>8. ServerSees
  BY <1>4, <1>5 DEF ServerSees, None
<1>9. Past(NoTask) /\ NotOlder(NoTask, NoTask)
  BY <1>4, <1>5 DEF Past, NotOlder, NoTask
<1>10. PageKeeps
  <2>1. Response(Missing)
    BY <1>5, <1>9, MissingIsBody DEF Response, None
  <2> QED BY <1>2, <1>5, <1>9, <2>1 DEF PageKeeps
<1>11. PageHears
  BY <1>3, <1>5 DEF PageHears
<1>12. \E c \in [Nat -> Text] : Book(c) /\ Reads(c)
  <2>1. PICK c : c = [v \in Nat |-> NoTask]
    OBVIOUS
  <2>2. c \in [Nat -> Text] /\ c[0] = NoTask /\ \A w \in 0..0 : w = 0
    BY <2>1, MissingIsBody
  <2>3. \A i \in Ids : disk[i] <= stamp
    BY <1>5 DEF NoTask
  <2>4. Book(c)
    BY <1>4, <1>5, <1>9, <2>2, <2>3 DEF Book
  <2> QED BY <1>5, <2>2, <2>4 DEF Reads
<1> QED BY <1>6, <1>7, <1>8, <1>10, <1>11, <1>12 DEF DeltaInv

LEMMA DeltaStep ==
  ASSUME ~LongCache, Settled, DeltaInv, [Next]_vars
  PROVE  DeltaInv'
<1>1. DeltaTypes /\ Shape /\ ServerSees /\ PageKeeps /\ PageHears
  BY DEF DeltaInv
<1>2. PICK c \in [Nat -> Text] : Book(c) /\ Reads(c)
  BY DEF DeltaInv
<1>3. DeltaTypes' /\ Shape' /\ ServerSees'
  BY <1>1, TypesStep, ShapeStep, ServerStep
<1>4. PageKeeps' /\ PageHears'
  BY <1>1, <1>2, KeepsStep, HearsStep
<1>5. \E d \in [Nat -> Text] : Book(d)' /\ Reads(d)'
  BY <1>1, <1>2, BookStep
<1> QED BY <1>3, <1>4, <1>5 DEF DeltaInv

-----------------------------------------------------------------------------
(* The theorems: the browser's stored responses end with the stream, and   *)
(* the backlog goes away with its news told.                               *)

\* There is a book of what the tasks were at each version of the board, and all
\* that the page has, or is about to get, is from it (refreshBoard,
\* boardDeltaJson and broadcast of server.js; load and onBoardEvent of
\* index.html).
THEOREM VersionsAreABook ==
  ASSUME ~LongCache, Settled
  PROVE  Spec => []DeltaInv
<1>1. DeltaInv /\ [Next]_vars => DeltaInv'
  BY DeltaStep
<1> QED BY <1>1, DeltaBegins, PTL DEF Spec

\* A page that says it is at the server's version, and waits for no reload, shows
\* the server's tasks ("the version /api/board hands out and the version a delta is
\* built against can never disagree", server.js:427-428).
THEOREM VersionsAgree ==
  ASSUME ~LongCache, Settled
  PROVE  Spec => []SameVersionSameBoard
<1>1. DeltaInv => SameVersionSameBoard
  <2> SUFFICES ASSUME DeltaInv, stream, version = board.version PROVE shown = board.tasks
    BY DEF SameVersionSameBoard
  <2>1. PICK c \in [Nat -> Text] : Book(c) /\ Reads(c)
    BY DEF DeltaInv
  <2>2. version # None
    BY DEF DeltaInv, DeltaTypes, None
  <2> QED BY <2>1, <2>2 DEF Book, Reads
<1> QED BY <1>1, VersionsAreABook, PTL

\* With nothing left on its way to the page, the page shows what is on disk or says
\* that it could not be read ("one too few leaves the board silently showing
\* yesterday's status", index.html:3880-3881).
THEOREM NoNewsIsLost ==
  ASSUME ~LongCache, Settled
  PROVE  Spec => []NothingMissed
<1>1. DeltaInv => NothingMissed
  <2> SUFFICES ASSUME DeltaInv, Quiet PROVE Current
    BY DEF NothingMissed
  <2>1. PICK c \in [Nat -> Text] : Book(c) /\ Reads(c)
    BY DEF DeltaInv
  <2>2. up /\ stream /\ frames = <<>> /\ load = {} /\ ~armed /\ ~Event /\ Index = {}
    BY DEF Quiet, Event, Index
  <2>3. version \in {None, sent} /\ (~readable => version = None)
    BY <2>2 DEF DeltaInv, PageHears
  <2>4. sent = board.version /\ (readable => board.tasks = disk)
    BY <2>2 DEF DeltaInv, ServerSees
  <2>5. version # None => shown = board.tasks
    BY <2>1, <2>2, <2>3, <2>4 DEF Book, Reads
  <2> QED BY <2>3, <2>4, <2>5 DEF Current
<1> QED BY <1>1, VersionsAreABook, PTL

\* A page never goes back to an older text of a task it has shown, whatever order
\* the replies and the deltas come in (load and onBoardEvent of index.html).
THEOREM PagesGoForward ==
  ASSUME ~LongCache, Settled
  PROVE  Spec => NeverBackwards
<1> DEFINE Forward == \A i \in Ids : shown'[i] < shown[i] => shown'[i] = 0
<1>1. DeltaInv /\ [Next]_vars => [Forward]_vars
  <2> SUFFICES ASSUME DeltaInv, Next PROVE Forward
    OBVIOUS
  <2>1. DeltaTypes /\ Shape /\ ServerSees /\ PageKeeps
    BY DEF DeltaInv
  <2>2. PICK c \in [Nat -> Text] : Book(c) /\ Reads(c)
    BY DEF DeltaInv
  <2>3. shown \in Text
    BY <2>1 DEF DeltaTypes
  <2>4. ASSUME NEW x \in Text, NotOlder(x, shown), shown' = x PROVE Forward
    <3>1. \A i \in Ids : x[i] \in Nat /\ shown[i] \in Nat
      BY <2>3 DEF Text
    <3> QED BY <2>4, <3>1 DEF NotOlder
  <2>5. NotOlder(shown, shown)
    BY <2>3 DEF NotOlder, Text
  <2>6. CASE UNCHANGED shown
    BY <2>3, <2>4, <2>5, <2>6
  <2>7. CASE Arrive
    <3>1. PICK b \in Replies : Takes(b)
      BY <2>7, ArriveTakes
    <3>2. b \in Body /\ b.tasks \in Text
      BY <2>1, RepliesAreBodies DEF Body
    <3>3. CASE StepBack(b)
      BY <2>6, <3>1, <3>3 DEF Takes
    <3>4. CASE ~StepBack(b)
      <4>1. shown' = b.tasks
        BY <3>1, <3>4 DEF Takes
      <4>2. CASE b.version = None
        <5>1. shown' = NoTask
          BY <2>1, <4>1, <4>2, MissingIsBody DEF PageKeeps, Response
        <5> QED BY <5>1 DEF NoTask
      <4>3. CASE b.version # None
        <5>1. NotOlder(b.tasks, shown)
          BY <2>1, <3>4, <4>3 DEF PageKeeps, StepBack
        <5> QED BY <2>4, <3>2, <4>1, <5>1
      <4> QED BY <4>2, <4>3
    <3> QED BY <3>3, <3>4
  <2>8. CASE OnFrame
    <3>1. frames # <<>> /\ frames' = Tail(frames) /\ HearsOf(frames[1]) /\ stream
      BY <2>1, <2>8, FrameIsHeard DEF Shape
    <3>2. frames[1] \in Deltas /\ 1 \in Index
      BY <2>1, <3>1, TakesFrame DEF DeltaTypes
    <3>3. CASE /\ ~frames[1].full /\ frames[1].base = version /\ frames[1].v # None
               /\ shown' = Applied(frames[1])
      <4>1. frames[1].v \in 0..board.version /\ version <= frames[1].v /\ Applied(frames[1]) = c[frames[1].v]
        BY <2>1, <2>2, <3>1, <3>2, <3>3, FrameApplies
      <4>2. version \in 0..board.version /\ shown = c[version]
        <5>1. version # None
          BY <3>2, <3>3 DEF Deltas, None
        <5>2. version \in Num /\ version <= board.version
          BY <2>1, <2>2, <3>1, <5>1 DEF Reads, DeltaTypes
        <5> QED BY <2>1, <2>2, <3>1, <5>1, <5>2 DEF Reads, Num, DeltaTypes
      <4>3. NotOlder(c[frames[1].v], shown) /\ c[frames[1].v] \in Text
        BY <2>1, <2>2, <4>1, <4>2 DEF Book, DeltaTypes
      <4> QED BY <2>4, <3>3, <4>1, <4>3
    <3> QED BY <2>6, <3>1, <3>3 DEF HearsOf
  <2>9. ~Arrive /\ ~OnFrame => UNCHANGED shown
    BY DEF Next, Serve, Follow, TimerFires, Broadcast, TakeLoad, AnswerLoad, AnswerLost, Open, Refresh,
           Edit, Vanish, Drop, Die, Boot, clientVars
  <2> QED BY <2>6, <2>7, <2>8, <2>9
<1> QED BY <1>1, VersionsAreABook, PTL DEF Spec, NeverBackwards

=============================================================================

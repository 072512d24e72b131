------------------------ MODULE TaskDispatch_proofs ------------------------
(***************************************************************************)
(* Proofs about SessionRunner and about TaskDispatch, for any tasks,       *)
(* agents, requests and caps.                                              *)
(*                                                                         *)
(* SessionRunner.  A call is on a task or on none, at most one call        *)
(* prepares a task, and while one does the task has no agent.  So a        *)
(* registration never lands on a task that has one, `children` is never    *)
(* overwritten, and an `exit` handler only ever deletes the entry of its   *)
(* own agent.  Every entry counted is a call that was in the air while     *)
(* another registered, so the cap is outrun by as many as were.            *)
(*                                                                         *)
(* TaskDispatch.  The routes of the board keep the runner's precondition,  *)
(* so whatever is proved of the runner holds of the board.  While a        *)
(* session is being prepared by /start or /rework the task is              *)
(* `in_progress`, which no other of the routes without care accepts, and   *)
(* which only its agent could change - there is none yet.  The other       *)
(* routes that prepare or remove are used with care: nothing else is at    *)
(* work on their task.                                                     *)
(***************************************************************************)
EXTENDS TaskDispatch, FiniteSetTheorems, SequenceTheorems, TLAPS

-----------------------------------------------------------------------------
(* SessionRunner.                                                          *)

\* The types the argument needs; the order of the finished sessions is not
\* among them.
Types ==
  /\ board \in {"up", "stopping", "gone"}
  /\ alive \in [Tasks -> SUBSET Agents]
  /\ children \in [Tasks -> SUBSET Agents]
  /\ running \in [Tasks -> SUBSET Agents]
  /\ call \in [Requests -> [at : Stages, task : Tasks \union {NoTask}]]

\* A call is on a task exactly while it awaits something.
CallsAreWhole == \A r \in Requests : call[r].at = "idle" <=> call[r].task = NoTask

\* No two calls prepare the same task.
NoOverlap ==
  \A r, s \in Requests : call[r].task = call[s].task /\ call[r].task # NoTask => r = s

\* A task being prepared has no agent.
PreparedHasNoAgent == \A r \in Requests : \A t \in Tasks : call[r].task = t => alive[t] = {}

\* No two agents work on the same task.
NoTwoAgents == \A t \in Tasks : \A a, b \in alive[t] : a = b

\* No agent works on two tasks.
NoAgentTwice == \A t, u \in Tasks : alive[t] \intersect alive[u] # {} => t = u

\* The two maps agree with the operating system.
MapsAgree == board # "gone" => \A t \in Tasks : children[t] = alive[t] /\ running[t] = alive[t]

\* A board that is gone awaits nothing.
GoneIsIdle == board = "gone" => \A r \in Requests : call[r].at = "idle"

IInv == Types /\ CallsAreWhole /\ GoneIsIdle /\ NoOverlap /\ PreparedHasNoAgent /\ NoTwoAgents /\ NoAgentTwice
        /\ MapsAgree

-----------------------------------------------------------------------------

\* A runner that has just started has nothing running and nothing in flight.
LEMMA InitIInv == Init => IInv
BY NoTaskAssumption DEF Init, IInv, Types, CallsAreWhole, GoneIsIdle, NoOverlap, PreparedHasNoAgent,
   NoTwoAgents, NoAgentTwice, MapsAgree, NoCall, Stages

\* A registration on a task that has no agent and is prepared by nobody but the
\* call that ends with it.
LEMMA RegisterStep ==
  ASSUME IInv, NEW t \in Tasks, NEW a \in Agents, Register(t, a),
         alive[t] = {}, board # "gone", board' = board
  PROVE  /\ alive' \in [Tasks -> SUBSET Agents]
         /\ children' \in [Tasks -> SUBSET Agents]
         /\ running' \in [Tasks -> SUBSET Agents]
         /\ NoTwoAgents' /\ NoAgentTwice' /\ MapsAgree'
         /\ \A u \in Tasks : u # t => alive'[u] = alive[u]
BY DEF IInv, Types, Register, Free, NoTwoAgents, NoAgentTwice, MapsAgree

\* Every step keeps the invariant.
LEMMA NextIInv == IInv /\ [Next]_runnerVars => IInv'
<1> SUFFICES ASSUME IInv, [Next]_runnerVars PROVE IInv'
  OBVIOUS
<1> USE NoTaskAssumption DEF sessions, trees, marks, Stages, NoCall
<1>1. ASSUME NEW t \in Tasks, NEW a \in Agents, Alone(t), StartHere(t, a) PROVE IInv'
  <2>1. Register(t, a) /\ board' = board /\ board # "gone" /\ call' = call
    BY <1>1 DEF StartHere
  <2>2. alive[t] = {}
    BY <1>1, <2>1 DEF StartHere, MayStart, AlreadyRunning, IInv, MapsAgree
  <2>3. PreparedHasNoAgent'
    BY <1>1, <2>1, <2>2, RegisterStep DEF IInv, PreparedHasNoAgent, Alone, Preparing
  <2> QED BY <2>1, <2>2, <2>3, RegisterStep DEF IInv, Types, CallsAreWhole, GoneIsIdle, NoOverlap
<1>2. ASSUME NEW t \in Tasks, NEW r \in Requests, Alone(t), BeginIsolated(r, t) PROVE IInv'
  <2>1. call' = [call EXCEPT ![r] = [at |-> "check", task |-> t]]
    BY <1>2 DEF BeginIsolated
  <2>2. UNCHANGED <<board, alive, children, running>>
    BY <1>2 DEF BeginIsolated
  <2>3. alive[t] = {}
    BY <1>2 DEF BeginIsolated, MayStart, AlreadyRunning, IInv, MapsAgree
  <2>4. \A s \in Requests : call[s].task # t
    BY <1>2 DEF Alone, Preparing
  <2>5. Types'
    BY <2>1, <2>2 DEF IInv, Types
  <2>6. \A s \in Requests : s # r => call'[s] = call[s]
    BY <2>1 DEF IInv, Types
  <2>7. call'[r].at = "check" /\ call'[r].task = t
    BY <2>1 DEF IInv, Types
  <2>8. board' # "gone"
    BY <1>2 DEF BeginIsolated
  <2>9. CallsAreWhole' /\ GoneIsIdle'
    BY <2>6, <2>7, <2>8 DEF IInv, CallsAreWhole, GoneIsIdle
  <2>10. NoOverlap' /\ PreparedHasNoAgent'
    BY <2>2, <2>3, <2>4, <2>6, <2>7 DEF IInv, NoOverlap, PreparedHasNoAgent
  <2> QED BY <2>2, <2>5, <2>9, <2>10 DEF IInv, NoTwoAgents, NoAgentTwice, MapsAgree
<1>3. ASSUME NEW r \in Requests, CheckWorktree(r) \/ AddWorktree(r) \/ RepeatSetup(r) PROVE IInv'
  <2>1. UNCHANGED <<board, alive, children, running>>
    BY <1>3 DEF CheckWorktree, AddWorktree, RepeatSetup
  <2>2. PICK s \in {"add", "setup"} : call' = [call EXCEPT ![r].at = s]
    BY <1>3 DEF CheckWorktree, AddWorktree, RepeatSetup, Goto
  <2>3. call[r].at # "idle"
    BY <1>3 DEF CheckWorktree, AddWorktree, RepeatSetup
  <2>4. Types' /\ \A q \in Requests : call'[q].task = call[q].task
    BY <2>1, <2>2 DEF IInv, Types
  <2>5. CallsAreWhole' /\ GoneIsIdle'
    BY <2>1, <2>2, <2>3, <2>4 DEF IInv, Types, CallsAreWhole, GoneIsIdle
  <2> QED BY <2>1, <2>4, <2>5 DEF IInv, NoOverlap, PreparedHasNoAgent, NoTwoAgents, NoAgentTwice, MapsAgree
<1>4. ASSUME NEW r \in Requests, SpawnFails(r) \/ PreparationFails(r) PROVE IInv'
  <2>1. UNCHANGED <<board, alive, children, running>>
    BY <1>4 DEF SpawnFails, PreparationFails
  <2>2. call' = [call EXCEPT ![r] = NoCall]
    BY <1>4 DEF SpawnFails, PreparationFails, Finish
  <2>3. Types' /\ CallsAreWhole' /\ GoneIsIdle' /\ NoOverlap' /\ PreparedHasNoAgent'
    BY <2>1, <2>2 DEF IInv, Types, CallsAreWhole, GoneIsIdle, NoOverlap, PreparedHasNoAgent
  <2> QED BY <2>1, <2>3 DEF IInv, NoTwoAgents, NoAgentTwice, MapsAgree
<1>5. ASSUME NEW r \in Requests, NEW a \in Agents, SpawnIsolated(r, a) PROVE IInv'
  <2> DEFINE t == call[r].task
  <2>1. Register(t, a) /\ board' = board /\ call' = [call EXCEPT ![r] = NoCall]
    BY <1>5 DEF SpawnIsolated, Finish
  <2>2. call[r].at # "idle" /\ t \in Tasks
    BY <1>5 DEF SpawnIsolated, Prepared, IInv, Types, CallsAreWhole
  <2>3. alive[t] = {}
    BY <2>2 DEF IInv, PreparedHasNoAgent
  <2>4. board # "gone"
    BY <2>2 DEF IInv, GoneIsIdle
  <2>5. Types' /\ NoTwoAgents' /\ NoAgentTwice' /\ MapsAgree'
        /\ \A u \in Tasks : u # t => alive'[u] = alive[u]
    BY <2>1, <2>2, <2>3, <2>4, RegisterStep DEF IInv, Types
  <2>6. \A s \in Requests : s # r => call'[s] = call[s] /\ call[s].task # t
    BY <2>1, <2>2 DEF IInv, Types, NoOverlap
  <2>7. CallsAreWhole' /\ GoneIsIdle' /\ NoOverlap' /\ PreparedHasNoAgent'
    BY <2>1, <2>2, <2>5, <2>6 DEF IInv, Types, CallsAreWhole, GoneIsIdle, NoOverlap, PreparedHasNoAgent
  <2> QED BY <2>5, <2>7 DEF IInv
<1>6. ASSUME NEW t \in Tasks, NEW a \in Agents, Exit(t, a) PROVE IInv'
  <2>1. board # "gone" /\ a \in alive[t] /\ UNCHANGED <<board, call>>
    BY <1>6 DEF Exit
  <2>2. alive[t] = {a} /\ children[t] = {a} /\ running[t] = {a}
    BY <2>1 DEF IInv, Types, NoTwoAgents, NoAgentTwice, MapsAgree
  <2>3. alive' = [alive EXCEPT ![t] = {}] /\ children' = [children EXCEPT ![t] = {}]
    BY <1>6, <2>2 DEF Exit, IInv, Types
  <2>4. running' = [u \in Tasks |-> IF u \in Evicted(t) THEN {} ELSE running[u] \ {a}]
    BY <1>6 DEF Exit
  <2>5. \A u \in Tasks : u # t => a \notin running[u]
    BY <2>1, <2>2 DEF IInv, Types, MapsAgree, NoAgentTwice
  <2>6. \A u \in Evicted(t) : u # t => running[u] = {}
    BY <2>1 DEF Evicted, IInv, MapsAgree
  <2>7. \A u \in Tasks : running'[u] = alive'[u]
    <3>1. running'[t] = {} /\ alive'[t] = {} BY <2>2, <2>3, <2>4 DEF IInv, Types
    <3>2. ASSUME NEW u \in Tasks, u # t PROVE running'[u] = running[u]
      BY <2>4, <2>5, <2>6, <3>2 DEF IInv, Types
    <3>3. ASSUME NEW u \in Tasks, u # t PROVE alive'[u] = alive[u]
      BY <2>3, <3>3 DEF IInv, Types
    <3> QED BY <2>1, <3>1, <3>2, <3>3 DEF IInv, MapsAgree
  <2>8. Types'
    BY <2>1, <2>3, <2>4 DEF IInv, Types
  <2>9. \A u \in Tasks : alive'[u] \subseteq alive[u]
    BY <2>3 DEF IInv, Types
  <2>10. CallsAreWhole' /\ GoneIsIdle' /\ NoOverlap' /\ PreparedHasNoAgent' /\ NoTwoAgents'
    BY <2>1, <2>9 DEF IInv, CallsAreWhole, GoneIsIdle, NoOverlap, PreparedHasNoAgent, NoTwoAgents
  <2>11. NoAgentTwice'
    BY <2>9 DEF IInv, NoAgentTwice
  <2>12. MapsAgree'
    BY <2>1, <2>3, <2>7 DEF IInv, Types, MapsAgree
  <2> QED BY <2>8, <2>10, <2>11, <2>12 DEF IInv
<1>7. ASSUME NEW t \in Tasks, NEW a \in Agents, ExitUnseen(t, a) PROVE IInv'
  BY <1>7 DEF ExitUnseen, IInv, Types, CallsAreWhole, GoneIsIdle, NoOverlap, PreparedHasNoAgent,
     NoTwoAgents, NoAgentTwice, MapsAgree
<1>8. ASSUME NEW t \in Tasks, Stop(t) \/ RemoveWorktree(t) PROVE IInv'
  BY <1>8 DEF Stop, RemoveWorktree, IInv, Types, CallsAreWhole, GoneIsIdle, NoOverlap,
     PreparedHasNoAgent, NoTwoAgents, NoAgentTwice, MapsAgree
<1>9. CASE Shutdown
  BY <1>9 DEF Shutdown, IInv, Types, CallsAreWhole, GoneIsIdle, NoOverlap,
     PreparedHasNoAgent, NoTwoAgents, NoAgentTwice, MapsAgree
<1>10. CASE Leave
  <2>1. call' = [r \in Requests |-> NoCall] /\ board' = "gone"
        /\ UNCHANGED <<alive, children, running>>
    BY <1>10 DEF Leave
  <2>2. Types' /\ CallsAreWhole' /\ GoneIsIdle' /\ NoOverlap' /\ PreparedHasNoAgent'
    BY <2>1 DEF IInv, Types, CallsAreWhole, GoneIsIdle, NoOverlap, PreparedHasNoAgent
  <2> QED BY <2>1, <2>2 DEF IInv, NoTwoAgents, NoAgentTwice, MapsAgree
<1>11. CASE UNCHANGED runnerVars
  BY <1>11 DEF runnerVars, IInv, Types, CallsAreWhole, GoneIsIdle, NoOverlap,
     PreparedHasNoAgent, NoTwoAgents, NoAgentTwice, MapsAgree
<1> QED BY <1>1, <1>2, <1>3, <1>4, <1>5, <1>6, <1>7, <1>8, <1>9, <1>10, <1>11 DEF Next

LEMMA Invariance == Spec => []IInv
<1> QED BY InitIInv, NextIInv, PTL DEF Spec

-----------------------------------------------------------------------------

\* Over every interleaving of starts, preparations, exits, stops and the
\* shutdown, a task has at most one agent, if nobody starts a session on it
\* while an earlier start is preparing.
THEOREM OneAgent == Spec => []OneAgentPerTask
<1>1. IInv => OneAgentPerTask
  <2> SUFFICES ASSUME IInv, NEW t \in Tasks PROVE Cardinality(alive[t]) <= 1
    BY DEF OneAgentPerTask
  <2>1. CASE alive[t] = {}
    BY <2>1, FS_EmptySet
  <2>2. CASE alive[t] # {}
    <3>1. PICK a \in alive[t] : alive[t] = {a}
      BY <2>2 DEF IInv, NoTwoAgents
    <3>2. Cardinality({a}) = 1
      BY FS_Singleton
    <3> QED BY <3>1, <3>2
  <2> QED BY <2>1, <2>2
<1> QED BY <1>1, Invariance, PTL

\* Every live agent is the one `children` names and `records` shows running, so
\* stopSession(), shutdown() and the cap see all of them.
THEOREM AgentsReachable == Spec => []EveryAgentReachable
<1>1. IInv => EveryAgentReachable
  BY DEF IInv, MapsAgree, EveryAgentReachable
<1> QED BY <1>1, Invariance, PTL

\* A worktree is prepared by one call at a time, and never under an agent.
THEOREM SetupsAlone == Spec => []OneSetupPerWorktree
<1>1. IInv => OneSetupPerWorktree
  <2> SUFFICES ASSUME IInv, NEW t \in Tasks
               PROVE  /\ Cardinality(Preparing(t)) <= 1
                      /\ Preparing(t) # {} => alive[t] = {}
    BY DEF OneSetupPerWorktree
  <2>1. Preparing(t) # {} => alive[t] = {}
    BY DEF IInv, PreparedHasNoAgent, Preparing
  <2>2. CASE Preparing(t) = {}
    BY <2>1, <2>2, FS_EmptySet
  <2>3. CASE Preparing(t) # {}
    <3>1. PICK r \in Preparing(t) : Preparing(t) = {r}
      BY <2>3, NoTaskAssumption DEF IInv, NoOverlap, Preparing
    <3>2. Cardinality({r}) = 1
      BY FS_Singleton
    <3> QED BY <2>1, <3>1, <3>2
  <2> QED BY <2>2, <2>3
<1> QED BY <1>1, Invariance, PTL

-----------------------------------------------------------------------------
(* Worktrees and the shutdown.                                             *)

\* Who works in a worktree is alive.
TreesAreWorkedIn == \A a \in inTree : ~Free(a)

\* Since the signal every agent was sent it, or came later.
SignalledOrLate == board # "up" => \A t \in Tasks : alive[t] \subseteq asked \union late

TreeType == worktree \in [Tasks -> BOOLEAN]

EndInv == IInv /\ TreeType /\ TreesAreWorkedIn /\ WorktreeUnderAgent /\ SignalledOrLate

\* A registration of a free agent on a task that has none: the new one is in no
\* worktree yet, and is late if the signal has gone out.
LEMMA RegisterKeeps ==
  ASSUME EndInv, NEW t \in Tasks, NEW a \in Agents, Register(t, a), alive[t] = {},
         board' = board, asked' = asked
  PROVE  /\ alive'[t] = {a} /\ \A u \in Tasks \ {t} : alive'[u] = alive[u] /\ a \notin alive[u]
         /\ a \notin inTree
         /\ SignalledOrLate'
<1>1. alive \in [Tasks -> SUBSET Agents] /\ \A u \in Tasks : a \notin alive[u]
  BY DEF EndInv, IInv, Types, Register, Free
<1>2. alive'[t] = {a} /\ \A u \in Tasks \ {t} : alive'[u] = alive[u]
  BY <1>1 DEF Register
<1>3. a \notin inTree
  BY DEF EndInv, TreesAreWorkedIn, Register
<1>4. late \subseteq late' /\ (board # "up" => a \in late')
  BY DEF Register
<1> QED BY <1>1, <1>2, <1>3, <1>4 DEF EndInv, SignalledOrLate

\* An agent that ends leaves the marks of the others alone.
LEMMA EndKeeps ==
  ASSUME EndInv, NEW t \in Tasks, NEW a \in alive[t],
         alive' = [alive EXCEPT ![t] = @ \ {a}],
         inTree' = inTree \ {a}, asked' = asked \ {a}, late' = late \ {a},
         UNCHANGED <<board, worktree>>
  PROVE  TreesAreWorkedIn' /\ WorktreeUnderAgent' /\ SignalledOrLate'
<1>1. alive \in [Tasks -> SUBSET Agents]
  BY DEF EndInv, IInv, Types
<1>2. \A u \in Tasks : alive'[u] = alive[u] \ {a}
  <2>1. \A u \in Tasks \ {t} : a \notin alive[u]
    BY DEF EndInv, IInv, NoAgentTwice
  <2> QED BY <1>1, <2>1
<1> QED BY <1>1, <1>2 DEF EndInv, TreesAreWorkedIn, WorktreeUnderAgent, SignalledOrLate, Free

\* Worktrees come and go, one at a time.
LEMMA NextTreeType == TreeType /\ [Next]_runnerVars => TreeType'
<1> SUFFICES ASSUME TreeType, [Next]_runnerVars PROVE TreeType'
  OBVIOUS
<1>1. ASSUME NEW r \in Requests, AddWorktree(r) PROVE TreeType'
  BY <1>1 DEF TreeType, AddWorktree
<1>2. ASSUME NEW t \in Tasks, RemoveWorktree(t) PROVE TreeType'
  BY <1>2 DEF TreeType, RemoveWorktree
<1>3. \/ \E r \in Requests : AddWorktree(r)
      \/ \E t \in Tasks : RemoveWorktree(t)
      \/ worktree' = worktree
  BY DEF Next, StartHere, BeginIsolated, CheckWorktree, RepeatSetup, SpawnIsolated, SpawnFails,
     PreparationFails, Exit, ExitUnseen, Stop, Shutdown, Leave, runnerVars, trees
<1> QED BY <1>1, <1>2, <1>3 DEF TreeType

\* Every step keeps the three.
LEMMA NextEndInv == EndInv /\ [Next]_runnerVars => EndInv'
<1> SUFFICES ASSUME EndInv, [Next]_runnerVars
             PROVE  TreesAreWorkedIn' /\ WorktreeUnderAgent' /\ SignalledOrLate'
  BY NextIInv, NextTreeType DEF EndInv
<1> USE DEF sessions, trees, marks
<1>0. alive \in [Tasks -> SUBSET Agents] /\ worktree \in [Tasks -> BOOLEAN]
  BY DEF EndInv, IInv, Types, TreeType
<1>1. ASSUME NEW t \in Tasks, NEW a \in Agents, Alone(t), StartHere(t, a)
      PROVE  TreesAreWorkedIn' /\ WorktreeUnderAgent' /\ SignalledOrLate'
  <2>1. Register(t, a) /\ UNCHANGED <<board, asked, worktree, inTree>>
    BY <1>1 DEF StartHere
  <2>2. alive[t] = {}
    BY <1>1 DEF StartHere, MayStart, AlreadyRunning, EndInv, IInv, MapsAgree
  <2>3. /\ alive'[t] = {a} /\ \A u \in Tasks \ {t} : alive'[u] = alive[u]
        /\ a \notin inTree /\ SignalledOrLate'
    BY <2>1, <2>2, RegisterKeeps
  <2> QED BY <2>1, <2>2, <2>3 DEF EndInv, TreesAreWorkedIn, WorktreeUnderAgent, Free
<1>2. ASSUME NEW r \in Requests, NEW a \in Agents, SpawnIsolated(r, a)
      PROVE  TreesAreWorkedIn' /\ WorktreeUnderAgent' /\ SignalledOrLate'
  <2> DEFINE t == call[r].task
  <2>1. /\ Register(t, a) /\ worktree[t] /\ inTree' = inTree \union {a}
        /\ UNCHANGED <<board, asked, worktree>>
    BY <1>2 DEF SpawnIsolated
  <2>2. t \in Tasks /\ alive[t] = {}
    BY <1>2 DEF SpawnIsolated, Prepared, EndInv, IInv, Types, CallsAreWhole, PreparedHasNoAgent
  <2>3. /\ alive'[t] = {a} /\ \A u \in Tasks \ {t} : alive'[u] = alive[u] /\ a \notin alive[u]
        /\ SignalledOrLate'
    BY <2>1, <2>2, RegisterKeeps
  <2> QED BY <2>1, <2>2, <2>3 DEF EndInv, TreesAreWorkedIn, WorktreeUnderAgent, Free
<1>3. ASSUME NEW t \in Tasks, NEW a \in Agents, Exit(t, a) \/ ExitUnseen(t, a)
      PROVE  TreesAreWorkedIn' /\ WorktreeUnderAgent' /\ SignalledOrLate'
  BY <1>3, EndKeeps DEF Exit, ExitUnseen
<1>4. ASSUME NEW t \in Tasks, Unused(t), RemoveWorktree(t)
      PROVE  TreesAreWorkedIn' /\ WorktreeUnderAgent' /\ SignalledOrLate'
  <2>1. \A u \in Tasks \ {t} : worktree[u] => worktree'[u]
    BY <1>0, <1>4 DEF RemoveWorktree
  <2> QED BY <1>4, <2>1 DEF RemoveWorktree, Unused, EndInv, TreesAreWorkedIn, WorktreeUnderAgent,
             SignalledOrLate, Free
<1>5. ASSUME NEW r \in Requests, AddWorktree(r)
      PROVE  TreesAreWorkedIn' /\ WorktreeUnderAgent' /\ SignalledOrLate'
  <2>1. \A u \in Tasks : worktree[u] => worktree'[u]
    BY <1>0, <1>5 DEF AddWorktree
  <2> QED BY <1>5, <2>1 DEF AddWorktree, EndInv, TreesAreWorkedIn, WorktreeUnderAgent, SignalledOrLate, Free
<1>6. CASE Shutdown
  <2>1. \A t \in Tasks : alive[t] \subseteq asked'
    BY <1>6 DEF Shutdown, EndInv, IInv, MapsAgree
  <2> QED BY <1>6, <2>1 DEF Shutdown, EndInv, TreesAreWorkedIn, WorktreeUnderAgent, SignalledOrLate, Free
<1>7. CASE Leave
  BY <1>7 DEF Leave, EndInv, TreesAreWorkedIn, WorktreeUnderAgent, SignalledOrLate, Free
<1>8. ASSUME NEW t \in Tasks, Stop(t)
      PROVE  TreesAreWorkedIn' /\ WorktreeUnderAgent' /\ SignalledOrLate'
  BY <1>8 DEF Stop, EndInv, TreesAreWorkedIn, WorktreeUnderAgent, SignalledOrLate, Free
<1>9. ASSUME NEW r \in Requests, NEW t \in Tasks, BeginIsolated(r, t)
      PROVE  TreesAreWorkedIn' /\ WorktreeUnderAgent' /\ SignalledOrLate'
  BY <1>9 DEF BeginIsolated, EndInv, TreesAreWorkedIn, WorktreeUnderAgent, SignalledOrLate, Free
<1>10. CASE UNCHANGED runnerVars
  BY <1>10 DEF runnerVars, EndInv, TreesAreWorkedIn, WorktreeUnderAgent, SignalledOrLate, Free
<1>11. ASSUME NEW r \in Requests,
             CheckWorktree(r) \/ RepeatSetup(r) \/ SpawnFails(r) \/ PreparationFails(r)
      PROVE  TreesAreWorkedIn' /\ WorktreeUnderAgent' /\ SignalledOrLate'
  <2>1. UNCHANGED <<board, alive, late, asked, inTree, worktree>>
    BY <1>11 DEF CheckWorktree, RepeatSetup, SpawnFails, PreparationFails
  <2> QED BY <2>1 DEF EndInv, TreesAreWorkedIn, WorktreeUnderAgent, SignalledOrLate, Free
<1> QED BY <1>1, <1>2, <1>3, <1>4, <1>5, <1>6, <1>7, <1>8, <1>9, <1>10, <1>11 DEF Next

LEMMA EndInvariance == Spec => []EndInv
<1>1. Init => EndInv
  BY InitIInv DEF Init, EndInv, TreeType, TreesAreWorkedIn, WorktreeUnderAgent, SignalledOrLate
<1> QED BY <1>1, NextEndInv, PTL DEF Spec

\* A worktree is not removed from under the agent that works in it.
THEOREM WorktreesLast == Spec => []WorktreeUnderAgent
<1>1. EndInv => WorktreeUnderAgent BY DEF EndInv
<1> QED BY <1>1, EndInvariance, PTL

\* A board that is gone has signalled every agent it leaves behind, but for those
\* that started when the signal had gone out.
THEOREM OrphansAreLate == Spec => []OrphansStartedLate
<1>1. EndInv => OrphansStartedLate
  BY DEF EndInv, SignalledOrLate, OrphansStartedLate
<1> QED BY <1>1, EndInvariance, PTL

-----------------------------------------------------------------------------
(* The order of the finished sessions, and the records.                    *)

\* A sequence of tasks with no task in it twice.
Order(s) ==
  /\ s \in Seq(Tasks)
  /\ \A i, j \in 1..Len(s) : s[i] = s[j] => i = j

\* indexOf() and splice() take a task out of such an order.
LEMMA RemoveFirstFromOrder ==
  ASSUME NEW s, Order(s), NEW t \in Tasks
  PROVE  LET r == RemoveFirst(s, t) IN
         /\ Order(r) /\ Range(r) = Range(s) \ {t}
         /\ Len(r) <= Len(s) /\ (t \notin Range(s) => r = s)
<1> USE DEF Order, Range
<1>1. CASE ~\E i \in 1..Len(s) : s[i] = t
  <2>1. RemoveFirst(s, t) = s
    BY <1>1 DEF RemoveFirst
  <2> QED BY <1>1, <2>1
<1>2. ASSUME NEW k \in 1..Len(s), s[k] = t
      PROVE  LET r == RemoveFirst(s, t) IN
             /\ Order(r) /\ Range(r) = Range(s) \ {t}
             /\ Len(r) <= Len(s) /\ (t \notin Range(s) => r = s)
  <2> DEFINE at == {i \in 1..Len(s) : s[i] = t}
             r  == SubSeq(s, 1, k - 1) \o SubSeq(s, k + 1, Len(s))
  <2>1. at = {k}
    BY <1>2
  <2>2. Min(at) = k
    BY <2>1 DEF Min
  <2>3. SelectInSeq(s, LAMBDA v : v = t) = k
    BY <2>1, <2>2 DEF SelectInSeq
  <2>4. RemoveFirst(s, t) = r
    BY <1>2, <2>3 DEF RemoveFirst, RemoveAt
  <2>5. /\ r \in Seq(Tasks) /\ Len(r) = Len(s) - 1
        /\ \A i \in 1..Len(r) : r[i] = IF i < k THEN s[i] ELSE s[i + 1]
    <3>1. Len(s) \in Nat /\ s \in [1..Len(s) -> Tasks]
      BY LenProperties
    <3> DEFINE before == SubSeq(s, 1, k - 1)
               after  == SubSeq(s, k + 1, Len(s))
    <3>2. /\ before \in Seq(Tasks) /\ Len(before) = k - 1
          /\ \A i \in 1..(k - 1) : before[i] = s[i]
      BY <3>1, SubSeqProperties
    <3>3. /\ after \in Seq(Tasks) /\ Len(after) = Len(s) - k
          /\ \A i \in 1..(Len(s) - k) : after[i] = s[k + i]
      <4>1. /\ after \in Seq(Tasks)
            /\ Len(after) = IF k + 1 <= Len(s) THEN Len(s) - (k + 1) + 1 ELSE 0
            /\ \A i \in 1..(Len(s) - (k + 1) + 1) : after[i] = s[(k + 1) + i - 1]
        <5>1. k + 1 \in Int /\ Len(s) \in Int /\ \A i \in (k + 1)..Len(s) : s[i] \in Tasks
          BY <3>1
        <5> QED BY <5>1, SubSeqProperties
      <4> HIDE DEF after
      <4>2. Len(after) = Len(s) - k
        <5>1. k \in Int /\ Len(s) \in Int /\ k <= Len(s)
          BY <3>1
        <5>2. Len(after) = IF k + 1 <= Len(s) THEN Len(s) - (k + 1) + 1 ELSE 0
          BY <4>1
        <5>3. CASE k = Len(s)
          BY <5>1, <5>2, <5>3
        <5>4. CASE k < Len(s)
          BY <5>1, <5>2, <5>4
        <5> QED BY <5>1, <5>3, <5>4
      <4>3. ASSUME NEW i \in 1..(Len(s) - k) PROVE after[i] = s[k + i]
        <5>1. i \in 1..(Len(s) - (k + 1) + 1) /\ (k + 1) + i - 1 = k + i
          BY <3>1
        <5> QED BY <4>1, <5>1
      <4> QED BY <4>1, <4>2, <4>3
    <3> HIDE DEF before, after
    <3>4. /\ before \o after \in Seq(Tasks) /\ Len(before \o after) = Len(s) - 1
          /\ \A i \in 1..(Len(s) - 1) :
               (before \o after)[i] = IF i <= k - 1 THEN before[i] ELSE after[i - (k - 1)]
      <4>1. /\ before \o after \in Seq(Tasks)
            /\ Len(before \o after) = Len(before) + Len(after)
            /\ \A i \in 1..(Len(before) + Len(after)) :
                 (before \o after)[i] = IF i <= Len(before) THEN before[i] ELSE after[i - Len(before)]
        <5>1. before \in Seq(Tasks) /\ after \in Seq(Tasks)
          BY <3>2, <3>3
        <5> QED BY <5>1, ConcatProperties
      <4>2. Len(before) + Len(after) = Len(s) - 1
        BY <3>1, <3>2, <3>3
      <4> QED BY <3>2, <4>1, <4>2
    <3>5. \A i \in 1..(Len(s) - 1) : (before \o after)[i] = IF i < k THEN s[i] ELSE s[i + 1]
      BY <3>1, <3>2, <3>3, <3>4
    <3> QED BY <3>4, <3>5 DEF before, after
  <2> HIDE DEF r
  <2>6. Len(s) \in Nat /\ DOMAIN s = 1..Len(s) /\ DOMAIN r = 1..Len(r)
    BY <2>5, LenProperties
  <2>7. Order(r)
    <3>1. ASSUME NEW i \in 1..Len(r), NEW j \in 1..Len(r), r[i] = r[j] PROVE i = j
      <4> DEFINE from(n) == IF n < k THEN n ELSE n + 1
      <4>1. from(i) \in 1..Len(s) /\ from(j) \in 1..Len(s)
        BY <1>2, <2>5, <2>6
      <4>2. s[from(i)] = s[from(j)]
        BY <2>5, <3>1
      <4> QED BY <1>2, <4>1, <4>2
    <3> QED BY <2>5, <3>1
  <2>8. ASSUME NEW i \in 1..Len(r) PROVE r[i] \in Range(s) \ {t}
    <3> DEFINE from == IF i < k THEN i ELSE i + 1
    <3>1. from \in 1..Len(s) /\ from # k /\ r[i] = s[from]
      BY <1>2, <2>5, <2>6
    <3>2. s[from] # t
      BY <1>2, <3>1
    <3> QED BY <2>6, <3>1, <3>2
  <2>9. \A i \in 1..Len(s) : s[i] # t => \E j \in 1..Len(r) : r[j] = s[i]
    <3> SUFFICES ASSUME NEW i \in 1..Len(s), s[i] # t PROVE \E j \in 1..Len(r) : r[j] = s[i]
      OBVIOUS
    <3>1. CASE i < k
      <4>1. i \in 1..Len(r) /\ r[i] = s[i]
        BY <2>5, <2>6, <3>1
      <4> QED BY <4>1
    <3>2. CASE i > k
      <4>1. i - 1 \in 1..Len(r) /\ r[i - 1] = s[i]
        BY <2>5, <2>6, <3>2
      <4> QED BY <4>1
    <3> QED BY <1>2, <2>6, <3>1, <3>2
  <2>10. Range(r) = Range(s) \ {t}
    <3>1. Range(r) = {r[i] : i \in 1..Len(r)} /\ Range(s) = {s[i] : i \in 1..Len(s)}
      BY <2>6
    <3>2. \A x \in Range(r) : x \in Range(s) \ {t}
      BY <2>8, <3>1
    <3>3. \A x \in Range(s) \ {t} : x \in Range(r)
      BY <2>9, <3>1
    <3> QED BY <3>2, <3>3
  <2>11. t \in Range(s)
    BY <1>2, <2>6
  <2>12. Len(r) <= Len(s)
    BY <2>5, <2>6
  <2> HIDE DEF Order, Range
  <2> QED BY <2>4, <2>7, <2>10, <2>11, <2>12
<1> QED BY <1>1, <1>2

\* A task that is not in an order is put at its end.
LEMMA AppendToOrder ==
  ASSUME NEW s, Order(s), NEW t \in Tasks \ Range(s)
  PROVE  /\ Order(Append(s, t)) /\ Range(Append(s, t)) = Range(s) \union {t}
         /\ Len(Append(s, t)) = Len(s) + 1
<1> USE DEF Order, Range
<1> DEFINE r == Append(s, t)
<1>1. /\ r \in Seq(Tasks) /\ Len(r) = Len(s) + 1 /\ r[Len(s) + 1] = t
      /\ \A i \in 1..Len(s) : r[i] = s[i]
  OBVIOUS
<1>2. Order(r)
  BY <1>1
<1>3. Range(r) = Range(s) \union {t}
  <2>1. \A i \in 1..Len(r) : r[i] \in Range(s) \union {t}
    BY <1>1
  <2>2. \A i \in 1..Len(s) : s[i] \in Range(r)
    BY <1>1
  <2>3. t \in Range(r)
    BY <1>1
  <2> QED BY <1>1, <2>1, <2>2, <2>3
<1> QED BY <1>1, <1>2, <1>3

\* The oldest leaves an order.
LEMMA TailOfOrder ==
  ASSUME NEW s, Order(s), Len(s) > 0
  PROVE  /\ Order(Tail(s)) /\ Range(Tail(s)) = Range(s) \ {Head(s)}
         /\ Len(Tail(s)) = Len(s) - 1 /\ Head(s) \in Range(s)
<1> USE DEF Order, Range
<1> DEFINE r == Tail(s)
<1>1. /\ r \in Seq(Tasks) /\ Len(r) = Len(s) - 1 /\ Head(s) = s[1]
      /\ \A i \in 1..Len(r) : r[i] = s[i + 1]
  <2>1. s # <<>>
    OBVIOUS
  <2> QED BY <2>1, HeadTailProperties
<1>2. Len(s) \in Nat /\ DOMAIN s = 1..Len(s) /\ DOMAIN r = 1..Len(r)
  BY <1>1, LenProperties
<1> HIDE DEF r
<1>3. Order(r)
  BY <1>1, <1>2
<1>4. Range(r) = Range(s) \ {Head(s)}
  <2>1. \A i \in 1..Len(r) : r[i] \in Range(s) \ {s[1]}
    BY <1>1, <1>2
  <2>2. \A i \in 2..Len(s) : i - 1 \in 1..Len(r) /\ r[i - 1] = s[i]
    BY <1>1, <1>2
  <2>3. \A i \in 2..Len(s) : s[i] \in Range(r)
    <3> SUFFICES ASSUME NEW i \in 2..Len(s) PROVE s[i] \in Range(r)
      OBVIOUS
    <3> QED BY <1>2, <2>2
  <2> QED BY <1>1, <1>2, <2>1, <2>3
<1>5. Head(s) \in Range(s)
  BY <1>1, <1>2
<1> QED BY <1>1, <1>3, <1>4, <1>5 DEF r

\* An order has no more tasks than places.
LEMMA OrderIsFinite ==
  ASSUME NEW s, Order(s)
  PROVE  IsFiniteSet(Range(s)) /\ Cardinality(Range(s)) <= Len(s)
<1> DEFINE f == [i \in 1..Len(s) |-> s[i]]
<1>1. Len(s) \in Nat /\ DOMAIN s = 1..Len(s)
  BY DEF Order
<1>2. IsFiniteSet(1..Len(s)) /\ Cardinality(1..Len(s)) = Len(s)
  <2>1. /\ IsFiniteSet(1..Len(s))
        /\ Cardinality(1..Len(s)) = IF 1 > Len(s) THEN 0 ELSE Len(s) - 1 + 1
    BY <1>1, FS_Interval
  <2> QED BY <1>1, <2>1
<1>3. f \in Surjection(1..Len(s), Range(s))
  BY <1>1 DEF Range, Surjection
<1> QED BY <1>1, <1>2, <1>3, FS_Surjection

\* The finished sessions are an order of at most FinishedCap tasks, none of which is
\* running; a task has a record exactly if it is running or among them.
FinishedAreOrdered == Order(finished) /\ Len(finished) <= FinishedCap

RecordsAreKnown ==
  /\ IsFiniteSet(known)
  /\ Running \subseteq known /\ known \subseteq Running \union Range(finished)
  /\ Running \intersect Range(finished) = {}

RecInv == IInv /\ FinishedAreOrdered /\ RecordsAreKnown

\* A registration takes its task from the finished sessions to the running ones.
LEMMA RegisterRecords ==
  ASSUME RecInv, NEW t \in Tasks, NEW a \in Agents, Register(t, a)
  PROVE  FinishedAreOrdered' /\ RecordsAreKnown'
<1>1. /\ Order(finished') /\ Range(finished') = Range(finished) \ {t}
      /\ Len(finished') <= Len(finished)
  BY RemoveFirstFromOrder DEF RecInv, FinishedAreOrdered, Register
<1>2. Len(finished) \in Nat /\ Len(finished') \in Nat
  BY <1>1, LenProperties DEF RecInv, FinishedAreOrdered, Order
<1>3. FinishedAreOrdered'
  BY <1>1, <1>2, CapAssumption DEF RecInv, FinishedAreOrdered, Order
<1>4. Running' = Running \union {t}
  BY DEF Register, Running, RecInv, IInv, Types
<1>5. known' = known \union {t}
  BY DEF Register
<1>6. IsFiniteSet(known')
  BY <1>5, FS_AddElement DEF RecInv, RecordsAreKnown
<1> QED BY <1>1, <1>3, <1>4, <1>5, <1>6 DEF RecInv, RecordsAreKnown

\* An end takes its task from the running sessions to the finished ones, and the
\* oldest of those, if they are too many, out of the records.
LEMMA ExitRecords ==
  ASSUME RecInv, NEW t \in Tasks, NEW a \in Agents, Exit(t, a)
  PROVE  FinishedAreOrdered' /\ RecordsAreKnown'
<1> DEFINE longer == Append(finished, t)
<1>1. t \in Running /\ Order(finished) /\ t \notin Range(finished)
  <2>1. children[t] # {}
    BY DEF Exit, RecInv, IInv, MapsAgree
  <2> QED BY <2>1 DEF Running, RecInv, FinishedAreOrdered, RecordsAreKnown
<1>2. RemoveFirst(finished, t) = finished
  BY <1>1, RemoveFirstFromOrder
<1>3. Remembered(t) = longer
  BY <1>2 DEF Remembered
<1>4. /\ Order(longer) /\ Range(longer) = Range(finished) \union {t}
      /\ Len(longer) = Len(finished) + 1
  BY <1>1, AppendToOrder
<1>5. Len(finished) \in Nat /\ FinishedCap \in Nat \ {0} /\ Len(finished) <= FinishedCap
  BY <1>1, LenProperties, CapAssumption DEF Order, RecInv, FinishedAreOrdered
<1>6. Running' = Running \ {t}
  BY DEF Exit, Running, RecInv, IInv, Types
<1>7. IsFiniteSet(known')
  BY FS_Difference DEF Exit, RecInv, RecordsAreKnown
<1> HIDE DEF longer
<1>8. CASE TooMany(t)
  <2>1. finished' = Tail(longer) /\ known' = known \ Evicted(t)
    BY <1>3, <1>8 DEF Exit, Kept
  <2>2. /\ Order(Tail(longer)) /\ Range(Tail(longer)) = Range(longer) \ {Head(longer)}
        /\ Len(Tail(longer)) = Len(longer) - 1 /\ Head(longer) \in Range(longer)
    BY <1>4, <1>5, TailOfOrder
  <2>3. Head(longer) \in Tasks /\ Head(longer) \notin Running'
    <3>1. Range(finished) \subseteq Tasks
      BY <1>1, ElementOfSeq, LenProperties DEF Order, Range
    <3> QED BY <1>4, <1>6, <2>2, <3>1 DEF RecInv, RecordsAreKnown
  <2>4. Evicted(t) = {Head(longer)}
    <3>1. Head(longer) = t \/ Head(longer) \notin Running
      BY <1>6, <2>3
    <3> QED BY <1>3, <1>8, <2>3, <3>1 DEF Evicted, Running
  <2>5. FinishedAreOrdered'
    BY <1>4, <1>5, <2>1, <2>2 DEF FinishedAreOrdered, Order
  <2> QED BY <1>4, <1>6, <1>7, <2>1, <2>2, <2>3, <2>4, <2>5 DEF RecInv, RecordsAreKnown
<1>9. CASE ~TooMany(t)
  <2>1. finished' = longer /\ known' = known
    BY <1>3, <1>9 DEF Exit, Kept, Evicted
  <2>2. Len(longer) <= FinishedCap
    BY <1>3, <1>4, <1>5, <1>9 DEF TooMany
  <2>3. FinishedAreOrdered'
    BY <1>4, <2>1, <2>2 DEF FinishedAreOrdered, Order
  <2> QED BY <1>1, <1>4, <1>6, <1>7, <2>1, <2>3 DEF RecInv, RecordsAreKnown
<1> QED BY <1>8, <1>9

\* Every step keeps the order and the records.
LEMMA NextRecInv == RecInv /\ [Next]_runnerVars => RecInv'
<1> SUFFICES ASSUME RecInv, [Next]_runnerVars PROVE FinishedAreOrdered' /\ RecordsAreKnown'
  BY NextIInv DEF RecInv
<1> USE DEF sessions, trees, marks
<1>1. ASSUME NEW t \in Tasks, NEW a \in Agents, StartHere(t, a)
      PROVE  FinishedAreOrdered' /\ RecordsAreKnown'
  BY <1>1, RegisterRecords DEF StartHere
<1>2. ASSUME NEW r \in Requests, NEW a \in Agents, SpawnIsolated(r, a)
      PROVE  FinishedAreOrdered' /\ RecordsAreKnown'
  <2>1. call[r].task \in Tasks
    BY <1>2 DEF SpawnIsolated, Prepared, RecInv, IInv, Types, CallsAreWhole
  <2> QED BY <1>2, <2>1, RegisterRecords DEF SpawnIsolated
<1>3. ASSUME NEW t \in Tasks, NEW a \in Agents, Exit(t, a)
      PROVE  FinishedAreOrdered' /\ RecordsAreKnown'
  BY <1>3, ExitRecords
<1>4. CASE UNCHANGED <<children, known, finished>>
  BY <1>4 DEF RecInv, FinishedAreOrdered, RecordsAreKnown, Running, Order
<1>5. \/ \E t \in Tasks, a \in Agents : StartHere(t, a) \/ Exit(t, a)
      \/ \E r \in Requests, a \in Agents : SpawnIsolated(r, a)
      \/ UNCHANGED <<children, known, finished>>
  BY DEF Next, BeginIsolated, CheckWorktree, AddWorktree, RepeatSetup, SpawnFails, PreparationFails,
     ExitUnseen, Stop, Shutdown, Leave, RemoveWorktree, runnerVars
<1> QED BY <1>1, <1>2, <1>3, <1>4, <1>5

LEMMA RecInvariance == Spec => []RecInv
<1>1. ASSUME Init PROVE RecInv
  <2>1. finished = <<>> /\ Order(finished) /\ Len(finished) = 0 /\ Range(finished) = {}
    BY <1>1, EmptySeq DEF Init, Order, Range
  <2>2. IsFiniteSet(known) /\ known = {} /\ Running = {}
    BY <1>1, FS_EmptySet DEF Init, Running
  <2> QED BY <1>1, <2>1, <2>2, InitIInv, CapAssumption DEF RecInv, FinishedAreOrdered, RecordsAreKnown
<1> QED BY <1>1, NextRecInv, PTL DEF Spec

\* `records` holds every running session and at most FinishedCap finished ones,
\* however sessions start, end and start again.
THEOREM RecordsAreBounded == Spec => []RecordsBounded
<1>1. ASSUME RecInv PROVE RecordsBounded
  <2>1. IsFiniteSet(known) /\ Running \subseteq known
    BY <1>1 DEF RecInv, RecordsAreKnown
  <2>2. IsFiniteSet(Running) /\ Cardinality(Running) \in Nat
    BY <2>1, FS_Subset, FS_CardinalityType
  <2>3. /\ IsFiniteSet(Range(finished)) /\ Cardinality(Range(finished)) <= Len(finished)
        /\ Cardinality(Range(finished)) \in Nat
    BY <1>1, OrderIsFinite, FS_CardinalityType DEF RecInv, FinishedAreOrdered
  <2> DEFINE all == Running \union Range(finished)
             both == Running \intersect Range(finished)
  <2>4. IsFiniteSet(all) /\ Cardinality(all) = Cardinality(Running) + Cardinality(Range(finished)) - Cardinality(both)
    BY <2>2, <2>3, FS_Union
  <2>5. Cardinality(both) = 0
    BY <1>1, FS_EmptySet DEF RecInv, RecordsAreKnown
  <2>6. Cardinality(known) <= Cardinality(all) /\ Cardinality(known) \in Nat
    BY <1>1, <2>1, <2>4, FS_Subset, FS_CardinalityType DEF RecInv, RecordsAreKnown
  <2>7. Len(finished) \in Nat /\ Len(finished) <= FinishedCap /\ FinishedCap \in Nat
    BY <1>1, LenProperties, CapAssumption DEF RecInv, FinishedAreOrdered, Order
  <2> HIDE DEF all, both
  <2>8. Cardinality(known) <= FinishedCap + Cardinality(Running)
    BY <2>2, <2>3, <2>4, <2>5, <2>6, <2>7
  <2> QED BY <2>1, <2>8 DEF RecordsBounded
<1>2. RecInv => RecordsBounded BY <1>1
<1> QED BY <1>2, RecInvariance, PTL

-----------------------------------------------------------------------------
(* The cap.                                                                *)

CapInv == IInv /\ IsFiniteSet(Working) /\ CapOutrunByStartsOnly

\* What the cap is compared with is what there is: the sessions of `children` are
\* as many as the agents at work.
LEMMA SessionsCountAgents ==
  ASSUME IInv, board # "gone", IsFiniteSet(Working)
  PROVE  IsFiniteSet(Running) /\ Cardinality(Running) = Cardinality(Working)
<1> DEFINE task == [a \in Working |-> CHOOSE t \in Tasks : a \in alive[t]]
<1>1. \A a \in Working : task[a] \in Tasks /\ a \in alive[task[a]]
  BY DEF Working
<1>2. Running = {t \in Tasks : alive[t] # {}}
  BY DEF Running, IInv, MapsAgree
<1>3. \A a, b \in Working : task[a] = task[b] => a = b
  BY <1>1 DEF IInv, NoTwoAgents
<1>4. \A t \in Tasks : \A a \in alive[t] : a \in Working /\ task[a] = t
  BY <1>1 DEF Working, IInv, NoAgentTwice
<1>5. task \in [Working -> Running]
  BY <1>1, <1>2
<1> HIDE DEF task
<1>6. task \in Bijection(Working, Running)
  <2>1. task \in Injection(Working, Running)
    BY <1>3, <1>5 DEF Injection, IsInjective
  <2>2. \A t \in Running : \E a \in Working : task[a] = t
    BY <1>2, <1>4
  <2>3. task \in Surjection(Working, Running)
    BY <1>5, <2>2 DEF Surjection
  <2> QED BY <2>1, <2>3 DEF Bijection
<1>7. ExistsBijection(Working, Running)
  BY <1>6 DEF ExistsBijection
<1> QED BY <1>7, FS_Bijection

\* A registration adds one agent.
LEMMA RegisterWorks ==
  ASSUME CapInv, NEW t \in Tasks, NEW a \in Agents, Register(t, a), alive[t] = {}
  PROVE  /\ Working' = Working \union {a} /\ a \notin Working
         /\ IsFiniteSet(Working') /\ Cardinality(Working') = Cardinality(Working) + 1
         /\ Cardinality(Working) \in Nat
<1>1. alive \in [Tasks -> SUBSET Agents] /\ alive' = [alive EXCEPT ![t] = @ \union {a}]
  BY DEF CapInv, IInv, Types, Register
<1>2. a \notin Working
  BY DEF Register, Free, Working
<1>3. \A u \in Tasks : alive'[u] = IF u = t THEN alive[u] \union {a} ELSE alive[u]
  BY <1>1
<1>4. Working' = Working \union {a}
  BY <1>3 DEF Working
<1> QED BY <1>2, <1>4, FS_AddElement, FS_CardinalityType DEF CapInv

\* Fewer agents and fewer starts keep the bound.
LEMMA LessKeepsCap ==
  ASSUME CapInv, IInv', Working' \subseteq Working, InTheAir' \subseteq InTheAir,
         Working' \ inTree' \subseteq Working \ inTree
  PROVE  CapInv'
<1>1. IsFiniteSet(InTheAir)
  BY RequestsAssumption, FS_Subset DEF InTheAir
<1>2. IsFiniteSet(Working \ inTree)
  BY FS_Difference DEF CapInv
<1>3. IsFiniteSet(Working') /\ Cardinality(Working') <= Cardinality(Working)
  BY FS_Subset DEF CapInv
<1>4. Cardinality(InTheAir') <= Cardinality(InTheAir) /\ IsFiniteSet(InTheAir')
  BY <1>1, FS_Subset
<1>5. Cardinality(Working' \ inTree') <= Cardinality(Working \ inTree) /\ IsFiniteSet(Working' \ inTree')
  BY <1>2, FS_Subset
<1>6. /\ Cardinality(Working) \in Nat /\ Cardinality(Working') \in Nat
      /\ Cardinality(InTheAir) \in Nat /\ Cardinality(InTheAir') \in Nat
      /\ Cardinality(Working \ inTree) \in Nat /\ Cardinality(Working' \ inTree') \in Nat
      /\ Cardinality(Requests) \in Nat
  BY <1>1, <1>2, <1>3, <1>4, <1>5, RequestsAssumption, FS_CardinalityType DEF CapInv
<1> QED BY <1>3, <1>4, <1>5, <1>6, CapAssumption DEF CapInv, CapOutrunByStartsOnly

\* Every step keeps the bound.
LEMMA NextCapInv == CapInv /\ [Next]_runnerVars => CapInv'
<1> SUFFICES ASSUME CapInv, [Next]_runnerVars PROVE CapInv'
  OBVIOUS
<1> USE DEF sessions, trees, marks
<1>0. IInv' /\ IInv
  BY NextIInv DEF CapInv
<1>a. /\ IsFiniteSet(InTheAir) /\ IsFiniteSet(InTheAir')
      /\ Cardinality(InTheAir) <= Cardinality(Requests)
      /\ Cardinality(InTheAir') <= Cardinality(Requests)
      /\ Cardinality(InTheAir) \in Nat /\ Cardinality(InTheAir') \in Nat /\ Cardinality(Requests) \in Nat
  <2>1. InTheAir \subseteq Requests /\ InTheAir' \subseteq Requests
    BY DEF InTheAir
  <2> QED BY <2>1, RequestsAssumption, FS_Subset, FS_CardinalityType
<1>b. ASSUME ~Full, board # "gone"
      PROVE  Cardinality(Working) < Cap /\ Cardinality(Working) \in Nat
  <2>1. IsFiniteSet(Running) /\ Cardinality(Running) = Cardinality(Working)
    BY <1>0, <1>b, SessionsCountAgents DEF CapInv
  <2> QED BY <1>b, <2>1, CapAssumption, FS_CardinalityType DEF Full
<1>1. ASSUME NEW t \in Tasks, NEW a \in Agents, StartHere(t, a) PROVE CapInv'
  <2>1. Register(t, a) /\ ~Full /\ board # "gone" /\ alive[t] = {}
    BY <1>0, <1>1 DEF StartHere, MayStart, AlreadyRunning, IInv, MapsAgree
  <2>2. IsFiniteSet(Working') /\ Cardinality(Working') = Cardinality(Working) + 1
    BY <2>1, RegisterWorks
  <2>3. Cardinality(Working) < Cap /\ Cardinality(Working) \in Nat
    BY <1>b, <2>1
  <2>4. Cardinality(Working' \ inTree') <= Cardinality(Working') /\ Cardinality(Working' \ inTree') \in Nat
    BY <2>2, FS_Difference, FS_Subset, FS_CardinalityType
  <2> QED BY <1>0, <1>a, <2>2, <2>3, <2>4, CapAssumption DEF CapInv, CapOutrunByStartsOnly
<1>2. ASSUME NEW t \in Tasks, NEW r \in Requests, BeginIsolated(r, t) PROVE CapInv'
  <2>1. ~Full /\ board # "gone" /\ UNCHANGED <<alive, inTree>>
    BY <1>2 DEF BeginIsolated, MayStart
  <2>2. Working' = Working
    BY <2>1 DEF Working
  <2>3. Cardinality(Working) < Cap /\ Cardinality(Working) \in Nat
    BY <1>b, <2>1
  <2> QED BY <1>0, <1>a, <2>1, <2>2, <2>3, CapAssumption DEF CapInv, CapOutrunByStartsOnly
<1>3. ASSUME NEW r \in Requests, NEW a \in Agents, SpawnIsolated(r, a) PROVE CapInv'
  <2>1. call[r].task \in Tasks /\ call[r].at # "idle"
    BY <1>0, <1>3 DEF SpawnIsolated, Prepared, IInv, Types, CallsAreWhole
  <2>2. Register(call[r].task, a) /\ inTree' = inTree \union {a} /\ call' = [call EXCEPT ![r] = NoCall]
    BY <1>3 DEF SpawnIsolated, Finish
  <2>3. alive[call[r].task] = {}
    BY <1>0, <2>1 DEF IInv, PreparedHasNoAgent
  <2>4. /\ Working' = Working \union {a} /\ a \notin Working /\ IsFiniteSet(Working')
        /\ Cardinality(Working') = Cardinality(Working) + 1 /\ Cardinality(Working) \in Nat
    BY <2>1, <2>2, <2>3, RegisterWorks
  <2>5. InTheAir' = InTheAir \ {r} /\ r \in InTheAir
    BY <1>0, <2>1, <2>2 DEF InTheAir, NoCall, IInv, Types
  <2>6. Cardinality(InTheAir') = Cardinality(InTheAir) - 1
    BY <1>a, <2>5, FS_RemoveElement
  <2>7. Working' \ inTree' = Working \ inTree
    BY <2>2, <2>4
  <2>8. Cardinality(Working) + Cardinality(InTheAir) <= Cap + Cardinality(Requests)
        /\ Cardinality(Working \ inTree) <= Cap
    BY DEF CapInv, CapOutrunByStartsOnly
  <2>9. Cardinality(Working') + Cardinality(InTheAir') = Cardinality(Working) + Cardinality(InTheAir)
    BY <1>a, <2>4, <2>6
  <2> QED BY <1>0, <2>4, <2>7, <2>8, <2>9 DEF CapInv, CapOutrunByStartsOnly
<1>4. ASSUME NEW t \in Tasks, NEW a \in Agents, Exit(t, a) \/ ExitUnseen(t, a) PROVE CapInv'
  <2>1. alive' = [alive EXCEPT ![t] = @ \ {a}] /\ inTree' = inTree \ {a} /\ call' = call /\ a \in alive[t]
    BY <1>4 DEF Exit, ExitUnseen
  <2>2. \A u \in Tasks : alive'[u] = alive[u] \ {a}
    BY <1>0, <2>1 DEF IInv, Types, NoAgentTwice
  <2>3. Working' = Working \ {a} /\ InTheAir' = InTheAir
    BY <2>1, <2>2 DEF Working, InTheAir
  <2> QED BY <1>0, <2>1, <2>3, LessKeepsCap
<1>5. CASE UNCHANGED <<alive, inTree>> /\ InTheAir' \subseteq InTheAir
  BY <1>0, <1>5, LessKeepsCap DEF Working
<1>6. \/ \E t \in Tasks, a \in Agents : StartHere(t, a) \/ Exit(t, a) \/ ExitUnseen(t, a)
      \/ \E r \in Requests : \E t \in Tasks : BeginIsolated(r, t)
      \/ \E r \in Requests, a \in Agents : SpawnIsolated(r, a)
      \/ UNCHANGED <<alive, inTree>> /\ InTheAir' \subseteq InTheAir
  <2>1. ASSUME NEW r \in Requests, CheckWorktree(r) \/ AddWorktree(r) \/ RepeatSetup(r)
        PROVE  UNCHANGED <<alive, inTree>> /\ InTheAir' \subseteq InTheAir
    BY <1>0, <2>1 DEF CheckWorktree, AddWorktree, RepeatSetup, Goto, InTheAir, NoCall, IInv, Types
  <2>2. ASSUME NEW r \in Requests, SpawnFails(r) \/ PreparationFails(r)
        PROVE  UNCHANGED <<alive, inTree>> /\ InTheAir' \subseteq InTheAir
    BY <1>0, <2>2 DEF SpawnFails, PreparationFails, Finish, InTheAir, IInv, Types
  <2>3. CASE Leave
    BY <2>3 DEF Leave, InTheAir
  <2>4. \A t \in Tasks : Stop(t) \/ RemoveWorktree(t) =>
          UNCHANGED <<alive, inTree>> /\ InTheAir' \subseteq InTheAir
    BY DEF Stop, RemoveWorktree, InTheAir
  <2>5. CASE Shutdown \/ UNCHANGED runnerVars
    BY <2>5 DEF Shutdown, runnerVars, InTheAir
  <2> QED BY <2>1, <2>2, <2>3, <2>4, <2>5 DEF Next
<1> QED BY <1>1, <1>2, <1>3, <1>4, <1>5, <1>6

\* Sessions past the cap were all begun below it: the overrun is what was being
\* prepared at that moment, at most one start per concurrent request.
THEOREM CapIsOutrunByStartsOnly == Spec => []CapOutrunByStartsOnly
<1>1. Init => CapInv
  <2> SUFFICES ASSUME Init PROVE CapInv
    OBVIOUS
  <2>1. Working = {} /\ InTheAir = {} /\ Working \ inTree = {}
    BY DEF Init, Working, InTheAir
  <2>2. Cardinality(Requests) \in Nat
    BY RequestsAssumption, FS_CardinalityType
  <2> QED BY <2>1, <2>2, InitIInv, FS_EmptySet, CapAssumption DEF CapInv, CapOutrunByStartsOnly
<1>2. CapInv => CapOutrunByStartsOnly
  BY DEF CapInv
<1> QED BY <1>1, <1>2, NextCapInv, PTL DEF Spec

-----------------------------------------------------------------------------
(* TaskDispatch.                                                           *)

\* Who resumes, answers, removes a worktree or moves a card by the command line
\* makes sure that no request is busy on that task.
Care == {"resume", "answer", "remove", "cli"} \intersect Routes \subseteq Careful

HandlerRoutes == {"none", "start", "rework", "resume", "answer", "done", "remove"}

DispatchTypes ==
  /\ status \in [Tasks -> Status]
  /\ handler \in [Requests -> [route : HandlerRoutes, task : Tasks \union {NoTask}]]

\* A handler serves a task by a route in use, or nothing.
HandlersAreWhole ==
  \A r \in Requests : /\ handler[r].route = "none" <=> handler[r].task = NoTask
                      /\ handler[r].route \in Routes \union {"none"}

\* What is being prepared is what a handler serves, and after /start and /rework
\* the card says so.
PreparingIsServed ==
  \A r \in Requests : call[r].task # NoTask =>
    /\ handler[r].task = call[r].task
    /\ handler[r].route \in {"start", "rework", "resume", "answer"}
    /\ handler[r].route \in {"start", "rework"} => status[call[r].task] = "in_progress"

\* A route used with care has its task to itself.
CarefulAreAlone ==
  \A r, s \in Requests :
    handler[r].task = handler[s].task /\ handler[r].task # NoTask /\ r # s =>
      handler[r].route \notin Careful

\* No agent starts while a worktree is about to be removed.
RemovalFindsNobody ==
  \A r \in Requests :
    handler[r].route = "remove" /\ board # "gone" => alive[handler[r].task] = {}

DInv == IInv /\ DispatchTypes /\ HandlersAreWhole /\ PreparingIsServed /\ CarefulAreAlone
        /\ RemovalFindsNobody

-----------------------------------------------------------------------------
(* The routes keep the precondition.                                       *)

\* A route that is let in finds its task prepared by /start or /rework at most.
LEMMA OnlyDispatchesOverlap ==
  ASSUME Care, DInv, NEW t \in Tasks, NEW route, Use(route, t), NEW s \in Requests, call[s].task = t
  PROVE  /\ status[t] = "in_progress" /\ handler[s].route \in {"start", "rework"}
         /\ route \notin {"resume", "answer", "remove", "cli"}
<1>1. t # NoTask
  BY NoTaskAssumption
<1>2. handler[s].task = t /\ handler[s].route \in {"start", "rework", "resume", "answer"}
  BY <1>1 DEF DInv, PreparingIsServed
<1>3. handler[s].route \notin Careful /\ route \notin Careful /\ route \in Routes
  BY <1>2 DEF Use
<1>4. handler[s].route \in Routes
  BY <1>2 DEF DInv, HandlersAreWhole
<1> QED BY <1>1, <1>2, <1>3, <1>4 DEF Care, DInv, PreparingIsServed

\* So a task that is not in progress, or asked for with care, is not prepared.
LEMMA UseIsAlone ==
  ASSUME Care, DInv, NEW t \in Tasks, NEW route, Use(route, t),
         status[t] # "in_progress" \/ route \in {"resume", "answer", "remove", "cli"}
  PROVE  Alone(t)
BY OnlyDispatchesOverlap DEF Alone, Preparing

\* After the await of its guard a handler finds its task unprepared too.
LEMMA GuardedIsAlone ==
  ASSUME Care, DInv, NEW r \in Requests, NEW route \in {"rework", "resume", "remove"}, Guarding(r, route),
         route = "rework" => status[handler[r].task] # "in_progress"
  PROVE  handler[r].task \in Tasks /\ Alone(handler[r].task)
<1> DEFINE t == handler[r].task
<1>1. t \in Tasks
  BY DEF DInv, HandlersAreWhole, DispatchTypes, Guarding
<1>2. ASSUME NEW s \in Requests, call[s].task = t PROVE FALSE
  <2>1. t # NoTask /\ s # r
    BY <1>1, <1>2, NoTaskAssumption DEF Guarding, NoCall
  <2>2. /\ handler[s].task = t /\ handler[s].route \in {"start", "rework", "resume", "answer"}
        /\ handler[s].route \in {"start", "rework"} => status[t] = "in_progress"
    BY <1>2, <2>1 DEF DInv, PreparingIsServed
  <2>3. handler[r].route \notin Careful /\ handler[s].route \notin Careful
    BY <2>1, <2>2 DEF DInv, CarefulAreAlone
  <2>4. handler[r].route \in Routes /\ handler[s].route \in Routes
    BY <2>1, <2>2 DEF DInv, HandlersAreWhole
  <2> QED BY <2>2, <2>3, <2>4 DEF Care, Guarding
<1> QED BY <1>1, <1>2 DEF Alone, Preparing

\* A step of the routes is a step of the runner under callers that keep its
\* precondition, or none of the runner's.
LEMMA StepIsRunners == ASSUME Care PROVE DInv /\ [DispatchNext]_allVars => [Next]_runnerVars
<1> SUFFICES ASSUME DInv, [DispatchNext]_allVars PROVE [Next]_runnerVars
  OBVIOUS
<1>1. ASSUME NEW t \in Tasks,
             \/ OpenTask(t) \/ ReturnToBacklog(t) \/ CancelTask(t) \/ BriefingSession(t)
             \/ ReviewSession(t) \/ StopSession(t)
      PROVE  [Next]_runnerVars
  <2>1. CASE OpenTask(t) \/ BriefingSession(t) \/ ReviewSession(t)
    <3>1. Alone(t)
      BY <2>1, UseIsAlone DEF OpenTask, BriefingSession, ReviewSession
    <3>2. (\E a \in Agents : StartHere(t, a)) \/ UNCHANGED runnerVars
      BY <2>1 DEF OpenTask, BriefingSession, ReviewSession, TryHere
    <3> QED BY <3>1, <3>2 DEF Next
  <2>2. CASE ReturnToBacklog(t) \/ CancelTask(t) \/ StopSession(t)
    <3>1. Stop(t) \/ UNCHANGED runnerVars
      BY <2>2 DEF ReturnToBacklog, CancelTask, StopSession
    <3> QED BY <3>1 DEF Next
  <2> QED BY <1>1, <2>1, <2>2
<1>2. ASSUME NEW t \in Tasks,
             \/ AgentAsks(t) \/ AgentExits(t)
             \/ \E s \in Status : AgentMoves(t, s) \/ CliMoves(t, s)
      PROVE  [Next]_runnerVars
  <2>1. UNCHANGED runnerVars \/ \E a \in Agents : Exit(t, a) \/ ExitUnseen(t, a)
    BY <1>2 DEF AgentAsks, AgentExits, AgentMoves, CliMoves
  <2> QED BY <2>1 DEF Next
<1>3. ASSUME NEW t \in Tasks, NEW r \in Requests, NEW route,
             StartTask(r, t) \/ AnswerTask(r, t) \/ AskWorker(r, route, t) \/ AskGit(r, route, t)
      PROVE  [Next]_runnerVars
  <2>1. CASE StartTask(r, t) \/ AnswerTask(r, t)
    <3>1. Alone(t)
      BY <2>1, UseIsAlone DEF StartTask, AnswerTask, UseWith
    <3>2. \/ BeginIsolated(r, t) \/ UNCHANGED runnerVars
          \/ \E a \in Agents : StartHere(t, a)
      BY <2>1 DEF StartTask, AnswerTask, Dispatch
    <3> QED BY <3>1, <3>2 DEF Next
  <2>2. CASE AskWorker(r, route, t) \/ AskGit(r, route, t)
    BY <2>2 DEF AskWorker, AskGit
  <2> QED BY <1>3, <2>1, <2>2
<1>4. ASSUME NEW r \in Requests, RequestStep(r) PROVE [Next]_runnerVars
  <2> DEFINE t == handler[r].task
  <2>1. CASE WorkerPrepares(r) \/ WorkerStarts(r) \/ WorkerFails(r)
    BY <2>1 DEF WorkerPrepares, WorkerStarts, WorkerFails, Next
  <2>2. CASE ReworkTask(r)
    <3>1. t \in Tasks /\ Alone(t)
      BY <2>2, GuardedIsAlone DEF ReworkTask
    <3>2. BeginIsolated(r, t) \/ UNCHANGED runnerVars
      BY <2>2 DEF ReworkTask, Dispatch
    <3> QED BY <3>1, <3>2 DEF Next
  <2>3. CASE ResumeTask(r)
    <3>1. t \in Tasks /\ Alone(t)
      BY <2>3, GuardedIsAlone DEF ResumeTask
    <3> QED BY <2>3, <3>1 DEF ResumeTask, Next
  <2>4. CASE RemoveTaskWorktree(r)
    <3>1. t \in Tasks /\ Alone(t)
      BY <2>4, GuardedIsAlone DEF RemoveTaskWorktree
    <3>2. alive[t] = {}
      BY <2>4 DEF RemoveTaskWorktree, Guarding, DInv, RemovalFindsNobody
    <3> QED BY <2>4, <3>1, <3>2 DEF RemoveTaskWorktree, Unused, Next
  <2>5. CASE GuardRefuses(r) \/ DoneTask(r) \/ GitRefuses(r)
    BY <2>5 DEF GuardRefuses, DoneTask, GitRefuses
  <2> QED BY <1>4, <2>1, <2>2, <2>3, <2>4, <2>5 DEF RequestStep
<1>5. CASE BoardStops \/ BoardLeaves
  BY <1>5 DEF BoardStops, BoardLeaves, Next
<1>6. CASE UNCHANGED allVars
  BY <1>6 DEF allVars
<1> QED BY <1>1, <1>2, <1>3, <1>4, <1>5, <1>6 DEF DispatchNext

-----------------------------------------------------------------------------
(* The invariant, by what a step does to the handlers.                     *)

\* A step that moves no handler: it writes no card that is being prepared, and
\* starts no agent where a worktree is about to be removed.
LEMMA HandlersStay ==
  ASSUME DInv, IInv', status' \in [Tasks -> Status], handler' = handler,
         \A r \in Requests : call'[r].task = call[r].task,
         \A t \in Tasks : status'[t] = status[t] \/ Alone(t),
         board = "gone" => board' = "gone",
         \A r \in Requests : handler[r].route = "remove" /\ board' # "gone" =>
                               alive'[handler[r].task] \subseteq alive[handler[r].task]
  PROVE  DInv'
<1>1. DispatchTypes' /\ HandlersAreWhole' /\ CarefulAreAlone'
  BY DEF DInv, DispatchTypes, HandlersAreWhole, CarefulAreAlone
<1>2. PreparingIsServed'
  <2> SUFFICES ASSUME NEW r \in Requests, call[r].task # NoTask
               PROVE  /\ handler[r].task = call[r].task
                      /\ handler[r].route \in {"start", "rework", "resume", "answer"}
                      /\ handler[r].route \in {"start", "rework"} => status'[call[r].task] = "in_progress"
    BY DEF PreparingIsServed
  <2>1. call[r].task \in Tasks /\ ~Alone(call[r].task)
    BY DEF DInv, IInv, Types, Alone, Preparing
  <2> QED BY <2>1 DEF DInv, PreparingIsServed
<1>3. RemovalFindsNobody'
  BY DEF DInv, RemovalFindsNobody
<1> QED BY <1>1, <1>2, <1>3 DEF DInv

\* A handler begins to serve a task, and may call startSession() at once.
LEMMA HandlerBegins ==
  ASSUME DInv, IInv', status' \in [Tasks -> Status],
         NEW r \in Requests, NEW route \in HandlerRoutes \ {"none"}, NEW t \in Tasks,
         UseWith(route, r, t), Serve(r, route, t), UNCHANGED <<board, alive>>,
         \/ UNCHANGED <<status, call>>
         \/ /\ Alone(t) /\ route \in {"start", "rework", "resume", "answer"}
            /\ route \in {"start", "rework"} => status'[t] = "in_progress"
            /\ \A u \in Tasks \ {t} : status'[u] = status[u]
            /\ call'[r].task = t /\ \A s \in Requests \ {r} : call'[s].task = call[s].task,
         route = "remove" => alive[t] = {}
  PROVE  DInv'
<1> USE NoTaskAssumption
<1>1. /\ handler'[r] = [route |-> route, task |-> t]
      /\ \A s \in Requests \ {r} : handler'[s] = handler[s]
  BY DEF Serve, DInv, DispatchTypes
<1>2. handler[r].task = NoTask /\ handler[r].route = "none" /\ call[r].task = NoTask
  <2>1. handler[r].task = NoTask /\ handler[r].route = "none"
    BY DEF UseWith, NoRequest
  <2> QED BY <2>1 DEF DInv, PreparingIsServed
<1>3. DispatchTypes'
  BY DEF Serve, DInv, DispatchTypes
<1>4. route \in Routes
  BY DEF UseWith, Use
<1>5. HandlersAreWhole'
  BY <1>1, <1>4 DEF DInv, HandlersAreWhole
<1>6. \A s \in Requests : handler[s].task = t => handler[s].route \notin Careful /\ route \notin Careful
  BY DEF UseWith, Use
<1>7. CarefulAreAlone'
  BY <1>1, <1>6 DEF DInv, CarefulAreAlone
<1>8. RemovalFindsNobody'
  BY <1>1 DEF DInv, RemovalFindsNobody
<1>9. PreparingIsServed'
  <2>1. CASE UNCHANGED <<status, call>>
    BY <1>1, <1>2, <2>1 DEF DInv, PreparingIsServed
  <2>2. CASE ~UNCHANGED <<status, call>>
    <3>1. \A s \in Requests \ {r} : call[s].task # t
      BY <2>2 DEF Alone, Preparing
    <3>2. \A s \in Requests \ {r} : call[s].task # NoTask => call[s].task \in Tasks \ {t}
      BY <3>1 DEF DInv, IInv, Types
    <3> QED BY <1>1, <2>2, <3>2 DEF DInv, PreparingIsServed
  <2> QED BY <2>1, <2>2
<1> QED BY <1>3, <1>5, <1>7, <1>8, <1>9 DEF DInv

\* A handler past its guard calls startSession().
LEMMA HandlerPrepares ==
  ASSUME DInv, IInv', status' \in [Tasks -> Status],
         NEW r \in Requests, NEW t \in Tasks, handler[r].task = t,
         handler[r].route \in {"rework", "resume"}, handler' = handler, UNCHANGED <<board, alive>>,
         Alone(t), handler[r].route = "rework" => status'[t] = "in_progress",
         \A u \in Tasks \ {t} : status'[u] = status[u],
         call'[r].task = t, \A s \in Requests \ {r} : call'[s].task = call[s].task
  PROVE  DInv'
<1>1. DispatchTypes' /\ HandlersAreWhole' /\ CarefulAreAlone' /\ RemovalFindsNobody'
  BY DEF DInv, DispatchTypes, HandlersAreWhole, CarefulAreAlone, RemovalFindsNobody
<1>2. \A s \in Requests \ {r} : call[s].task # NoTask => call[s].task \in Tasks \ {t}
  BY DEF DInv, IInv, Types, Alone, Preparing
<1>3. PreparingIsServed'
  BY <1>2 DEF DInv, PreparingIsServed
<1> QED BY <1>1, <1>3 DEF DInv

\* A handler answers; it prepares nothing then, and the card it may have put back
\* is prepared by nobody else.
LEMMA HandlerAnswers ==
  ASSUME DInv, IInv', status' \in [Tasks -> Status], NEW r \in Requests, Answered(r),
         board' = board, call'[r].task = NoTask,
         \A s \in Requests \ {r} : call'[s].task = call[s].task,
         \A s \in Requests \ {r} : call[s].task # NoTask => status'[call[s].task] = status[call[s].task],
         \A s \in Requests \ {r} : handler[s].route = "remove" =>
                                     alive'[handler[s].task] \subseteq alive[handler[s].task]
  PROVE  DInv'
<1>1. handler'[r] = NoRequest /\ \A s \in Requests \ {r} : handler'[s] = handler[s]
  BY DEF Answered, DInv, DispatchTypes
<1>2. DispatchTypes'
  BY DEF Answered, NoRequest, DInv, DispatchTypes, HandlerRoutes
<1>3. HandlersAreWhole' /\ CarefulAreAlone'
  BY <1>1 DEF DInv, HandlersAreWhole, CarefulAreAlone, NoRequest
<1>4. PreparingIsServed'
  BY <1>1 DEF DInv, PreparingIsServed
<1>5. RemovalFindsNobody'
  BY <1>1 DEF DInv, RemovalFindsNobody, NoRequest
<1> QED BY <1>2, <1>3, <1>4, <1>5 DEF DInv

-----------------------------------------------------------------------------
(* The invariant, by the action.                                           *)

\* Writing a card keeps the type.
LEMMA WriteType ==
  ASSUME DInv, NEW t \in Tasks, NEW s \in Status, Write(t, s)
  PROVE  /\ status' \in [Tasks -> Status] /\ status'[t] = s
         /\ \A u \in Tasks \ {t} : status'[u] = status[u]
BY DEF Write, DInv, DispatchTypes

\* A session in the checkout starts where no worktree is about to be removed.
LEMMA TryHereSparesRemovals ==
  ASSUME Care, DInv, NEW t \in Tasks, NEW route, Use(route, t), TryHere(t)
  PROVE  /\ board' = board /\ call' = call
         /\ \A r \in Requests : handler[r].route = "remove" => alive'[handler[r].task] = alive[handler[r].task]
<1>1. \A r \in Requests : handler[r].route = "remove" => handler[r].task # t
  BY DEF Use, Care, DInv, HandlersAreWhole
<1>2. CASE UNCHANGED runnerVars
  BY <1>2 DEF runnerVars, sessions
<1>3. ASSUME NEW a \in Agents, StartHere(t, a)
      PROVE  /\ board' = board /\ call' = call
             /\ \A u \in Tasks \ {t} : alive'[u] = alive[u]
  BY <1>3 DEF StartHere, Register, DInv, IInv, Types
<1>4. \A r \in Requests : handler[r].route = "remove" => handler[r].task \in Tasks
  BY DEF DInv, HandlersAreWhole, DispatchTypes
<1> QED BY <1>1, <1>2, <1>3, <1>4 DEF TryHere

LEMMA StatusNames ==
  {"backlog", "open", "ready", "in_progress", "review", "done", "cancelled"} \subseteq Status
BY DEF Status, TRANSITIONS

\* Routes without an await, and everyone who is no route.
LEMMA OneTurnStep ==
  ASSUME Care, DInv, IInv', NEW t \in Tasks,
         \/ OpenTask(t) \/ ReturnToBacklog(t) \/ CancelTask(t)
         \/ BriefingSession(t) \/ ReviewSession(t) \/ StopSession(t)
         \/ AgentAsks(t) \/ AgentExits(t)
         \/ \E s \in Status : AgentMoves(t, s) \/ CliMoves(t, s)
  PROVE  DInv'
<1>0. status \in [Tasks -> Status] /\ alive \in [Tasks -> SUBSET Agents]
  BY DEF DInv, DispatchTypes, IInv, Types
<1>00. \A r \in Requests : handler[r].route = "remove" => handler[r].task \in Tasks
  BY DEF DInv, HandlersAreWhole, DispatchTypes
<1>1. CASE OpenTask(t) \/ BriefingSession(t) \/ ReviewSession(t)
  <2>1. PICK route : Use(route, t) /\ status[t] # "in_progress"
    BY <1>1 DEF OpenTask, BriefingSession, ReviewSession
  <2>2. TryHere(t) /\ handler' = handler /\ Alone(t)
    BY <1>1, <2>1, UseIsAlone DEF OpenTask, BriefingSession, ReviewSession, TryHere, dispatchVars
  <2>3. status' = status \/ Write(t, "open")
    BY <1>1 DEF OpenTask, BriefingSession, ReviewSession, dispatchVars
  <2>4. status' \in [Tasks -> Status] /\ \A u \in Tasks \ {t} : status'[u] = status[u]
    BY <1>0, <2>3, WriteType, StatusNames
  <2> QED BY <2>1, <2>2, <2>4, TryHereSparesRemovals, HandlersStay
<1>2. CASE ReturnToBacklog(t) \/ CancelTask(t) \/ StopSession(t)
  <2>1. PICK route : Use(route, t) /\ (status' = status \/ status[t] # "in_progress")
    BY <1>2 DEF ReturnToBacklog, CancelTask, StopSession, dispatchVars
  <2>2. status' = status \/ Write(t, "backlog") \/ Write(t, "cancelled")
    BY <1>2 DEF ReturnToBacklog, CancelTask, StopSession, dispatchVars
  <2>3. status' \in [Tasks -> Status] /\ \A u \in Tasks \ {t} : status'[u] = status[u]
    BY <1>0, <2>2, WriteType, StatusNames
  <2>4. UNCHANGED <<board, alive, call, handler>>
    BY <1>2 DEF ReturnToBacklog, CancelTask, StopSession, Stop, runnerVars, sessions, dispatchVars
  <2>5. status'[t] = status[t] \/ Alone(t)
    BY <2>1, UseIsAlone
  <2> QED BY <2>3, <2>4, <2>5, HandlersStay
<1>3. ASSUME NEW s \in Status, AgentMoves(t, s) PROVE DInv'
  <2>1. status' \in [Tasks -> Status] /\ \A u \in Tasks \ {t} : status'[u] = status[u]
    BY <1>3, WriteType DEF AgentMoves
  <2>2. UNCHANGED <<board, alive, call, handler>> /\ alive[t] # {}
    BY <1>3 DEF AgentMoves, runnerVars, sessions
  <2>3. Alone(t)
    BY <2>2 DEF Alone, Preparing, DInv, IInv, PreparedHasNoAgent
  <2> QED BY <2>1, <2>2, <2>3, HandlersStay
<1>4. ASSUME NEW s \in Status, CliMoves(t, s) PROVE DInv'
  <2>1. status' \in [Tasks -> Status] /\ \A u \in Tasks \ {t} : status'[u] = status[u]
    BY <1>4, WriteType DEF CliMoves
  <2>2. UNCHANGED <<board, alive, call, handler>> /\ Use("cli", t)
    BY <1>4 DEF CliMoves, runnerVars, sessions
  <2>3. Alone(t)
    BY <2>2, UseIsAlone
  <2> QED BY <2>1, <2>2, <2>3, HandlersStay
<1>5. CASE AgentAsks(t)
  <2>1. UNCHANGED <<board, alive, call, handler, status>>
    BY <1>5 DEF AgentAsks, runnerVars, sessions
  <2> QED BY <1>0, <2>1, HandlersStay
<1>6. CASE AgentExits(t)
  <2>1. PICK a \in Agents : Exit(t, a) \/ ExitUnseen(t, a)
    BY <1>6 DEF AgentExits
  <2>2. UNCHANGED <<board, call, handler, status>>
    BY <1>6, <2>1 DEF AgentExits, Exit, ExitUnseen, dispatchVars
  <2>3. \A u \in Tasks : alive'[u] \subseteq alive[u]
    BY <1>0, <2>1 DEF Exit, ExitUnseen
  <2> QED BY <1>0, <1>00, <2>2, <2>3, HandlersStay
<1> QED BY <1>1, <1>2, <1>3, <1>4, <1>5, <1>6

\* Requests that begin.
LEMMA BeginStep ==
  ASSUME Care, DInv, IInv', NEW t \in Tasks, NEW r \in Requests,
         \/ StartTask(r, t) \/ AnswerTask(r, t)
         \/ \E route \in {"rework", "resume"} : AskWorker(r, route, t)
         \/ \E route \in {"done", "remove"} : AskGit(r, route, t)
  PROVE  DInv'
<1> USE DEF HandlerRoutes
<1>0. status \in [Tasks -> Status] /\ call \in [Requests -> [at : Stages, task : Tasks \union {NoTask}]]
  BY DEF DInv, DispatchTypes, IInv, Types
<1>00. ASSUME BeginIsolated(r, t)
       PROVE  /\ UNCHANGED <<board, alive>> /\ call'[r].task = t
              /\ \A s \in Requests \ {r} : call'[s].task = call[s].task
  BY <1>0, <1>00 DEF BeginIsolated, sessions
<1>1. CASE StartTask(r, t)
  <2>1. UseWith("start", r, t) /\ Write(t, "in_progress") /\ Alone(t)
    BY <1>1, UseIsAlone DEF StartTask, Dispatch, UseWith
  <2>2. /\ status' \in [Tasks -> Status] /\ status'[t] = "in_progress"
        /\ \A u \in Tasks \ {t} : status'[u] = status[u]
    BY <2>1, WriteType, StatusNames
  <2>3. CASE BeginIsolated(r, t) /\ Serve(r, "start", t)
    BY <1>00, <2>1, <2>2, <2>3, HandlerBegins
  <2>4. CASE Answered(r) /\ UNCHANGED runnerVars
    <3>1. handler' = handler
      BY <2>1, <2>4 DEF Answered, UseWith, DInv, DispatchTypes
    <3>2. UNCHANGED <<board, alive, call>>
      BY <2>4 DEF runnerVars, sessions
    <3> QED BY <2>1, <2>2, <3>1, <3>2, HandlersStay
  <2> QED BY <1>1, <2>3, <2>4 DEF StartTask, Dispatch
<1>2. CASE AnswerTask(r, t)
  <2>1. UseWith("answer", r, t) /\ Use("answer", t) /\ Alone(t) /\ status' = status
    BY <1>2, UseIsAlone DEF AnswerTask, UseWith
  <2>2. CASE handler' = handler /\ TryHere(t)
    BY <1>0, <2>1, <2>2, TryHereSparesRemovals, HandlersStay
  <2>3. CASE Serve(r, "answer", t) /\ BeginIsolated(r, t)
    BY <1>0, <1>00, <2>1, <2>3, HandlerBegins
  <2> QED BY <1>2, <2>2, <2>3 DEF AnswerTask, TryHere
<1>3. ASSUME NEW route \in {"rework", "resume"}, AskWorker(r, route, t) PROVE DInv'
  <2>1. UseWith(route, r, t) /\ Serve(r, route, t) /\ UNCHANGED <<board, alive, call, status>>
    BY <1>3 DEF AskWorker, runnerVars, sessions
  <2> QED BY <1>0, <2>1, HandlerBegins
<1>4. ASSUME NEW route \in {"done", "remove"}, AskGit(r, route, t) PROVE DInv'
  <2>1. UseWith(route, r, t) /\ Serve(r, route, t) /\ UNCHANGED <<board, alive, call, status>>
    BY <1>4 DEF AskGit, runnerVars, sessions
  <2>2. route = "remove" => alive[t] = {}
    BY <1>4, <2>1 DEF AskGit, UseWith, Use, DInv, IInv, MapsAgree
  <2> QED BY <1>0, <2>1, <2>2, HandlerBegins
<1> QED BY <1>1, <1>2, <1>3, <1>4

\* The end of a preparation: nobody else prepares that task.
LEMMA EndOfPreparation ==
  ASSUME DInv, NEW r \in Requests, call[r].at # "idle", Finish(r)
  PROVE  /\ call[r].task \in Tasks /\ handler[r].task = call[r].task /\ alive[call[r].task] = {}
         /\ call'[r].task = NoTask
         /\ \A s \in Requests \ {r} : call'[s] = call[s] /\ call[s].task # call[r].task
         /\ \A s \in Requests \ {r} : handler[s].route = "remove" => handler[s].task # call[r].task
                                      \/ handler[s].route \notin Careful
<1>1. call[r].task \in Tasks
  BY DEF DInv, IInv, Types, CallsAreWhole
<1>2. handler[r].task = call[r].task /\ alive[call[r].task] = {}
  BY <1>1, NoTaskAssumption DEF DInv, PreparingIsServed, IInv, PreparedHasNoAgent
<1>3. call'[r].task = NoTask /\ \A s \in Requests \ {r} : call'[s] = call[s]
  BY DEF Finish, NoCall, DInv, IInv, Types
<1>4. \A s \in Requests \ {r} : call[s].task # call[r].task
  BY <1>1, NoTaskAssumption DEF DInv, IInv, NoOverlap
<1>5. \A s \in Requests \ {r} : handler[s].task = call[r].task => handler[s].route \notin Careful
  BY <1>1, <1>2, NoTaskAssumption DEF DInv, CarefulAreAlone
<1> QED BY <1>1, <1>2, <1>3, <1>4, <1>5

\* Putting a card back keeps the types and touches no other card.
LEMMA RollBackType ==
  ASSUME DInv, NEW r \in Requests, handler[r].task \in Tasks, RollBack(r)
  PROVE  /\ status' \in [Tasks -> Status]
         /\ \A u \in Tasks \ {handler[r].task} : status'[u] = status[u]
<1> DEFINE t == handler[r].task
<1>1. status \in [Tasks -> Status]
  BY DEF DInv, DispatchTypes
<1>2. status' = status \/ \E s \in {"ready", "review"} : Write(t, s)
  <2>1. ASSUME handler[r].route \in DOMAIN Restore
        PROVE  Restore[handler[r].route] \in {"ready", "review"}
    BY <2>1 DEF Restore
  <2> QED BY <2>1 DEF RollBack
<1> QED BY <1>1, <1>2, WriteType, StatusNames

\* Requests that go on.
LEMMA RequestKeeps == ASSUME Care, DInv, IInv', NEW r \in Requests, RequestStep(r) PROVE DInv'
<1> DEFINE t == handler[r].task
<1>0. /\ status \in [Tasks -> Status] /\ alive \in [Tasks -> SUBSET Agents]
      /\ call \in [Requests -> [at : Stages, task : Tasks \union {NoTask}]]
  BY DEF DInv, DispatchTypes, IInv, Types
<1>00. \A s \in Requests : handler[s].route = "remove" => handler[s].task \in Tasks /\ "remove" \in Careful
  BY DEF DInv, HandlersAreWhole, DispatchTypes, Care
<1>1. CASE WorkerPrepares(r)
  <2>1. UNCHANGED <<board, alive, status, handler>>
    BY <1>1 DEF WorkerPrepares, CheckWorktree, AddWorktree, RepeatSetup, sessions, dispatchVars
  <2>2. \A s \in Requests : call'[s].task = call[s].task
    BY <1>0, <1>1 DEF WorkerPrepares, CheckWorktree, AddWorktree, RepeatSetup, Goto
  <2> QED BY <1>0, <2>1, <2>2, HandlersStay
<1>2. CASE WorkerStarts(r)
  <2>1. PICK a \in Agents : SpawnIsolated(r, a)
    BY <1>2 DEF WorkerStarts
  <2>2. /\ call[r].at # "idle" /\ Finish(r) /\ Answered(r) /\ status' = status /\ board' = board
        /\ alive' = [alive EXCEPT ![call[r].task] = @ \union {a}]
    BY <1>2, <2>1 DEF WorkerStarts, SpawnIsolated, Prepared, Register
  <2>3. \A u \in Tasks \ {call[r].task} : alive'[u] = alive[u]
    BY <1>0, <2>2
  <2>4. \A s \in Requests \ {r} : handler[s].route = "remove" => alive'[handler[s].task] = alive[handler[s].task]
    BY <1>00, <2>2, <2>3, EndOfPreparation
  <2> QED BY <1>0, <2>2, <2>4, EndOfPreparation, HandlerAnswers
<1>3. CASE WorkerFails(r)
  <2>1. call[r].at # "idle" /\ Finish(r) /\ Answered(r) /\ RollBack(r) /\ UNCHANGED <<board, alive>>
    BY <1>3 DEF WorkerFails, SpawnFails, PreparationFails, Prepared, sessions
  <2>2. status' \in [Tasks -> Status] /\ \A u \in Tasks \ {call[r].task} : status'[u] = status[u]
    BY <2>1, EndOfPreparation, RollBackType
  <2>3. \A s \in Requests \ {r} : call[s].task # NoTask => call[s].task \in Tasks \ {call[r].task}
    BY <1>0, <2>1, EndOfPreparation
  <2> QED BY <2>1, <2>2, <2>3, EndOfPreparation, HandlerAnswers
<1>4. CASE ReworkTask(r)
  <2>1. Guarding(r, "rework") /\ status[t] = "review" /\ Write(t, "in_progress")
    BY <1>4 DEF ReworkTask, Dispatch
  <2>2. t \in Tasks /\ Alone(t)
    BY <2>1, GuardedIsAlone
  <2>3. /\ status' \in [Tasks -> Status] /\ status'[t] = "in_progress"
        /\ \A u \in Tasks \ {t} : status'[u] = status[u]
    BY <2>1, <2>2, WriteType, StatusNames
  <2>4. CASE BeginIsolated(r, t) /\ Serve(r, "rework", t)
    <3>1. handler' = handler
      BY <2>1, <2>4 DEF Serve, Guarding, DInv, DispatchTypes
    <3>2. /\ UNCHANGED <<board, alive>> /\ call'[r].task = t
          /\ \A s \in Requests \ {r} : call'[s].task = call[s].task
      BY <1>0, <2>4 DEF BeginIsolated, sessions
    <3> QED BY <2>1, <2>2, <2>3, <3>1, <3>2, HandlerPrepares DEF Guarding
  <2>5. CASE Answered(r) /\ UNCHANGED runnerVars
    <3>1. UNCHANGED <<board, alive, call>> /\ call[r].task = NoTask
      BY <2>1, <2>5 DEF runnerVars, sessions, Guarding, NoCall
    <3>2. \A s \in Requests : call[s].task # NoTask => call[s].task \in Tasks \ {t}
      BY <1>0, <2>2 DEF Alone, Preparing
    <3> QED BY <2>3, <2>5, <3>1, <3>2, HandlerAnswers
  <2> QED BY <1>4, <2>4, <2>5 DEF ReworkTask, Dispatch
<1>5. CASE ResumeTask(r)
  <2>1. Guarding(r, "resume") /\ BeginIsolated(r, t) /\ UNCHANGED <<status, handler>>
    BY <1>5 DEF ResumeTask, dispatchVars
  <2>2. t \in Tasks /\ Alone(t)
    BY <2>1, GuardedIsAlone
  <2>3. /\ UNCHANGED <<board, alive>> /\ call'[r].task = t
        /\ \A s \in Requests \ {r} : call'[s].task = call[s].task
    BY <1>0, <2>1 DEF BeginIsolated, sessions
  <2> QED BY <1>0, <2>1, <2>2, <2>3, HandlerPrepares DEF Guarding
<1>6. CASE DoneTask(r)
  <2>1. Guarding(r, "done") /\ status[t] = "review" /\ Write(t, "done") /\ Answered(r)
        /\ UNCHANGED <<board, alive, call>> /\ call[r].task = NoTask
    BY <1>6 DEF DoneTask, runnerVars, sessions, Guarding, NoCall
  <2>2. t \in Tasks
    BY <2>1 DEF DInv, HandlersAreWhole, DispatchTypes, Guarding
  <2>3. status' \in [Tasks -> Status] /\ \A u \in Tasks \ {t} : status'[u] = status[u]
    BY <2>1, <2>2, WriteType, StatusNames
  <2>4. ASSUME NEW s \in Requests, call[s].task = t PROVE FALSE
    <3>1. /\ handler[s].task = t /\ s # r
          /\ handler[s].route \in {"start", "rework", "resume", "answer"}
          /\ handler[s].route \notin {"start", "rework"}
      BY <2>1, <2>2, <2>4, NoTaskAssumption DEF DInv, PreparingIsServed
    <3>2. handler[s].route \in Careful
      BY <3>1 DEF DInv, HandlersAreWhole, Care
    <3> QED BY <2>2, <3>1, <3>2, NoTaskAssumption DEF DInv, CarefulAreAlone
  <2>5. \A s \in Requests : call[s].task # NoTask => call[s].task \in Tasks \ {t}
    BY <1>0, <2>4
  <2> QED BY <2>1, <2>3, <2>5, HandlerAnswers
<1>7. CASE RemoveTaskWorktree(r) \/ GuardRefuses(r) \/ GitRefuses(r)
  <2>1. /\ UNCHANGED <<board, alive, call, status>> /\ call[r].task = NoTask /\ Answered(r)
    BY <1>7 DEF RemoveTaskWorktree, RemoveWorktree, GuardRefuses, GitRefuses, runnerVars, sessions,
       Guarding, NoCall
  <2> QED BY <1>0, <2>1, HandlerAnswers
<1> QED BY <1>1, <1>2, <1>3, <1>4, <1>5, <1>6, <1>7 DEF RequestStep

\* Every step keeps the invariant.
LEMMA NextDInv == ASSUME Care PROVE DInv /\ [DispatchNext]_allVars => DInv'
<1> SUFFICES ASSUME DInv, [DispatchNext]_allVars PROVE DInv'
  OBVIOUS
<1>0. IInv'
  BY StepIsRunners, NextIInv DEF DInv
<1>00. status \in [Tasks -> Status]
  BY DEF DInv, DispatchTypes
<1>1. ASSUME NEW t \in Tasks,
             \/ OpenTask(t) \/ ReturnToBacklog(t) \/ CancelTask(t)
             \/ BriefingSession(t) \/ ReviewSession(t) \/ StopSession(t)
             \/ AgentAsks(t) \/ AgentExits(t)
             \/ \E s \in Status : AgentMoves(t, s) \/ CliMoves(t, s)
      PROVE  DInv'
  BY <1>0, <1>1, OneTurnStep
<1>2. ASSUME NEW t \in Tasks, NEW r \in Requests,
             \/ StartTask(r, t) \/ AnswerTask(r, t)
             \/ \E route \in {"rework", "resume"} : AskWorker(r, route, t)
             \/ \E route \in {"done", "remove"} : AskGit(r, route, t)
      PROVE  DInv'
  BY <1>0, <1>2, BeginStep
<1>3. ASSUME NEW r \in Requests, RequestStep(r) PROVE DInv'
  BY <1>0, <1>3, RequestKeeps
<1>4. CASE BoardStops
  <2>1. board # "gone" /\ UNCHANGED <<alive, call, status, handler>>
    BY <1>4 DEF BoardStops, Shutdown, sessions, dispatchVars
  <2> QED BY <1>0, <1>00, <2>1, HandlersStay
<1>5. CASE BoardLeaves
  <2>1. /\ board' = "gone" /\ status' = status
        /\ call' = [r \in Requests |-> NoCall] /\ handler' = [r \in Requests |-> NoRequest]
    BY <1>5 DEF BoardLeaves, Leave
  <2>2. DispatchTypes'
    BY <1>00, <2>1 DEF DispatchTypes, NoRequest, HandlerRoutes
  <2> QED BY <1>0, <2>1, <2>2 DEF DInv, HandlersAreWhole, PreparingIsServed, CarefulAreAlone,
             RemovalFindsNobody, NoRequest, NoCall
<1>6. CASE UNCHANGED allVars
  <2>1. UNCHANGED <<board, alive, call, status, handler>>
    BY <1>6 DEF allVars, runnerVars, sessions, dispatchVars
  <2> QED BY <1>0, <1>00, <2>1, HandlersStay
<1> QED BY <1>1, <1>2, <1>3, <1>4, <1>5, <1>6 DEF DispatchNext

LEMMA InitDInv == DispatchInit => DInv
<1> SUFFICES ASSUME DispatchInit PROVE DInv
  OBVIOUS
<1>1. IInv /\ \A r \in Requests : call[r].task = NoTask
  BY InitIInv DEF DispatchInit, Init, NoCall
<1>2. DispatchTypes
  BY StatusNames DEF DispatchInit, DispatchTypes, NoRequest, HandlerRoutes
<1>3. \A r \in Requests : handler[r] = NoRequest
  BY DEF DispatchInit
<1> QED BY <1>1, <1>2, <1>3 DEF DInv, HandlersAreWhole, PreparingIsServed, CarefulAreAlone,
           RemovalFindsNobody, NoRequest

LEMMA DispatchInvariance == ASSUME Care PROVE DispatchSpec => []DInv
<1> QED BY InitDInv, NextDInv, PTL DEF DispatchSpec

-----------------------------------------------------------------------------

\* Through the board's routes the session runner is used as it has to be: any two
\* requests may overlap on a task, as long as /resume, /answer, /remove-worktree and
\* the command line are used with care.
THEOREM RoutesUseRunnerWell == ASSUME Care PROVE DispatchSpec => RunnerIsWellUsed
<1>1. DispatchInit => Init
  BY DEF DispatchInit
<1>2. DInv /\ [DispatchNext]_allVars => [Next]_runnerVars
  BY StepIsRunners
<1> QED BY <1>1, <1>2, DispatchInvariance, PTL DEF DispatchSpec, RunnerIsWellUsed, Spec

\* A dispatch that failed finds nobody at work on the card it puts back, whoever forces
\* what status on a card meanwhile: an agent there is would have kept its own session
\* from being prepared, and everybody else is careful.
THEOREM RollbackFindsNobody == ASSUME Care PROVE DispatchSpec => NoRollBackUnderAgent
<1> DEFINE Step == \A r \in Requests : PutsBack(r) => alive'[handler[r].task] = {}
<1>1. DInv /\ [DispatchNext]_allVars => [Step]_allVars
  <2> SUFFICES ASSUME DInv, DispatchNext, NEW r \in Requests, PutsBack(r)
               PROVE  alive'[handler[r].task] = {}
    OBVIOUS
  <2> DEFINE u == handler[r].task
  <2>0. /\ status \in [Tasks -> Status]
        /\ handler'[r] # handler[r] /\ u \in Tasks /\ status[u] = "in_progress" /\ status'[u] # "in_progress"
    BY DEF DInv, DispatchTypes, PutsBack
  <2>1. ASSUME NEW q \in Requests, WorkerFails(q) PROVE alive'[u] = {}
    <3>1. call[q].at # "idle" /\ Finish(q) /\ Answered(q) /\ alive' = alive
      BY <2>1 DEF WorkerFails, SpawnFails, PreparationFails, Prepared, sessions
    <3>2. handler[q].task = call[q].task /\ alive[call[q].task] = {}
      BY <3>1, EndOfPreparation
    <3>3. q = r
      BY <2>0, <3>1 DEF Answered, DInv, DispatchTypes
    <3> QED BY <3>1, <3>2, <3>3
  <2>2. ASSUME NEW q \in Requests, DoneTask(q) PROVE FALSE
    <3>1. q = r
      BY <2>0, <2>2 DEF DoneTask, Answered, DInv, DispatchTypes
    <3> QED BY <2>0, <2>2, <3>1 DEF DoneTask
  <2>3. ASSUME NEW t, Write(t, "in_progress") PROVE FALSE
    BY <2>0, <2>3 DEF Write
  <2>4. \/ \E q \in Requests : WorkerFails(q) \/ DoneTask(q)
        \/ handler' = handler \/ status' = status
        \/ \E t : Write(t, "in_progress")
    BY DEF DispatchNext, RequestStep, OpenTask, ReturnToBacklog, CancelTask, BriefingSession, ReviewSession,
       StopSession, AgentMoves, CliMoves, AgentAsks, AgentExits, StartTask, AnswerTask, AskWorker, AskGit,
       Dispatch, WorkerPrepares, WorkerStarts, ReworkTask, ResumeTask, GuardRefuses, RemoveTaskWorktree,
       GitRefuses, BoardStops, BoardLeaves, dispatchVars
  <2> QED BY <2>0, <2>1, <2>2, <2>3, <2>4
<1> QED BY <1>1, DispatchInvariance, PTL DEF DispatchSpec, NoRollBackUnderAgent

\* What the runner promises its callers, the board has: one agent per task, all of
\* them within reach of a stop, one set-up per worktree, no worktree removed from
\* under an agent, bounded records, nobody left behind unsignalled but the late, and a
\* cap that only starts in the air outrun.
THEOREM BoardKeepsRunnersPromises ==
  ASSUME Care
  PROVE  DispatchSpec => []( /\ OneAgentPerTask /\ EveryAgentReachable /\ OneSetupPerWorktree
                             /\ WorktreeUnderAgent /\ RecordsBounded /\ OrphansStartedLate
                             /\ CapOutrunByStartsOnly )
<1>1. DispatchSpec => Spec
  BY RoutesUseRunnerWell DEF RunnerIsWellUsed
<1> QED BY <1>1, OneAgent, AgentsReachable, SetupsAlone, WorktreesLast, RecordsAreBounded, OrphansAreLate,
          CapIsOutrunByStartsOnly, PTL
=============================================================================

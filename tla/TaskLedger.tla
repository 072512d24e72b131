----------------------------- MODULE TaskLedger -----------------------------
(***************************************************************************)
(* The backlog as its users are promised it (agents/PROTOCOL.md §1a): one  *)
(* ledger of tasks.  A task gets the number after the highest ever given,  *)
(* is edited, closed and, by force, reopened, and never disappears.  That  *)
(* closed tasks move to a second file is no event in it at all.            *)
(***************************************************************************)
EXTENDS Naturals, Functions

CONSTANTS MaxTasks, MaxText     \* bounds: how many tasks, how many edits of each

VARIABLE tasks     \* id |-> [closed, text]

Ids  == 1..MaxTasks
Task == [closed : BOOLEAN, text : 0..MaxText]

NextId(ids) == IF ids = {} THEN 1 ELSE 1 + CHOOSE n \in ids : \A m \in ids : m <= n
NewTask     == [closed |-> FALSE, text |-> 0]
Put(f, id, task) == [i \in DOMAIN f \union {id} |-> IF i = id THEN task ELSE f[i]]

Init == tasks = <<>>

Add ==
  /\ NextId(DOMAIN tasks) \in Ids
  /\ tasks' = Put(tasks, NextId(DOMAIN tasks), NewTask)

Note(id) ==
  /\ tasks[id].text < MaxText
  /\ tasks' = [tasks EXCEPT ![id].text = @ + 1]

Close(id)  == ~tasks[id].closed /\ tasks' = [tasks EXCEPT ![id].closed = TRUE]
Reopen(id) == tasks[id].closed /\ tasks' = [tasks EXCEPT ![id].closed = FALSE]

Next == Add \/ \E id \in DOMAIN tasks : Note(id) \/ Close(id) \/ Reopen(id)

Spec == Init /\ [][Next]_tasks
=============================================================================

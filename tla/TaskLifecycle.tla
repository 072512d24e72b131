--------------------------- MODULE TaskLifecycle ---------------------------
(* The state graph of a task, server/parser.js, for all who move one.       *)

TRANSITIONS ==
  [backlog     |-> {"open", "cancelled"},
   open        |-> {"ready", "backlog", "cancelled"},
   ready       |-> {"in_progress", "cancelled"},
   in_progress |-> {"review", "cancelled"},
   review      |-> {"done", "in_progress", "cancelled"},
   done        |-> {},
   cancelled   |-> {}]

Status          == DOMAIN TRANSITIONS
CLOSED_STATUSES == {"done", "cancelled"}

\* What stops blocking the tasks that depend on it: a cancelled one "will never arrive".
DEPENDS_SATISFIED == {"done", "cancelled"}
=============================================================================

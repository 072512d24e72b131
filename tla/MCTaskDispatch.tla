--------------------------- MODULE MCTaskDispatch ---------------------------
(* TaskDispatch for TLC: the sets of routes the runs use.                   *)
EXTENDS TaskDispatch, TLC

Symmetry == Permutations(Agents) \union Permutations(Requests) \union Permutations(Tasks)

\* Routes that nothing but the status of the task keeps apart.
StatusRoutes == {"open", "backlog", "cancel", "briefing", "review", "start", "rework", "done",
                 "stop", "shutdown"}

\* Routes that need care beside those.
CarefulRoutes == {"resume", "answer", "remove", "cli"}
AllRoutes     == StatusRoutes \union CarefulRoutes
NoCare        == {}

\* All of them but /answer, and the care that leaves.
UnaskedRoutes == AllRoutes \ {"answer"}
UnaskedCare   == CarefulRoutes \ {"answer"}

\* A few routes without care, for the shortest counterexamples.
WorkerRoutes == {"open", "start", "rework", "shutdown"}
ResumeRoutes == {"open", "start", "resume"}
RemoveRoutes == {"open", "start", "rework", "remove"}
=============================================================================

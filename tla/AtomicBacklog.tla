--------------------------- MODULE AtomicBacklog ---------------------------
(***************************************************************************)
(* What updateBacklog() (server/parser.js) promises its callers: every     *)
(* writer's edit is applied to the newest backlog in one indivisible step, *)
(* or not at all, and a writer that reports a refusal, a lock timeout or   *)
(* an I/O error has left the file as it was.                               *)
(*                                                                         *)
(* The document is abstracted to the set of writers whose edit is in       *)
(* force: the edit of writer w toggles w.  A toggle notices both a lost    *)
(* update and one applied twice, and needs no counter.                     *)
(*                                                                         *)
(* The promise is limited, and the limit is part of it: it lapses once a   *)
(* lock file has outlived LOCK_STALE_MS.                                   *)
(***************************************************************************)
CONSTANTS Writers

VARIABLES doc,      \* the contents of doc/backlog.md
          call,     \* call[w]: what w's current call has come to
          lapsed    \* a lock file has outlived LOCK_STALE_MS

vars == <<doc, call, lapsed>>

Toggle(d, w) == IF w \in d THEN d \ {w} ELSE d \union {w}

Init ==
  /\ doc = {}
  /\ call = [w \in Writers |-> "idle"]
  /\ lapsed = FALSE

Invoke(w) ==
  /\ call[w] = "idle"
  /\ call' = [call EXCEPT ![w] = "pending"]
  /\ UNCHANGED doc

Apply(w) ==
  /\ call[w] = "pending"
  /\ doc' = Toggle(doc, w)
  /\ call' = [call EXCEPT ![w] = "applied"]

\* Refused, timed out or failed: the document keeps what it had.
Fail(w) ==
  /\ call[w] = "pending"
  /\ call' = [call EXCEPT ![w] = "failed"]
  /\ UNCHANGED doc

\* The call returns, or the process dies: a death after Apply is still an
\* applied edit, one before it is none.
Return(w) ==
  /\ call[w] # "idle"
  /\ call' = [call EXCEPT ![w] = "idle"]
  /\ UNCHANGED doc

Promised == \E w \in Writers : Invoke(w) \/ Apply(w) \/ Fail(w) \/ Return(w)

\* From here on nothing is promised.
Lapse == lapsed' = TRUE /\ UNCHANGED <<doc, call>>

Next ==
  \/ ~lapsed /\ lapsed' = FALSE /\ Promised
  \/ ~lapsed /\ Lapse
  \/ lapsed /\ lapsed'

Spec == Init /\ [][Next]_vars
=============================================================================

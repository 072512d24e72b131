---------------------------- MODULE TaskCommands ----------------------------
(***************************************************************************)
(* The writing commands of tools/task.mjs, over the tasks of both backlog  *)
(* files and the brief files of doc/brief/, and what `validate` has to say *)
(* of the result.  A command edits the backlog under its lock              *)
(* (BacklogLock); brief files are also written and moved by people and     *)
(* agents, who take no lock, and `link` looks for its file before it asks  *)
(* for the lock.  Assumed, as by PromptRepair in BacklogStore: nobody      *)
(* touches a task that an interrupted `archive` left in both files before  *)
(* the run is repeated.                                                    *)
(***************************************************************************)
EXTENDS Naturals, Sequences, FiniteSets, SequencesExt, TaskLifecycle, TaskGraph

CONSTANTS Cards,       \* task ids, in the order they are given out
          Briefed,     \* bound: the tasks that get brief files
          Slugs,
          MaxBriefs,   \* bound: the highest brief number
          MaxFiles,    \* bound: brief files in all
          NoFiling

VARIABLES
  card,     \* the tasks: where they are, and the fields the commands check
  files,    \* the brief files; prose: somebody has written in it
  filing,   \* the `brief` command under way, or NoFiling
  linking,  \* the id a `link` command has found a file for, or NoFiling
  strays,   \* history: brief ids given to a file that no command linked
  pulled    \* history: ids whose file was moved while a command was linking it

cardVars == <<card, files, filing, strays, linking, pulled>>

Card    == Range(Cards)

ASSUME CardAssumption ==
  /\ Cards \in Seq(Card) /\ MaxBriefs \in Nat /\ Briefed \subseteq Card
  /\ NoFiling \notin [id : Card \X (1..MaxBriefs), slug : Slugs, made : BOOLEAN]
  /\ NoFiling \notin Card \X (1..MaxBriefs)

Known   == {t \in Card : card[t].where # "nowhere"}
Live(t) == card[t].where = "backlog"
FromOn(t) == {Cards[i] : i \in {j \in DOMAIN Cards : \E k \in 1..j : Cards[k] = t}}
Answers(f, id) == f.id = id                    \* BRIEF_FILE_RE: whatever its slug
Free    == filing = NoFiling

CardInit ==
  /\ card = [t \in Card |-> [where |-> "nowhere", status |-> "backlog", closed |-> FALSE,
                             depends |-> <<>>, briefs |-> {}]]
  /\ files = {} /\ filing = NoFiling /\ strays = {}
  /\ linking = NoFiling /\ pulled = {}

Set(t, c) == card' = [card EXCEPT ![t] = c]

-----------------------------------------------------------------------------
(* Tasks.                                                                  *)

AddCard(t) ==
  /\ Free /\ t \notin Known /\ \A u \in Card \ FromOn(t) : u \in Known
  /\ Set(t, [card[t] EXCEPT !.where = "backlog"])
  /\ UNCHANGED <<files, filing, strays, linking, pulled>>

\* `status`: --force overrides the graph of statuses and unfinished
\* prerequisites, but not the missing brief.  A closing status sets the date and
\* every other one clears it.
StatusKeepsDate(t, s, force) ==                \* (mutation: only closing touches the date)
  /\ Free /\ Live(t)
  /\ force \/ s \in TRANSITIONS[card[t].status]
  /\ s = "ready" => card[t].briefs # {}
  /\ Set(t, [card[t] EXCEPT !.status = s, !.closed = @ \/ s \in CLOSED_STATUSES])
  /\ UNCHANGED <<files, filing, strays, linking, pulled>>

StatusOf(t, s, force) ==
  LET c == card[t] IN
  /\ Free /\ Live(t)
  /\ force \/ s = c.status \/ s \in TRANSITIONS[c.status]
  /\ s = "ready" => c.briefs # {}
  /\ s = "in_progress" /\ c.status = "ready" =>
       force \/ Blocking(c.depends, [u \in Known |-> card[u].status]) = {}
  /\ Set(t, [c EXCEPT !.status = s, !.closed = s \in CLOSED_STATUSES])
  /\ UNCHANGED <<files, filing, strays, linking, pulled>>

\* The buttons of the board that close a task.
CloseByRoute(t, s) ==
  /\ Free /\ Live(t)
  /\ \/ s = "cancelled" /\ card[t].status \in {"backlog", "open"}
     \/ s = "done" /\ card[t].status = "review"
  /\ Set(t, [card[t] EXCEPT !.status = s, !.closed = TRUE])
  /\ UNCHANGED <<files, filing, strays, linking, pulled>>

\* `depends` sets the whole list, of tasks of either file.
DependsOn(t, list) ==
  LET graph == [u \in Known |-> IF u = t THEN list ELSE card[u].depends] IN
  /\ Free /\ Live(t)
  /\ Range(list) \subseteq Known \ {t}
  /\ \A c \in DependencyCycles(graph, Cards) : t \notin Range(c)
  /\ Set(t, [card[t] EXCEPT !.depends = list])
  /\ UNCHANGED <<files, filing, strays, linking, pulled>>

\* `archive` writes the archive and then the backlog, with what an interrupted run
\* has left in both; nobody changes a task from then on.  It may die between the two.
ToArchive   == {t \in Card : Live(t) /\ card[t].status \in CLOSED_STATUSES}
InBoth      == {t \in Card : card[t].where = "both"}
Shift(S, w) == [t \in Card |-> IF t \in S THEN [card[t] EXCEPT !.where = w] ELSE card[t]]

ArchiveCards ==
  /\ Free /\ ToArchive \union InBoth # {}
  /\ card' = Shift(ToArchive \union InBoth, "archive")
  /\ UNCHANGED <<files, filing, strays, linking, pulled>>

ArchiveStops ==
  /\ Free /\ ToArchive # {}
  /\ card' = Shift(ToArchive, "both")
  /\ UNCHANGED <<files, filing, strays, linking, pulled>>

-----------------------------------------------------------------------------
(* Briefs.  A brief id is a task and a number; its file also has a slug.   *)

\* nextBriefNumber(): past the highest the task links, so that a hole is left empty.
NextBriefNumber(t) ==
  CHOOSE n \in 1..(MaxBriefs + 1) :
    /\ n - 1 \in card[t].briefs \union {0} /\ \A m \in card[t].briefs : m < n

\* `brief`, first: no file may answer to the id yet.
BriefLooks(t, slug) ==
  LET id == <<t, NextBriefNumber(t)>> IN
  /\ Free /\ Live(t) /\ id[2] <= MaxBriefs
  /\ \A f \in files : ~Answers(f, id)
  /\ filing' = [id |-> id, slug |-> slug, made |-> FALSE]
  /\ UNCHANGED <<card, files, strays, linking, pulled>>

\* Then the file is created, unless there is one of that name after all ('wx').
BriefOverwrites ==                             \* (mutation: 'w')
  /\ ~Free /\ ~filing.made
  /\ files' = {f \in files : f.id # filing.id \/ f.slug # filing.slug}
                \union {[id |-> filing.id, slug |-> filing.slug, prose |-> FALSE]}
  /\ filing' = [filing EXCEPT !.made = TRUE]
  /\ UNCHANGED <<card, strays, linking, pulled>>

BriefWrites ==
  /\ ~Free /\ ~filing.made
  /\ IF \E f \in files : f.id = filing.id /\ f.slug = filing.slug
       THEN filing' = NoFiling /\ UNCHANGED files
       ELSE /\ files' = files \union {[id |-> filing.id, slug |-> filing.slug, prose |-> FALSE]}
            /\ filing' = [filing EXCEPT !.made = TRUE]
  /\ UNCHANGED <<card, strays, linking, pulled>>

\* And then the backlog with the link to it.
BriefLinks ==
  /\ ~Free /\ filing.made
  /\ Set(filing.id[1], [card[filing.id[1]] EXCEPT !.briefs = @ \union {filing.id[2]}])
  /\ filing' = NoFiling
  /\ UNCHANGED <<files, strays, linking, pulled>>

\* The command dies, or cannot write the backlog.
BriefDies ==
  /\ ~Free
  /\ filing' = NoFiling
  /\ strays' = IF filing.made THEN strays \union {filing.id} ELSE strays
  /\ UNCHANGED <<card, files, linking, pulled>>

\* `link`: a file must answer to the id, which is looked up before the lock is asked
\* for; under the lock only the task is.  (Bound: one `link` at a time.)
LinkLooks(t, n) ==
  /\ linking = NoFiling /\ \E f \in files : Answers(f, <<t, n>>)
  /\ linking' = <<t, n>>
  /\ UNCHANGED <<card, files, filing, strays, pulled>>

LinkBrief ==
  /\ Free /\ linking # NoFiling /\ Live(linking[1])
  /\ Set(linking[1], [card[linking[1]] EXCEPT !.briefs = @ \union {linking[2]}])
  /\ linking' = NoFiling
  /\ UNCHANGED <<files, filing, strays, pulled>>

LinkGivesUp ==                                 \* no such task is live, or it dies
  /\ linking # NoFiling /\ linking' = NoFiling
  /\ UNCHANGED <<card, files, filing, strays, pulled>>

\* Somebody writes a brief by hand, or fills in a template, at any time; and moves
\* a file aside that nobody has linked yet, whether or not a command is about to.
HandWrites(t, n, slug) ==
  /\ t \in Known /\ Cardinality(files) < MaxFiles
  /\ \A f \in files : ~Answers(f, <<t, n>>)
  /\ files' = files \union {[id |-> <<t, n>>, slug |-> slug, prose |-> TRUE]}
  /\ strays' = strays \union {<<t, n>>}
  /\ UNCHANGED <<card, filing, linking, pulled>>

FillIn(f) ==
  /\ ~f.prose /\ files' = (files \ {f}) \union {[f EXCEPT !.prose = TRUE]}
  /\ UNCHANGED <<card, filing, strays, linking, pulled>>

MoveAside(f) ==
  /\ f.id[2] \notin card[f.id[1]].briefs
  /\ files' = files \ {f}
  /\ pulled' = IF linking = f.id \/ (~Free /\ filing.made /\ filing.id = f.id)
                 THEN pulled \union {f.id} ELSE pulled
  /\ UNCHANGED <<card, filing, strays, linking>>

CardNext ==
  \/ \E t \in Card :
       \/ AddCard(t)
       \/ \E s \in Status : CloseByRoute(t, s) \/ \E force \in BOOLEAN : StatusOf(t, s, force)
       \/ \E list \in {<<>>} \union {<<u>> : u \in Card} : DependsOn(t, list)
       \/ \E n \in 1..MaxBriefs : LinkLooks(t, n)
  \/ \E t \in Briefed, slug \in Slugs :
       \/ Cardinality(files) < MaxFiles /\ BriefLooks(t, slug)
       \/ \E n \in 1..MaxBriefs : HandWrites(t, n, slug)
  \/ ArchiveCards \/ ArchiveStops
  \/ BriefWrites \/ BriefLinks \/ BriefDies \/ LinkBrief \/ LinkGivesUp
  \/ \E f \in files : FillIn(f) \/ MoveAside(f)

CardSpec == CardInit /\ [][CardNext]_cardVars

-----------------------------------------------------------------------------
(* validateBacklog(), over both files and the directory.                   *)

Linked == UNION {{<<t, n>> : n \in card[t].briefs} : t \in Known}
Error(kind, id) == [kind |-> kind, id |-> id]

Errors ==
  {Error("date", t) : t \in {u \in Known : card[u].closed # (card[u].status \in CLOSED_STATUSES)}}
    \union {Error("both", t) : t \in InBoth}
    \union {Error("archived open", t) : t \in {u \in Known : ~Live(u) /\ card[u].status \notin CLOSED_STATUSES}}
    \union {Error("no file", id) : id \in {i \in Linked : \A f \in files : ~Answers(f, i)}}
    \union {Error("not linked", f.id) : f \in {g \in files : g.id \notin Linked}}
    \union {Error("two files", f.id) : f \in {g \in files : \E h \in files \ {g} : h.id = g.id}}
    \union {Error("itself", t) : t \in {u \in Known : u \in Range(card[u].depends)}}
    \union {Error("unknown", t) : t \in {u \in Known : ~(Range(card[u].depends) \subseteq Known)}}
    \union {Error("cycle", c) : c \in DependencyCycles([u \in Known |-> card[u].depends], Cards)}

\* Commands, forced or not, leave a backlog `validate` has nothing to say of, but for
\* brief files that were made by hand or by a command cut short, which it names and
\* `link` repairs while the task is live (task.mjs:1477-1483); the file of a `brief` under
\* way; links whose file was moved while a command was about to write them, which `link`
\* does not prevent (task.mjs:1495-1504); and what an interrupted archive run has left.
ValidateIsClean ==
  \A e \in Errors :
    \/ e.kind \in {"not linked", "two files"} /\ e.id \in strays
    \/ e.kind = "not linked" /\ ~Free /\ e.id = filing.id
    \/ e.kind = "no file" /\ e.id \in pulled
    \/ e.kind = "both"

\* "The template would have replaced its content": no command does away with a brief
\* somebody has written in (task.mjs:1441-1461, failBriefTaken).
ProseSurvives ==
  [][\A f \in files : f.prose => [f EXCEPT !.prose = FALSE] \notin files']_cardVars
=============================================================================

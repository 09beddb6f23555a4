--------------------------- MODULE SourceExplorer ---------------------------
(***************************************************************************)
(* The drawer that explores one source (web/src/SourceDetails.tsx): it     *)
(* lists namespaces and objects, describes an object, runs a native query, *)
(* and shows one result with its next page, as the administrator or as a   *)
(* chosen Agent.  A request aborts the one before; the aborted request may *)
(* still be answered.                                                      *)
(***************************************************************************)
EXTENDS Integers, FiniteSets

CONSTANTS MaxRequests   \* bound on requests not yet answered, aborted ones included

VARIABLES ui, calls

vars == <<ui, calls>>

Values == {0, 1}        \* of each input: identity, object, query text
\* A question: who asks, and the query that runs or the object discovered.
Questions == [run : BOOLEAN, agent : Values, object : Values, text : Values]
NoQuestion == [run |-> FALSE, agent |-> 0, object |-> 0, text |-> 0]
NoResult == [shown |-> FALSE, question |-> NoQuestion, more |-> FALSE]

TypeOK ==
  /\ ui \in [open : BOOLEAN, agent : Values, object : Values, text : Values,
             last : Values, busy : BOOLEAN,
             result : [shown : BOOLEAN, question : Questions, more : BOOLEAN]]
  /\ calls \subseteq [question : Questions, of : Questions, cursor : BOOLEAN,
                      aborted : BOOLEAN, stage : {"sent", "ok", "failed"}]

Init ==
  /\ \E agent \in Values :
       ui = [open |-> TRUE, agent |-> agent, object |-> 0, text |-> 0, last |-> 0,
             busy |-> FALSE, result |-> NoResult]
  /\ calls = {}

Exploring == ui.open /\ ~ui.busy
Asked(agent, object) == [NoQuestion EXCEPT !.agent = agent, !.object = object]
Run(agent, text) == [NoQuestion EXCEPT !.run = TRUE, !.agent = agent, !.text = text]

\* abort() of an AbortController: its request may be answered all the same.
Aborted(requests) == {[c EXCEPT !.aborted = TRUE] : c \in requests}

\* A new request drops what is shown and aborts the one before.
Request(u, question, cursor) ==
  /\ Cardinality(calls) < MaxRequests
  /\ ui' = [u EXCEPT !.busy = TRUE, !.result = NoResult]
  /\ calls' = Aborted(calls) \union
       {[question |-> question, cursor |-> cursor, aborted |-> FALSE, stage |-> "sent",
         of |-> IF cursor THEN ui.result.question ELSE NoQuestion]}
-----------------------------------------------------------------------------
ChooseIdentity ==
  /\ Exploring
  /\ ui' = [ui EXCEPT !.agent = 1 - @, !.result = NoResult] /\ UNCHANGED calls

ChooseObject ==
  /\ Exploring
  /\ ui' = [ui EXCEPT !.object = 1 - @, !.result = NoResult] /\ UNCHANGED calls
\* Typed, or loaded with an operation's example.
ChangeQuery ==
  /\ Exploring
  /\ ui' = [ui EXCEPT !.text = 1 - @, !.result = NoResult] /\ UNCHANGED calls

Discover == Exploring /\ Request(ui, Asked(ui.agent, ui.object), FALSE)

\* A row of a discovery is a new object, and at once a question about it.
DiscoverRow ==
  /\ Exploring /\ ui.result.shown /\ ~ui.result.question.run
  /\ \E object \in Values :
       Request([ui EXCEPT !.object = object], Asked(ui.agent, object), FALSE)

RunQuery == Exploring /\ Request([ui EXCEPT !.last = ui.text], Run(ui.agent, ui.text), FALSE)

\* The next page of a query repeats the text that ran last.
NextPage ==
  /\ Exploring /\ ui.result.shown /\ ui.result.more
  /\ Request(ui, IF ui.result.question.run THEN Run(ui.agent, ui.last)
                 ELSE Asked(ui.agent, ui.object), TRUE)

CancelQuery ==
  /\ ui.open /\ ui.busy
  /\ calls' = Aborted(calls) /\ UNCHANGED ui

CloseDetails ==
  /\ ui.open
  /\ ui' = [ui EXCEPT !.open = FALSE, !.busy = FALSE, !.result = NoResult]
  /\ calls' = Aborted(calls)

OpenDetails ==
  /\ ~ui.open /\ calls = {}
  /\ \E agent \in Values :
       ui' = [ui EXCEPT !.open = TRUE, !.agent = agent, !.object = 0, !.text = 0, !.last = 0]
  /\ UNCHANGED calls

Serve ==
  /\ \E c \in calls, s \in {"ok", "failed"} :
       /\ c.stage = "sent"
       /\ calls' = (calls \ {c}) \union {[c EXCEPT !.stage = s]}
  /\ UNCHANGED ui

\* Only the current request frees the drawer, and an aborted one shows nothing.
ResultArrives ==
  /\ \E c \in calls :
       /\ c.stage # "sent" \/ c.aborted
       /\ calls' = calls \ {c}
       /\ LET current == \A d \in calls \ {c} : d.aborted
              u == IF ui.open /\ current THEN [ui EXCEPT !.busy = FALSE] ELSE ui
          IN IF c.stage = "ok" /\ ~c.aborted
               THEN \E more \in BOOLEAN :
                      ui' = [u EXCEPT !.result = [shown |-> TRUE, question |-> c.question,
                                                  more |-> more]]
               ELSE ui' = u

Next ==
  \/ ChooseIdentity \/ ChooseObject \/ ChangeQuery \/ Discover \/ DiscoverRow
  \/ RunQuery \/ NextPage \/ CancelQuery \/ CloseDetails \/ OpenDetails
  \/ Serve \/ ResultArrives

Spec == Init /\ [][Next]_vars
-----------------------------------------------------------------------------
(* The rows shown answer the identity, object and query on screen, and a   *)
(* cursor goes back only with the question of the page that gave it: after *)
(* aborts, rows that ask at once, and inputs changed between two pages.    *)
AnswersMatchTheScreen ==
  /\ LET q == ui.result.question IN
       ui.result.shown => /\ ui.open /\ q.agent = ui.agent
                          /\ IF q.run THEN q.text = ui.text ELSE q.object = ui.object
  /\ \A c \in calls : (c.cursor /\ ~c.aborted) => c.of = c.question
=============================================================================

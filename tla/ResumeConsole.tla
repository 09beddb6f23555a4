---------------------------- MODULE ResumeConsole ----------------------------
(***************************************************************************)
(* The query the home page offers to continue (ResumeQuery in              *)
(* web/src/Home.tsx): its next step is told from two reads, the catalog of *)
(* its source and then the source's readiness (web/src/readiness.ts), of   *)
(* which the query may be edited, published or removed in between.         *)
(***************************************************************************)
EXTENDS Integers

CONSTANTS MaxRevision   \* bound on the revisions of the catalog

VARIABLES server, ui, calls

vars == <<server, ui, calls>>

Revisions == 0 .. MaxRevision
\* version: the revision published last.  evidence: of the published query; none,
\* it runs, or a client has called it.
Queries == [revision : Revisions, version : Revisions, draft : {"same", "changed", "missing"},
            evidence : {"none", "executable", "called"}]
NoQuery == [revision |-> 0, version |-> 0, draft |-> "same", evidence |-> "none"]
Copies == [read : BOOLEAN, query : Queries]
Unread == [read |-> FALSE, query |-> NoQuery]
Steps == {"loading", "query", "publish", "trial", "client", "done"}

TypeOK ==
  /\ server \in Queries
  /\ ui \in [state : Copies, ready : Copies, error : BOOLEAN, refused : BOOLEAN]
  \* key: the revision that the readiness is asked for; answer: what was read.
  /\ calls \subseteq [op : {"state", "ready"}, key : Revisions, answer : Queries,
                      stage : {"sent", "ok", "failed"}]

Read(op, key) == [op |-> op, key |-> key, answer |-> NoQuery, stage |-> "sent"]
Of(op) == {c \in calls : c.op = op}

Init ==
  /\ server \in [revision : {1}, version : {0, 1}, draft : {"same", "changed"},
                 evidence : {"none", "executable", "called"}]
  /\ (server.draft = "same") = (server.version = 1)
  /\ server.version = 0 => server.evidence = "none"
  /\ ui = [state |-> Unread, ready |-> Unread, error |-> FALSE, refused |-> FALSE]
  /\ calls = {Read("state", 0)}

\* A query that is nowhere has no readiness to read.
Missing(state) == state.read /\ state.query.draft = "missing"
ReadyOf(state) ==
  IF state.read /\ ~Missing(state) THEN {Read("ready", state.query.revision)} ELSE {}

\* queryNextStep()
NextStep ==
  LET state == ui.state.query
      ready == ui.ready.query
  IN IF ~ui.state.read THEN "loading"
     ELSE IF state.draft = "missing" THEN "query"
     ELSE IF ~ui.ready.read \/ ready.version # state.version THEN "loading"
     ELSE IF state.draft = "changed" THEN "publish"
     ELSE CASE ready.evidence = "none" -> "trial"
            [] ready.evidence = "executable" -> "client"
            [] OTHER -> "done"

\* The catalog stays on screen while it is read again; the readiness does not.
Retry ==
  /\ (ui.error \/ ui.refused) /\ ~Missing(ui.state)
  /\ ui' = [ui EXCEPT !.error = FALSE, !.refused = FALSE, !.ready = Unread]
  /\ calls' = {Read("state", 0)} \union ReadyOf(ui.state) /\ UNCHANGED server

\* Left for another page, and back: nothing is kept.
Remount ==
  /\ ui' = [state |-> Unread, ready |-> Unread, error |-> FALSE, refused |-> FALSE]
  /\ calls' = {Read("state", 0)} /\ UNCHANGED server
-----------------------------------------------------------------------------
(* The server (internal/server/semantics.go, readiness.go)                 *)

Serve ==
  /\ \E c \in calls :
       /\ c.stage = "sent"
       /\ \E d \in {[c EXCEPT !.stage = "ok", !.answer = server],
                    [c EXCEPT !.stage = "failed"]} : calls' = (calls \ {c}) \union {d}
  /\ UNCHANGED <<server, ui>>

\* Edited, published, or removed, by anyone.
QueryChanges ==
  /\ server.revision < MaxRevision
  /\ LET next == [server EXCEPT !.revision = @ + 1]
         published == [next EXCEPT !.version = next.revision]
     IN server' \in {[next EXCEPT !.draft = "changed"],
                     [published EXCEPT !.draft = "same", !.evidence = "executable"],
                     [published EXCEPT !.draft = "missing", !.evidence = "none"]}
  /\ UNCHANGED <<ui, calls>>

EvidenceChanges ==
  /\ server.version > 0 /\ server.draft # "missing"
  /\ \E evidence \in {"none", "executable", "called"} :
       server' = [server EXCEPT !.evidence = evidence]
  /\ UNCHANGED <<ui, calls>>
-----------------------------------------------------------------------------
(* The answers                                                             *)

ReadFails(c) ==
  /\ c.stage = "failed"
  /\ ui' = IF c.op = "state" THEN [ui EXCEPT !.error = TRUE]
           ELSE [ui EXCEPT !.ready = Unread, !.refused = TRUE]
  /\ calls' = calls \ {c}

\* Another revision is another key of the readiness: what was read or asked under
\* the old one is dropped.
StateArrives(c) ==
  /\ c.op = "state" /\ c.stage = "ok"
  /\ LET state == [read |-> TRUE, query |-> c.answer]
         same == ui.state.read /\ ui.state.query.revision = c.answer.revision
     IN \/ same /\ ui' = [ui EXCEPT !.state = state] /\ calls' = calls \ {c}
        \/ /\ ~same
           /\ ui' = [ui EXCEPT !.state = state, !.ready = Unread, !.refused = FALSE]
           /\ calls' = (calls \ ({c} \union Of("ready"))) \union ReadyOf(state)

ReadyArrives(c) ==
  /\ c.op = "ready" /\ c.stage = "ok"
  /\ ui' = [ui EXCEPT !.ready = [read |-> TRUE, query |-> c.answer]]
  /\ calls' = calls \ {c}

Deliver ==
  /\ \E c \in calls : ReadFails(c) \/ StateArrives(c) \/ ReadyArrives(c)
  /\ UNCHANGED server

Next == Retry \/ Remount \/ Serve \/ QueryChanges \/ EvidenceChanges \/ Deliver

Spec == Init /\ [][Next]_vars
-----------------------------------------------------------------------------
(* A next step is told from a catalog and a readiness of one publication,  *)
(* and a readiness that was read after the catalog it is shown with.       *)
(* While the step is "Loading", a read runs or Retry is offered, except    *)
(* when the query was published between the reads: then it stays so until  *)
(* the page is left.                                                       *)
AnswersMatchTheScreen ==
  /\ NextStep \notin {"loading", "query"} =>
       /\ ui.ready.query.version = ui.state.query.version
       /\ ui.ready.query.revision >= ui.state.query.revision
  /\ NextStep = "loading" =>
       \/ calls # {} \/ ui.error \/ ui.refused
       \/ ui.ready.read /\ ui.ready.query.version > ui.state.query.version
=============================================================================

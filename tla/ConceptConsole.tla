--------------------------- MODULE ConceptConsole ---------------------------
(***************************************************************************)
(* The queries of one ontology concept (web/src/ConceptUsage.tsx), in the  *)
(* drawer or beside the list that inspects it (OntologyModel.tsx): a data  *)
(* source is chosen, its catalog and its readiness are read, and a query   *)
(* of its draft is linked to the concept.                                  *)
(*                                                                         *)
(* The source shown is the one picked, else the first that the usage       *)
(* summary calls mapped, else the first of all; its section is mounted     *)
(* anew for every source.  Two sources, each with one query, and the       *)
(* concept mapped in the second.  The versions of the ontology, which      *)
(* never change, come with the catalog here.                               *)
(***************************************************************************)
EXTENDS Integers, FiniteSets

CONSTANTS
  MaxRevision,   \* bound on the server's writes of the sources' catalogs
  MaxRequests    \* bound on requests in flight

VARIABLES server, ui, calls

vars == <<server, ui, calls>>

Sources == {1, 2}       \* in the order of the page
Nil == 0
Revisions == 0 .. MaxRevision
\* entry: the revision that last changed the draft's query.
Catalogs == [revision : Revisions, entry : Revisions, linked : BOOLEAN]
NoCatalog == [revision |-> 0, entry |-> 0, linked |-> FALSE]
\* What is shown of a source: its catalog, its readiness.
States == [source : Sources \union {Nil}, catalog : Catalogs]
NoState == [source |-> Nil, catalog |-> NoCatalog]
Mapped == 2
\* The section of one source.
Sections == [state : States, ready : Sources \union {Nil}, failed : BOOLEAN,
             linking : BOOLEAN, picked : BOOLEAN, busy : BOOLEAN, conflict : BOOLEAN,
             saved : Sources \union {Nil}, preview : Sources \union {Nil}]
NoSection == [state |-> NoState, ready |-> Nil, failed |-> FALSE,
              linking |-> FALSE, picked |-> FALSE, busy |-> FALSE, conflict |-> FALSE,
              saved |-> Nil, preview |-> Nil]
Reads == {"state", "ready", "usage"}

TypeOK ==
  /\ server \in [catalogs : [Sources -> Catalogs], careless : BOOLEAN]
  /\ ui \in [inspecting : BOOLEAN, usage : BOOLEAN, selected : Sources \union {Nil},
             busy : BOOLEAN, section : Sections]
  /\ calls \subseteq [op : Reads \union {"link"}, source : Sources \union {Nil},
                      catalog : Catalogs, gone : {"no", "section", "all"}, answer : Catalogs,
                      stage : {"sent", "ok", "conflict", "failed"}]

Request(op, source, catalog) ==
  [op |-> op, source |-> source, catalog |-> catalog, gone |-> "no", answer |-> NoCatalog,
   stage |-> "sent"]
Read(op, source) == Request(op, source, NoCatalog)

\* The source on screen.
Shown(u) ==
  IF u.selected # Nil THEN u.selected ELSE IF u.usage THEN Mapped ELSE 1

\* Unmounting a section aborts its reads; a link is decided all the same.  Where
\* the choice of the source is gone too, its answer reaches nobody.
Answered(c, stage, answer) ==
  CASE c.gone = "no" -> {[c EXCEPT !.stage = stage, !.answer = answer]}
    [] c.gone = "section" -> {[c EXCEPT !.stage = "failed", !.catalog = NoCatalog]}
    [] OTHER -> {}
Orphan(c, gone) ==
  LET d == [c EXCEPT !.gone = IF @ = "all" THEN @ ELSE gone, !.answer = NoCatalog]
  IN IF d.stage = "sent" THEN {d} ELSE Answered(d, "failed", NoCatalog)
Orphans(gone) == UNION {Orphan(c, gone) : c \in {d \in calls : d.op = "link"}}
Section(source) == {Read("state", source), Read("ready", source)}

\* The page as it becomes: another source on screen is another section.
Stays(u) == ui.inspecting /\ u.inspecting /\ Shown(u) = Shown(ui)
Shows(u, all) ==
  \/ Stays(u) /\ ui' = u /\ calls' = all
  \/ /\ ~Stays(u)
     /\ ui' = [u EXCEPT !.section = NoSection]
     /\ calls' = Orphans(IF ui.inspecting /\ u.inspecting THEN "section" ELSE "all")
                 \union {c \in all : c.op = "usage"}
                 \union (IF u.inspecting THEN Section(Shown(u)) ELSE {})

Init ==
  /\ server = [catalogs |-> [s \in Sources |-> NoCatalog], careless |-> FALSE]
  /\ ui = [inspecting |-> FALSE, usage |-> FALSE, selected |-> Nil, busy |-> FALSE,
           section |-> NoSection]
  /\ calls = {Read("usage", Nil)}

Of(op) == {c \in calls : c.op = op}
HasRoom == Cardinality({c \in calls : c.op = "link"}) < MaxRequests
-----------------------------------------------------------------------------
(* The concept and its source                                              *)

InspectQueries ==
  /\ ~ui.inspecting
  /\ Shows([ui EXCEPT !.inspecting = TRUE, !.selected = Nil, !.busy = FALSE], calls)
  /\ UNCHANGED server

\* Back to the canvas, or to another entity: also while a link runs.
CloseInspector ==
  /\ ui.inspecting /\ ui.section.preview = Nil
  /\ Shows([ui EXCEPT !.inspecting = FALSE, !.selected = Nil, !.busy = FALSE], calls)
  /\ UNCHANGED server

RetryUsage ==
  /\ ~ui.usage /\ Of("usage") = {}
  /\ calls' = calls \union {Read("usage", Nil)} /\ UNCHANGED <<server, ui>>

\* The ontology was read again, beside the list also while a link runs: the choice
\* of the source is mounted anew, and until its answer no source is mapped.
OntologyReloaded ==
  /\ ui.inspecting /\ ui.section.preview = Nil
  /\ LET u == [ui EXCEPT !.usage = FALSE, !.selected = Nil, !.busy = FALSE,
                         !.section = NoSection]
     IN /\ ui' = u
        /\ calls' = Orphans("all") \union {Read("usage", Nil)} \union Section(Shown(u))
  /\ UNCHANGED server

UsageArrives(c, others) ==
  /\ c.op = "usage"
  /\ Shows(IF c.stage = "ok" THEN [ui EXCEPT !.usage = TRUE] ELSE ui, others)

\* Sources that are not mapped are behind a button of their own.
SelectSource ==
  /\ ui.inspecting /\ ~ui.busy /\ ui.section.preview = Nil
  /\ \E s \in Sources : Shows([ui EXCEPT !.selected = s], calls)
  /\ UNCHANGED server
-----------------------------------------------------------------------------
(* The section of the source                                               *)

Usable ==
  /\ ui.inspecting /\ ui.section.preview = Nil
  /\ ui.section.state # NoState /\ ui.section.ready # Nil
Here == ui.section

\* refresh(): the key of the readiness is new, what was shown under the old is
\* dropped.
Refresh ==
  /\ Usable \/ (ui.inspecting /\ Here.preview = Nil /\ Here.failed)
  /\ ~Here.busy
  /\ ui' = [ui EXCEPT !.section.state = NoState, !.section.ready = Nil,
                      !.section.failed = FALSE, !.section.conflict = FALSE,
                      !.section.saved = Nil]
  /\ calls' = (calls \ (Of("state") \union Of("ready"))) \union Section(Shown(ui))
  /\ UNCHANGED server

StartLinking ==
  /\ Usable /\ ~Here.busy
  /\ ui' = [ui EXCEPT !.section.linking = ~@] /\ UNCHANGED <<server, calls>>

\* The queries offered are those of the draft that are not linked.
PickQuery ==
  /\ Usable /\ Here.linking /\ ~Here.busy
  /\ \E picked \in BOOLEAN :
       /\ picked => ~Here.state.catalog.linked
       /\ ui' = [ui EXCEPT !.section.picked = picked]
  /\ UNCHANGED <<server, calls>>

\* link(): the draft's query as it was read, and the revision it was read at.
Link ==
  /\ Usable /\ Here.linking /\ Here.picked /\ ~Here.busy /\ ~Here.conflict /\ HasRoom
  /\ ~Here.state.catalog.linked
  /\ ui' = [ui EXCEPT !.busy = TRUE, !.section.busy = TRUE]
  /\ calls' = calls \union {Request("link", Here.state.source, Here.state.catalog)}
  /\ UNCHANGED server

\* Of a query that is published and executable.
OpenPreview ==
  /\ Usable /\ ~Here.busy
  /\ ui' = [ui EXCEPT !.section.preview = Here.state.source] /\ UNCHANGED <<server, calls>>

ClosePreview ==
  /\ ui.inspecting /\ Here.preview # Nil
  /\ ui' = [ui EXCEPT !.section.preview = Nil] /\ UNCHANGED <<server, calls>>
-----------------------------------------------------------------------------
(* The server (internal/server/semantics.go, readiness.go, ontologies.go)  *)

Answer(c, stage, answer) == calls' = (calls \ {c}) \union Answered(c, stage, answer)
CanWrite == server.catalogs[1].revision + server.catalogs[2].revision < MaxRevision

\* saveSemantics: only over the revision that was sent.
ServeLink(c) ==
  LET stored == server.catalogs[c.source]
      next == [revision |-> stored.revision + 1, entry |-> stored.revision + 1, linked |-> TRUE]
  IN /\ c.op = "link"
     /\ IF c.catalog.revision # stored.revision
          THEN UNCHANGED server /\ Answer(c, "conflict", NoCatalog)
          ELSE /\ CanWrite
               /\ server' = [server EXCEPT !.catalogs[c.source] = next,
                     !.careless = @ \/ c.catalog.entry # stored.entry]
               /\ Answer(c, "ok", next)

ServeRead(c) ==
  /\ c.op \in Reads
  /\ Answer(c, "ok", IF c.op = "state" THEN server.catalogs[c.source] ELSE NoCatalog)
  /\ UNCHANGED server

Serve ==
  /\ \E c \in calls : c.stage = "sent" /\ (ServeLink(c) \/ ServeRead(c))
  /\ UNCHANGED ui

\* Another administrator edits the query of a draft, or something else in it.
OtherAdministratorWrites ==
  /\ CanWrite
  /\ \E s \in Sources :
       LET r == server.catalogs[s].revision + 1 IN
       \/ server' = [server EXCEPT !.catalogs[s].revision = r, !.catalogs[s].entry = r]
       \/ server' = [server EXCEPT !.catalogs[s].revision = r]
  /\ UNCHANGED <<ui, calls>>
-----------------------------------------------------------------------------
(* The answers                                                             *)

SectionRead(c, others) ==
  /\ c.op \in {"state", "ready"}
  /\ ui' = CASE c.op = "state" /\ c.stage = "ok" ->
                  [ui EXCEPT !.section.state = [source |-> c.source, catalog |-> c.answer]]
             [] c.op = "ready" /\ c.stage = "ok" ->
                  [ui EXCEPT !.section.ready = c.source]
             [] c.op = "ready" /\ c.stage # "ok" -> [ui EXCEPT !.section.ready = Nil, !.section.failed = TRUE]
             [] OTHER -> [ui EXCEPT !.section.failed = TRUE]
  /\ calls' = others

\* A link that succeeded asks for the readiness again, and leaves the old in place.
LinkArrives(c, others) ==
  /\ c.op = "link" /\ c.gone = "no"
  /\ LET u == [ui EXCEPT !.busy = FALSE, !.section.busy = FALSE] IN
       IF c.stage = "ok"
         THEN /\ ui' = [u EXCEPT !.section.state = [source |-> c.source, catalog |-> c.answer],
                          !.section.saved = c.source, !.section.linking = FALSE,
                          !.section.picked = FALSE, !.section.failed = FALSE]
              /\ calls' = (others \ Of("ready")) \union {Read("ready", c.source)}
         ELSE /\ ui' = [u EXCEPT !.section.conflict = (c.stage = "conflict")]
              /\ calls' = others

\* The section is gone; its answer still frees the choice of the source.
LateLinkArrives(c, others) ==
  /\ c.op = "link" /\ c.gone # "no"
  /\ ui' = IF c.gone = "section" THEN [ui EXCEPT !.busy = FALSE] ELSE ui
  /\ calls' = others

\* What the page hears of a request: its answer, or that there will be none.
Heard(c) ==
  {[c EXCEPT !.stage = "failed"]} \union (IF c.stage = "sent" THEN {} ELSE {c})

Deliver ==
  /\ \E asked \in calls : \E c \in Heard(asked) :
       LET others == calls \ {asked} IN
         \/ UsageArrives(c, others) \/ SectionRead(c, others)
         \/ LinkArrives(c, others) \/ LateLinkArrives(c, others)
  /\ UNCHANGED server

Next ==
  \/ InspectQueries \/ CloseInspector \/ RetryUsage \/ OntologyReloaded \/ SelectSource
  \/ Refresh
  \/ StartLinking \/ PickQuery \/ Link \/ OpenPreview \/ ClosePreview
  \/ Serve \/ OtherAdministratorWrites \/ Deliver

Spec == Init /\ [][Next]_vars
-----------------------------------------------------------------------------
(* A query is linked as it was read: nothing that another administrator    *)
(* changed of it since is overwritten.                                     *)
WritesReplaceWhatWasShown == ~server.careless

(* All that the section shows, its catalog, readiness, saved notice and    *)
(* preview, is of the source on screen, which moves when the usage summary *)
(* arrives, and also while a link runs.                                    *)
AnswersMatchTheScreen ==
  ui.inspecting =>
    \A source \in {Here.state.source, Here.ready, Here.saved, Here.preview} :
      source \in {Nil, Shown(ui)}
=============================================================================

--------------------------- MODULE SourcesConsole ---------------------------
(***************************************************************************)
(* The data source pages: the list (web/src/Sources.tsx) and the setup of  *)
(* one source (SourceSetup.tsx), with the editor in a drawer               *)
(* (SourceEditor.tsx).                                                     *)
(*                                                                         *)
(* One source.  Its entry is the revision that last changed what is        *)
(* edited, its query the way it is queried (connection and server          *)
(* version), its probe the query that was tested.  A drawer can be closed while its save *)
(* runs: the save goes on (save, check, list) and closes what is open      *)
(* then.                                                                   *)
(***************************************************************************)
EXTENDS Integers, FiniteSets

CONSTANTS
  MaxRevision,   \* bound on the server's writes
  MaxRequests    \* bound on requests in flight

VARIABLES server, ui, calls

vars == <<server, ui, calls>>

Nil == -1
Revisions == 0 .. MaxRevision
\* The stored source, and what a list or a save's answer tells of it.
Queries == {1, 2}
Sources == [exists : BOOLEAN, revision : Revisions, entry : Revisions,
            query : Queries, probe : Queries \union {Nil}]
Copies == [exists : BOOLEAN, revision : Revisions, entry : Revisions, probed : BOOLEAN]
NoSource == [exists |-> FALSE, revision |-> 0, entry |-> 0, query |-> 1, probe |-> Nil]
\* A deleted source's id is never used again: its revision is past every form's.
Deleted == [NoSource EXCEPT !.revision = MaxRevision]
CopyOf(source) == [exists |-> source.exists, revision |-> source.revision,
                   entry |-> source.entry, probed |-> source.probe # Nil]
NoCopy == CopyOf(NoSource)
\* A form: its copy, and whether it shows a probe.
Forms == [base : Copies, probed : BOOLEAN]
FormOf(copy) == [base |-> [copy EXCEPT !.probed = FALSE], probed |-> copy.probed]
NoForm == FormOf(NoCopy)
Panels == {"none", "editor", "details", "delete"}
EditorOps == {"try", "save", "check", "listThenClose", "listThenStay"}
Mutations == {"save", "toggle", "delete"}
Ops == Mutations \union {"list", "listThenClose", "listThenStay", "listTested",
                         "listDeleted", "check", "try", "rowTest"}

TypeOK ==
  /\ server \in [source : Sources, careless : BOOLEAN]
  /\ ui \in [place : {"list", "setup"}, source : Copies, panel : Panels,
             editor : {0, 1}, form : Forms, busy : {"", "test", "save"},
             testing : BOOLEAN, deleting : BOOLEAN]
  /\ calls \subseteq [op : Ops, editor : {0, 1}, copy : Copies, query : Queries,
                      stage : {"sent", "probing", "ok", "failed"}]

Request(op, copy) ==
  [op |-> op, editor |-> 0, stage |-> "sent", copy |-> copy, query |-> 1]
Plain(op) == Request(op, NoCopy)
OfTheForm(op, copy) == [Request(op, copy) EXCEPT !.editor = ui.editor]

Init ==
  /\ \E s \in {NoSource, [NoSource EXCEPT !.exists = TRUE]}, place \in {"list", "setup"} :
       /\ place = "setup" => s.exists
       /\ server = [source |-> s, careless |-> FALSE]
       /\ ui = [place |-> place, source |-> CopyOf(s), panel |-> "none", editor |-> 0,
                form |-> NoForm, busy |-> "", testing |-> FALSE, deleting |-> FALSE]
       /\ calls = {}

HasRoom == Cardinality(calls) < MaxRequests
Ask(request) == HasRoom /\ calls' = calls \union {request}
Others(c) == calls \ {c}
NoPanel == ui.panel = "none"
-----------------------------------------------------------------------------
(* The list and the setup page                                             *)

Refresh ==
  /\ NoPanel /\ (ui.place = "setup" => ~ui.testing)
  /\ Ask(Plain("list")) /\ UNCHANGED <<server, ui>>

TestSource ==
  /\ NoPanel /\ ui.source.exists /\ ~ui.testing
  /\ ui' = [ui EXCEPT !.testing = TRUE]
  /\ Ask(Plain("rowTest")) /\ UNCHANGED server

\* The row's copy goes back whole, with enabled turned over.
ToggleSource ==
  /\ NoPanel /\ ui.place = "list" /\ ui.source.exists
  /\ Ask(Request("toggle", [ui.source EXCEPT !.probed = FALSE])) /\ UNCHANGED <<server, ui>>

OpenDelete ==
  /\ NoPanel /\ ui.place = "list" /\ ui.source.exists
  /\ ui' = [ui EXCEPT !.panel = "delete"] /\ UNCHANGED <<server, calls>>

CloseDelete ==
  /\ ui.panel = "delete" /\ ~ui.deleting
  /\ ui' = [ui EXCEPT !.panel = "none"] /\ UNCHANGED <<server, calls>>

DeleteSource ==
  /\ ui.panel = "delete" /\ ~ui.deleting
  /\ ui' = [ui EXCEPT !.deleting = TRUE]
  /\ Ask(Plain("delete")) /\ UNCHANGED server
-----------------------------------------------------------------------------
(* The editor                                                              *)

\* A new drawer is another editor: its requests are told from those before.
Running == {c.editor : c \in {d \in calls : d.op \in EditorOps}}
OpenEditor ==
  /\ NoPanel /\ (ui.place = "setup" => ~ui.testing) /\ Cardinality(Running) < 2
  /\ ui' = [ui EXCEPT !.panel = "editor", !.form = FormOf(ui.source), !.busy = "",
                      !.editor = IF 0 \in Running THEN 1 ELSE 0]
  /\ UNCHANGED <<server, calls>>

CloseEditor ==
  /\ ui.panel = "editor"
  /\ ui' = [ui EXCEPT !.panel = "none", !.form = NoForm, !.busy = "", !.editor = 0]
  /\ UNCHANGED <<server, calls>>

\* Fields stay editable while a request runs; an edit drops the probe shown.
ChangeField ==
  /\ ui.panel = "editor"
  /\ ui' = [ui EXCEPT !.form.probed = FALSE]
  /\ UNCHANGED <<server, calls>>

TryConnection ==
  /\ ui.panel = "editor" /\ ui.busy = ""
  /\ ui' = [ui EXCEPT !.busy = "test"]
  /\ Ask(OfTheForm("try", NoCopy)) /\ UNCHANGED server

SaveSource ==
  /\ ui.panel = "editor" /\ ui.busy = ""
  /\ ui' = [ui EXCEPT !.busy = "save"]
  /\ Ask(OfTheForm("save", ui.form.base)) /\ UNCHANGED server
-----------------------------------------------------------------------------
(* The explorer's drawer; what it asks and shows is SourceExplorer.  Over   *)
(* the list nothing closes it but itself.                                  *)

OpenDetails ==
  /\ NoPanel /\ ui.place = "setup" /\ ui.source.exists
  /\ ui' = [ui EXCEPT !.panel = "details"] /\ UNCHANGED <<server, calls>>

CloseDetails ==
  /\ ui.panel = "details"
  /\ ui' = [ui EXCEPT !.panel = "none"] /\ UNCHANGED <<server, calls>>
-----------------------------------------------------------------------------
(* The server (internal/server/sources.go)                                 *)

Answer(c, s, copy) ==
  calls' = Others(c) \union {[c EXCEPT !.stage = s, !.copy = copy, !.query = 1]}

ServeList(c) ==
  /\ c.op \in {"list", "listThenClose", "listThenStay", "listTested", "listDeleted"}
  /\ Answer(c, "ok", CopyOf(server.source)) /\ UNCHANGED server

ServeTry(c) ==
  /\ c.op = "try" /\ Answer(c, "ok", NoCopy) /\ UNCHANGED server

\* What a save leaves of a source: a change of how it is queried drops the
\* probe, and so does enabling or disabling it; a new name keeps it.
Saved(source, switched) ==
  {[exists |-> TRUE, revision |-> source.revision + 1, entry |-> source.revision + 1,
    query |-> query, probe |-> IF query = source.query /\ ~switched THEN source.probe ELSE Nil] :
     query \in IF switched THEN {source.query} ELSE Queries}

\* saveSource: the revision of the form must be the stored one.
ServeSave(c) ==
  /\ c.op \in {"save", "toggle"}
  /\ c.copy.exists = server.source.exists /\ c.copy.revision = server.source.revision
  /\ server.source.revision < MaxRevision
  /\ \E next \in Saved(server.source, c.op = "toggle") :
       /\ server' = [source |-> next,
            careless |-> server.careless \/ c.copy.entry # server.source.entry]
       /\ Answer(c, "ok", [CopyOf(next) EXCEPT !.probed = FALSE])

ServeDelete(c) ==
  /\ c.op = "delete"
  /\ server' = [server EXCEPT !.source = IF @.exists THEN Deleted ELSE @]
  /\ Answer(c, "ok", NoCopy)

\* testSource reads the source, probes it without the lock, and stores what it
\* found only over the revision it read; a new server version is a new revision.
StartProbe(c) ==
  /\ c.op \in {"rowTest", "check"} /\ server.source.exists
  /\ calls' = Others(c) \union {[c EXCEPT !.stage = "probing",
                     !.copy = [NoCopy EXCEPT !.revision = server.source.revision],
                     !.query = server.source.query]}
  /\ UNCHANGED server

StoresOverAnything(c) ==
  /\ c.stage = "probing" /\ server.source.exists
  /\ server' = [server EXCEPT !.source.probe = c.query]
  /\ \E s \in {"ok", "failed"} : Answer(c, s, NoCopy)

StoreProbe(c) ==
  /\ c.stage = "probing" /\ server.source.exists
  /\ c.copy.revision = server.source.revision
  /\ \/ /\ server' = [server EXCEPT !.source.probe = c.query]
        /\ \E s \in {"ok", "failed"} : Answer(c, s, NoCopy)
     \/ /\ server.source.revision < MaxRevision
        /\ \E query \in Queries \ {server.source.query} :
             server' = [server EXCEPT !.source.revision = @ + 1, !.source.query = query,
                                      !.source.probe = query]
        /\ Answer(c, "ok", NoCopy)

Serve ==
  /\ \E c \in calls :
       \/ /\ c.stage = "sent"
          /\ \/ ServeList(c) \/ ServeTry(c) \/ ServeSave(c) \/ ServeDelete(c)
             \/ StartProbe(c)
       \/ c.stage = "probing" /\ StoreProbe(c)
  /\ UNCHANGED ui

OtherAdministratorSaves ==
  /\ server.source.exists /\ server.source.revision < MaxRevision
  /\ \E next \in Saved(server.source, FALSE) : server' = [server EXCEPT !.source = next]
  /\ UNCHANGED <<ui, calls>>
-----------------------------------------------------------------------------
(* The continuations in the browser                                        *)

Then(others, request) == calls' = others \union {request}
Mounted(c) == ui.panel = "editor" /\ c.editor = ui.editor
Free(c) == IF Mounted(c) THEN [ui EXCEPT !.busy = ""] ELSE ui

ListArrives(c, others) ==
  /\ c.op \in {"list", "listThenStay", "listTested", "listDeleted"}
  /\ LET u == CASE c.op = "listThenStay" -> Free(c)
                [] c.op = "listTested" -> [ui EXCEPT !.testing = FALSE]
                [] c.op = "listDeleted" -> [ui EXCEPT !.deleting = FALSE]
                [] OTHER -> ui
     IN IF c.stage = "ok" THEN ui' = [u EXCEPT !.source = c.copy] /\ calls' = others
        ELSE ui' = u /\ calls' = others

\* The page closes its drawer: the list its editor, the setup whichever is open.
SavedAndChecked(c, others) ==
  /\ c.op = "listThenClose" /\ calls' = others
  /\ LET mine == {"editor"} \union (IF ui.place = "setup" THEN {"details"} ELSE {}) IN
       ui' = CASE c.stage # "ok" -> Free(c)
               [] c.stage = "ok" /\ ui.panel \in mine ->
                    [ui EXCEPT !.source = c.copy, !.panel = "none", !.form = NoForm,
                               !.busy = "", !.editor = 0]
               [] OTHER -> [ui EXCEPT !.source = c.copy]

RowTestEnds(c, others) ==
  /\ c.op = "rowTest"
  /\ IF c.stage = "ok" \/ ui.place = "list"
       THEN UNCHANGED ui /\ Then(others, Plain("listTested"))
       ELSE ui' = [ui EXCEPT !.testing = FALSE] /\ calls' = others

ToggleEnds(c, others) ==
  /\ c.op = "toggle" /\ UNCHANGED ui
  /\ IF c.stage = "ok" THEN Then(others, Plain("list")) ELSE calls' = others

DeleteEnds(c, others) ==
  /\ c.op = "delete"
  /\ IF c.stage = "ok"
       THEN ui' = [ui EXCEPT !.panel = "none"] /\ Then(others, Plain("listDeleted"))
       ELSE ui' = [ui EXCEPT !.deleting = FALSE] /\ calls' = others

TryEnds(c, others) ==
  /\ c.op = "try" /\ calls' = others
  /\ ui' = IF Mounted(c) THEN [ui EXCEPT !.busy = "", !.form.probed = (c.stage = "ok")] ELSE ui

\* What was saved replaces the form, whatever was typed since; then it is checked.
SaveEnds(c, others) ==
  /\ c.op = "save"
  /\ IF c.stage = "ok"
       THEN /\ ui' = IF Mounted(c) THEN [ui EXCEPT !.form.base = c.copy]
                     ELSE ui
            /\ Then(others, [Plain("check") EXCEPT !.editor = c.editor])
       ELSE ui' = Free(c) /\ calls' = others

CheckEnds(c, others) ==
  /\ c.op = "check"
  /\ ui' = IF Mounted(c) THEN [ui EXCEPT !.form.probed = TRUE] ELSE ui
  /\ Then(others, [Plain(IF c.stage = "ok" THEN "listThenClose" ELSE "listThenStay")
                EXCEPT !.editor = c.editor])

\* What the page hears of a request: its answer, or that there will be none.
Heard(c) ==
  {[c EXCEPT !.stage = "failed"]} \union (IF c.stage \in {"sent", "probing"} THEN {} ELSE {c})

Deliver ==
  /\ \E asked \in calls : \E c \in Heard(asked) :
       LET others == Others(asked) IN
         \/ ListArrives(c, others) \/ SavedAndChecked(c, others) \/ RowTestEnds(c, others)
         \/ ToggleEnds(c, others) \/ DeleteEnds(c, others) \/ TryEnds(c, others)
         \/ SaveEnds(c, others) \/ CheckEnds(c, others)
  /\ UNCHANGED server

Next ==
  \/ Refresh \/ TestSource \/ ToggleSource \/ OpenDelete \/ CloseDelete
  \/ DeleteSource \/ OpenEditor \/ CloseEditor \/ ChangeField \/ TryConnection
  \/ SaveSource \/ OpenDetails \/ CloseDetails
  \/ Serve \/ OtherAdministratorSaves \/ Deliver

Spec == Init /\ [][Next]_vars
-----------------------------------------------------------------------------
(* A save or a toggle replaces the source its form or row was read from,   *)
(* although rows, forms and saves are read at different times and another  *)
(* administrator writes in between.                                        *)
WritesReplaceWhatWasShown == ~server.careless

(* A stored probe is of the connection it is stored with: tests run without *)
(* the lock, while sources are saved and deleted (testSource).             *)
ProbesDescribeTheirSource == server.source.probe \in {Nil, server.source.query}
=============================================================================

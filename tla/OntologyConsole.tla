-------------------------- MODULE OntologyConsole --------------------------
(***************************************************************************)
(* The ontology pages: the list and one ontology (web/src/Ontologies.tsx), *)
(* with the drawer that edits one definition (OntologyEditor.tsx) and the  *)
(* drawer of every other operation (OntologyDialog.tsx).                   *)
(*                                                                         *)
(* One ontology.  Its draft is two parts, the settings (its archived flag  *)
(* among them) and one definition, each the revision that last changed it; *)
(* the page holds two copies of it, the state it was told and the draft    *)
(* being edited, and sends the whole draft back at the state's revision.   *)
(***************************************************************************)
EXTENDS Integers, FiniteSets

CONSTANTS
  MaxRevision,   \* bound on the server's writes
  MaxRequests    \* bound on requests in flight

VARIABLES server, ui, calls

vars == <<server, ui, calls>>

Nil == -1
Addition == -2    \* the form of a definition to be added
Revisions == 0 .. MaxRevision
Versions == {1, 2}
Picked == 1    \* versions are alike: the one whose deletion is asked for
Parts == {"settings", "item"}
Drafts == [Parts -> Revisions]
States == [revision : Revisions, draft : Drafts, published : Drafts]
Confirmed == {"remove", "import", "publish", "discard", "archive", "deleteVersion",
              "delete", "create"}
Writes == Confirmed \union {"save", "item", "another"}
\* The page's own reads (the validation and the exports are "other"); the state
\* asked for after a deletion and by the editor.
Reads == {"load", "reload", "other", "view", "older"}
Rereads == {"afterDeletion", "afterConflict"}
Dialogs == {"", "version"} \union Confirmed

\* shown: the draft the administrator was looking at, torn: one that is not the
\* state's; gone: the page is not there any more.
Requests == [op : Writes \union Reads \union Rereads, revision : Revisions,
             shown : Drafts, torn : BOOLEAN, version : Versions \union {Nil}, gone : BOOLEAN,
             stage : {"sent", "ok", "conflict"}, state : States]

TypeOK ==
  /\ server \in [exists : BOOLEAN, state : States, careless : Writes \union {"", "torn"}]
  /\ ui \in [place : {"list", "page"}, loaded : BOOLEAN, state : States, draft : Drafts,
             typed : BOOLEAN, busy : BOOLEAN, editing : Revisions \union {Nil, Addition},
             saving : BOOLEAN, conflict : BOOLEAN, dialog : Dialogs,
             version : Versions \union {Nil}]
  /\ calls \subseteq Requests

Untouched == [p \in Parts |-> 0]
Blank == [revision |-> 0, draft |-> Untouched, published |-> Untouched]
Page(place) ==
  [place |-> place, loaded |-> FALSE, state |-> Blank, draft |-> Untouched,
   typed |-> FALSE, busy |-> FALSE, editing |-> Nil, saving |-> FALSE,
   conflict |-> FALSE, dialog |-> "", version |-> Nil]
Request(op, shown) ==
  [op |-> op, stage |-> "sent", state |-> Blank, gone |-> FALSE,
   revision |-> IF op \in Writes \union {"older"} THEN ui.state.revision ELSE 0,
   shown |-> IF op \in Writes \union {"older"} THEN shown ELSE Untouched,
   torn |-> op \in Writes /\ ui.draft # ui.state.draft,
   version |-> IF op \in {"view", "deleteVersion"} THEN ui.version ELSE Nil]

Init ==
  /\ \E exists \in BOOLEAN :
       server = [exists |-> exists, state |-> Blank, careless |-> ""]
  /\ ui = Page("list") /\ calls = {}

Dirty == ui.typed \/ ui.draft # ui.state.draft
Ask(request) ==
  /\ Cardinality(calls) < MaxRequests
  /\ calls' = calls \union {request}
NoDialog == ui.dialog = ""
Bare == NoDialog /\ ui.editing = Nil
OnPage == ui.place = "page" /\ ui.loaded /\ Bare
Accept(u, state) ==
  [u EXCEPT !.loaded = TRUE, !.state = state, !.draft = state.draft, !.typed = FALSE]
\* The reads of a page that is gone reach nobody; its writes are still decided.
Unmounted(c) == [c EXCEPT !.gone = TRUE, !.version = IF c.op = "deleteVersion" THEN @ ELSE Nil]
Orphans(all) == {Unmounted(c) : c \in {d \in all : d.op \in Writes /\ d.stage = "sent"}}
-----------------------------------------------------------------------------
(* Moving between the list and the ontology                                *)

\* Mounting the page asks for the state; leaving it drops the question.
Open ==
  /\ ui.place = "list" /\ Bare /\ ~ui.busy /\ server.exists
  /\ Cardinality(Orphans(calls)) < MaxRequests
  /\ ui' = Page("page")
  /\ calls' = Orphans(calls) \union {[Request("load", Untouched) EXCEPT !.revision = 0]}
  /\ UNCHANGED server

\* The button refuses unsaved changes; the navigation guard, a running action.
Leave ==
  /\ ui.place = "page" /\ Bare /\ ~Dirty /\ ~ui.busy
  /\ ui' = Page("list") /\ calls' = Orphans(calls)
  /\ UNCHANGED server
-----------------------------------------------------------------------------
(* What the administrator does                                             *)

\* action(): one busy flag for the page, cleared by whichever action ends first.
Act(request) ==
  /\ ui' = [ui EXCEPT !.busy = TRUE]
  /\ Ask(request) /\ UNCHANGED server

Reload ==
  /\ Bare /\ ~ui.busy /\ ~Dirty
  /\ Act(Request("reload", Untouched))

Validate == OnPage /\ ~ui.busy /\ ~Dirty /\ Act(Request("other", Untouched))
\* A version is exported whatever is running.
Export == OnPage /\ ~Dirty /\ Act(Request("other", Untouched))

TypeSettings ==
  /\ OnPage /\ ~ui.busy /\ ~ui.typed
  /\ ui' = [ui EXCEPT !.typed = TRUE] /\ UNCHANGED <<server, calls>>

RevertSettings ==
  /\ OnPage /\ ~ui.busy /\ Dirty
  /\ ui' = [ui EXCEPT !.draft = ui.state.draft, !.typed = FALSE]
  /\ UNCHANGED <<server, calls>>

SaveSettings == OnPage /\ ~ui.busy /\ Dirty /\ Act(Request("save", ui.draft))

\* The versions' buttons wait for nothing, not for a running action either.
ViewVersion ==
  /\ OnPage /\ ~Dirty
  /\ \E v \in Versions : Act([Request("view", Untouched) EXCEPT !.version = v])

LoadOlderVersions == OnPage /\ ~Dirty /\ Act(Request("older", ui.state.draft))

AskDeleteVersion ==
  /\ OnPage /\ ~Dirty
  /\ ui' = [ui EXCEPT !.dialog = "deleteVersion", !.version = Picked]
  /\ UNCHANGED <<server, calls>>

Changed == ui.state.draft # ui.state.published

OpenDialog(d) ==
  /\ Bare
  /\ \/ ui.place = "list" /\ d \in {"create", "import"}
     \/ /\ OnPage /\ ~ui.busy /\ ~Dirty
        /\ d \in {"remove", "import", "publish", "discard", "archive", "delete"}
        /\ (d \in {"publish", "discard"} => Changed)
  /\ ui' = [ui EXCEPT !.dialog = d] /\ UNCHANGED <<server, calls>>

CloseDialog ==
  /\ ~NoDialog /\ ~ui.busy
  /\ ui' = [ui EXCEPT !.dialog = "", !.version = Nil]
  /\ UNCHANGED <<server, calls>>

\* On the list an imported ontology is created.
ConfirmDialog ==
  /\ ui.dialog \in Confirmed /\ ~ui.busy
  /\ Act(Request(IF ui.place = "list" THEN "create" ELSE ui.dialog, ui.draft))

OpenEditor ==
  /\ OnPage /\ ~ui.busy /\ ~Dirty
  /\ \E item \in {ui.draft["item"], Addition} : ui' = [ui EXCEPT !.editing = item]
  /\ UNCHANGED <<server, calls>>

\* Unsaved changes ask first.
CloseEditor ==
  /\ ui.editing # Nil /\ NoDialog /\ ~ui.saving
  /\ ui' = [ui EXCEPT !.editing = Nil, !.conflict = FALSE]
  /\ UNCHANGED <<server, calls>>

\* A form that is not valid is told so, and the conflict shown before goes.
RefuseForm ==
  /\ ui.editing # Nil /\ NoDialog /\ ~ui.saving /\ ui.conflict
  /\ ui' = [ui EXCEPT !.conflict = FALSE] /\ UNCHANGED <<server, calls>>

\* The form keeps the definition it was opened with; the draft it is put into and
\* the revision are the page's own at the time of saving.
SaveItem ==
  /\ ui.editing # Nil /\ NoDialog /\ ~ui.saving
  /\ ui' = [ui EXCEPT !.saving = TRUE]
  /\ IF ui.editing = Addition
       THEN \E op \in {"item", "another"} : Ask(Request(op, ui.draft))
       ELSE Ask(Request("item", [ui.draft EXCEPT !["item"] = ui.editing]))
  /\ UNCHANGED server

\* After a conflict, and confirmed a second time.
DiscardEditAndReload ==
  /\ ui.editing # Nil /\ NoDialog /\ ~ui.saving /\ ui.conflict
  /\ ui' = [ui EXCEPT !.saving = TRUE]
  /\ Ask(Request("afterConflict", Untouched)) /\ UNCHANGED server
-----------------------------------------------------------------------------
(* The server (internal/server/ontologies.go)                              *)

\* A saved draft replaces the stored one whole.
Written(c, state, r) ==
  CASE c.op = "save" -> [c.shown EXCEPT !["settings"] = r]
    [] c.op \in {"item", "another", "remove"} -> [c.shown EXCEPT !["item"] = r]
    [] c.op = "import" -> [p \in Parts |-> r]
    [] c.op = "archive" -> [state.draft EXCEPT !["settings"] = r]
    [] c.op = "discard" -> state.published
    [] OTHER -> state.draft

Answer(c, stage, state) ==
  calls' = (calls \ {c}) \union
           (IF c.gone THEN {} ELSE
              {[c EXCEPT !.stage = stage, !.torn = FALSE, !.revision = IF c.op = "older" THEN @ ELSE 0,
                !.shown = IF c.op = "older" THEN @ ELSE Untouched, !.state = state]})

\* Whether a write was built from another draft than it replaced; the server
\* remembers it until the next answer is delivered.
Noted(c) == IF c.shown = server.state.draft THEN "" ELSE IF c.torn THEN "torn" ELSE c.op

Create(c) ==
  /\ c.op = "create" /\ ~server.exists /\ server.state.revision = 0
  /\ server' = [server EXCEPT !.exists = TRUE]
  /\ Answer(c, "ok", Blank)

\* The id of a deleted ontology is not used again here.
Delete(c) ==
  /\ c.op = "delete" /\ server.exists /\ c.revision = server.state.revision
  /\ server' = [exists |-> FALSE, state |-> [Blank EXCEPT !.revision = MaxRevision],
                careless |-> Noted(c)]
  /\ Answer(c, "ok", Blank)

\* A deleted version leaves the draft and its revision as they are.
DeleteVersion(c) ==
  /\ c.op = "deleteVersion" /\ server.exists /\ c.revision = server.state.revision
  /\ server' = [server EXCEPT !.careless = Noted(c)]
  /\ Answer(c, "ok", Blank)

Change(c) ==
  /\ c.op \in Writes \ {"create", "delete", "deleteVersion"}
  /\ server.exists /\ c.revision = server.state.revision
  /\ server.state.revision < MaxRevision
  /\ LET r == server.state.revision + 1
         next == [revision |-> r, draft |-> Written(c, server.state, r),
                  published |-> IF c.op = "publish" THEN server.state.draft
                                ELSE server.state.published]
     IN /\ server' = [server EXCEPT !.state = next, !.careless = Noted(c)]
        /\ Answer(c, "ok", next)

Read(c) ==
  /\ c.op \in Reads \union Rereads /\ server.exists
  /\ Answer(c, "ok", IF c.op \in {"load", "reload"} \union Rereads THEN server.state ELSE Blank)
  /\ UNCHANGED server

\* Only an item's form tells a conflict from other failures.
Refuse(c) ==
  /\ c.op \in {"item", "another"} /\ server.exists /\ c.revision # server.state.revision
  /\ Answer(c, "conflict", Blank) /\ UNCHANGED server

Serve ==
  /\ \E c \in calls :
       /\ c.stage = "sent"
       /\ \/ Create(c) \/ Delete(c) \/ DeleteVersion(c) \/ Change(c) \/ Read(c) \/ Refuse(c)
  /\ UNCHANGED ui

OtherAdministratorWrites ==
  /\ server.exists /\ server.state.revision < MaxRevision
  /\ LET r == server.state.revision + 1 IN
       \E p \in Parts : server' = [server EXCEPT !.state.revision = r, !.state.draft[p] = r]
  /\ UNCHANGED <<ui, calls>>
-----------------------------------------------------------------------------
(* The continuations in the browser                                        *)

Idle == [ui EXCEPT !.busy = FALSE]
Shut(u) == [u EXCEPT !.dialog = "", !.version = Nil]

Loaded(c) ==
  /\ c.op \in {"load", "reload", "save", "other"}
  /\ LET u == IF c.op = "load" THEN ui ELSE Idle IN
       ui' = IF c.stage = "ok" /\ c.op \in {"load", "reload", "save"} /\ ui.place = "page"
             THEN Accept(u, c.state) ELSE u

\* The definition opens in a drawer, over whatever else is open.
ViewArrives(c) ==
  /\ c.op = "view"
  /\ ui' = IF c.stage = "ok"
           THEN [Idle EXCEPT !.version = c.version, !.dialog = "version"]
           ELSE Idle

\* The older versions are added to the state of when they were asked for.
OlderArrive(c) ==
  /\ c.op = "older"
  /\ ui' = IF c.stage = "ok"
           THEN [Idle EXCEPT !.state.revision = c.revision, !.state.draft = c.shown]
           ELSE Idle

DialogConfirmed(c) ==
  /\ c.op \in (Confirmed \union {"afterDeletion"}) \ {"deleteVersion", "create", "delete"}
  /\ ui' = IF c.stage = "ok" THEN Shut(Accept(Idle, c.state)) ELSE Idle

VersionDeleted(c) ==
  /\ c.op = "deleteVersion" /\ c.stage # "ok" /\ ui' = Idle

ItemSaved(c) ==
  /\ c.op \in {"item", "another", "afterConflict"}
  /\ LET u == [ui EXCEPT !.saving = FALSE,
                         !.conflict = IF c.op = "afterConflict" THEN @
                                      ELSE c.stage = "conflict"]
         v == [Accept(u, c.state) EXCEPT !.conflict = FALSE] IN
       ui' = IF c.stage # "ok" THEN u
             ELSE IF c.op = "another" THEN v ELSE [v EXCEPT !.editing = Nil]

\* What is deleted is left, what is created is opened, and a deleted version
\* asks for the state.
Moves(c, others) ==
  /\ c.op \in {"create", "delete", "deleteVersion"} /\ c.stage = "ok"
  /\ CASE c.op = "create" ->
            /\ ui' = Page("page")
            /\ calls' = Orphans(others) \union {[Request("load", Untouched) EXCEPT !.revision = 0]}
       [] c.op = "delete" -> ui' = Page("list") /\ calls' = Orphans(others)
       [] OTHER -> /\ UNCHANGED ui
                   /\ calls' = others \union {Request("afterDeletion", Untouched)}

Fails(c) ==
  /\ c.op \in {"create", "delete"} /\ c.stage # "ok" /\ ui' = Idle

\* What the page hears of a request: its answer, or that there will be none.
Heard(c) ==
  {[c EXCEPT !.stage = "failed"]} \union (IF c.stage = "sent" THEN {} ELSE {c})

Deliver ==
  /\ \E asked \in calls : \E c \in Heard(asked) :
       LET others == calls \ {asked} IN
         \/ ~c.gone /\ Moves(c, others)
         \/ /\ ~c.gone
            /\ \/ Loaded(c) \/ ViewArrives(c) \/ OlderArrive(c) \/ DialogConfirmed(c)
               \/ VersionDeleted(c) \/ ItemSaved(c) \/ Fails(c)
            /\ calls' = others
         \/ c.gone /\ calls' = others /\ UNCHANGED ui
  /\ server' = [server EXCEPT !.careless = ""]

Next ==
  \/ Open \/ Leave \/ Reload \/ Validate \/ Export \/ TypeSettings \/ RevertSettings
  \/ SaveSettings \/ ViewVersion \/ LoadOlderVersions \/ AskDeleteVersion
  \/ (\E d \in Confirmed \ {"deleteVersion"} : OpenDialog(d)) \/ CloseDialog
  \/ ConfirmDialog \/ OpenEditor \/ CloseEditor \/ RefuseForm \/ SaveItem
  \/ DiscardEditAndReload \/ Serve \/ OtherAdministratorWrites \/ Deliver

Spec == Init /\ [][Next]_vars
-----------------------------------------------------------------------------
(* What the page writes was built from the draft it replaces, however the  *)
(* answers of earlier requests are ordered and whatever another            *)
(* administrator writes in between.  Excluded are the two that are not     *)
(* built from one accepted state, see EntryEditsPreserved.                 *)
WritesReplaceWhatWasShown == server.careless \in {"", "item", "torn"}

(* Saving preserves concurrent edits (CHANGELOG.md line 12).  An open form *)
(* keeps the definition it was opened with, and a reload still running,    *)
(* whose busy flag another action cleared, moves on the draft it is put    *)
(* into and the revision it is sent at.  A list of older versions puts the *)
(* state of when it was asked for under a draft that was read before it.   *)
EntryEditsPreserved == server.careless \notin {"item", "torn"}

(* The version a confirmation deletes is the one its row offered, although *)
(* a definition asked for before arrives while the confirmation is open.   *)
ConfirmationIsEarned == ui.dialog = "deleteVersion" => ui.version = Picked
=============================================================================

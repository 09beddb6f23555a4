-------------------------- MODULE SemanticsConsole --------------------------
(***************************************************************************)
(* The page that edits, reviews and publishes one source's semantics       *)
(* (web/src/Semantics.tsx with its editor, review, history and tools).     *)
(*                                                                         *)
(* The server holds a draft at a revision and refuses a write that names   *)
(* another one; another administrator writes too.  A draft is two parts, a *)
(* shared overview and one entry, and each part is the revision that last  *)
(* changed it: a write that was made looking at an older part is visible   *)
(* as such.  ui is the page's React state; calls are its requests, decided *)
(* by the server in one step and continued in the browser in another.      *)
(***************************************************************************)
EXTENDS Integers, FiniteSets

CONSTANTS
  MaxRevision,   \* bound on the server's writes
  MaxRequests    \* bound on requests in flight

VARIABLES server, ui, calls

vars == <<server, ui, calls>>

Nil == -1
Revisions == 0 .. MaxRevision
Parts == {"overview", "entry"}
Drafts == [Parts -> Revisions]
States == [revision : Revisions, draft : Drafts, published : Drafts]
Gone == 0            \* of a request: the dialog that made it is no longer there
Choices == {1, 2}    \* Agents, namespaces, parameter values: what a read is about

Reads == {"load", "reload", "refresh", "published", "export", "impact", "detail",
          "forget", "objects", "preview", "visibility"}
Writes == {"save", "entry", "import", "discard", "delete", "structure", "restore",
           "publish"}
Trials == {"trial", "check"}    \* from the page, from the review
Ops == Reads \union Writes \union Trials
Dialogs == {"", "review", "history", "discard", "delete", "import", "structure",
            "preview", "visibility"}

\* shown: the draft the administrator was looking at; sel: what a read is about.
Requests == [op : Ops, revision : Revisions, shown : Drafts, sel : Choices \union {Gone},
             stage : {"sent", "ok"}, state : States]

Pages == [loaded : BOOLEAN, revision : Revisions, draft : Drafts, published : Drafts,
          typed : BOOLEAN, busy : BOOLEAN, editing : Revisions \union {Nil},
          saving : BOOLEAN, dialog : Dialogs, working : BOOLEAN, sel : Choices,
          seen : Revisions \union {Nil}, compared : Drafts]

TypeOK ==
  /\ server \in [state : States, careless : Ops \union {""}]
  /\ ui \in Pages /\ calls \subseteq Requests

Untouched == [p \in Parts |-> 0]
Fresh == [loaded |-> FALSE, revision |-> 0, draft |-> Untouched,
          published |-> Untouched, typed |-> FALSE, busy |-> FALSE, editing |-> Nil,
          saving |-> FALSE, dialog |-> "", working |-> FALSE, sel |-> 1, seen |-> Nil,
          compared |-> Untouched]
Blank == [revision |-> 0, draft |-> Untouched, published |-> Untouched]

\* What a request carries of the page it was made on.
Request(op, u, shown) ==
  [op |-> op, stage |-> "sent", state |-> Blank,
   revision |-> IF op \in {"impact", "forget"} \union Writes \union Trials THEN u.revision ELSE 0,
   shown |-> IF op \in Writes THEN shown ELSE Untouched,
   sel |-> IF op \in {"objects", "preview", "visibility"} THEN u.sel ELSE 1]

\* Mounting the page asks for the state.
Init ==
  /\ server = [state |-> Blank, careless |-> ""]
  /\ ui = Fresh /\ calls = {Request("load", Fresh, Untouched)}

DialogReads == {"impact", "objects", "preview", "visibility"}
\* The dialog an operation belongs to; the others are the page's own actions.
Panel(op) == CASE op \in {"detail", "restore", "forget"} -> "history"
               [] op \in {"objects", "structure"} -> "structure"
               [] op \in {"preview", "visibility"} -> op
               [] OTHER -> "review"
Closed(u) == [u EXCEPT !.dialog = "", !.working = FALSE, !.seen = Nil, !.sel = 1,
                       !.compared = Untouched]
InFlight(op) == \E c \in calls : c.op = op
Ask(op, u, shown) ==
  /\ Cardinality(calls) < MaxRequests
  /\ calls' = calls \union {Request(op, u, shown)}
Unsaved == ui.typed

\* A closed dialog's reads reach nobody; its other requests find it gone.
Orphans(others) ==
  {IF Panel(c.op) = ui.dialog THEN [c EXCEPT !.sel = Gone] ELSE c :
     c \in {d \in others : d.op \notin DialogReads}}

\* A new state replaces what the page shows, the text being typed included.  The
\* review asks for the impact of every new state and drops the earlier question.
Accept(u, state, others) ==
  LET v == [u EXCEPT !.loaded = TRUE, !.revision = state.revision,
                     !.draft = state.draft, !.published = state.published,
                     !.typed = FALSE]
  IN IF u.dialog = "review"
       THEN /\ ui' = [v EXCEPT !.seen = Nil]
            /\ calls' = {c \in others : c.op # "impact"} \union
                        {Request("impact", v, v.draft)}
       ELSE ui' = v /\ calls' = IF u.dialog = "" THEN Orphans(others) ELSE others
-----------------------------------------------------------------------------
(* What the administrator does                                             *)

RetryLoading ==
  /\ ~ui.loaded /\ calls = {}
  /\ ui' = [ui EXCEPT !.busy = TRUE] /\ Ask("reload", ui, ui.draft)
  /\ UNCHANGED server

TypeOverview ==
  /\ ui.loaded /\ ui.dialog = "" /\ ui.editing = Nil /\ ~ui.typed
  /\ ui' = [ui EXCEPT !.typed = TRUE]
  /\ UNCHANGED <<server, calls>>

RevertOverview ==
  /\ ui.loaded /\ ~ui.busy /\ Unsaved /\ ui.dialog = "" /\ ui.editing = Nil
  /\ ui' = [ui EXCEPT !.typed = FALSE]
  /\ UNCHANGED <<server, calls>>

\* action(): one busy name for the whole page while a request runs.
Act(op) ==
  /\ ui.loaded /\ ui.dialog = "" /\ ui.editing = Nil
  /\ ui' = [ui EXCEPT !.busy = TRUE]
  /\ Ask(op, ui, ui.draft)
  /\ UNCHANGED server

SaveOverview == ~ui.busy /\ Unsaved /\ Act("save")
Refresh == ~ui.busy /\ ~Unsaved /\ Act("reload")
RunTrial == ~ui.busy /\ ~Unsaved /\ Act("trial")
\* Exporting waits for nothing, and its end clears whatever busy name is set.
Export == ~InFlight("export") /\ Act("export")

\* An entry's name opens the editor even while something else is running.
EditEntry ==
  /\ ui.loaded /\ ui.dialog = "" /\ ui.editing = Nil /\ ~Unsaved
  /\ ui' = [ui EXCEPT !.editing = ui.draft["entry"]]
  /\ UNCHANGED <<server, calls>>

CloseEditor ==
  /\ ui.editing # Nil /\ ~ui.saving
  /\ ui' = [ui EXCEPT !.editing = Nil]
  /\ UNCHANGED <<server, calls>>

\* The form keeps the entry it was opened with; the revision is the page's own.
SaveEntry ==
  /\ ui.editing # Nil /\ ~ui.saving
  /\ ui' = [ui EXCEPT !.saving = TRUE]
  /\ Ask("entry", ui, [ui.draft EXCEPT !["entry"] = ui.editing])
  /\ UNCHANGED server

\* What opening a dialog asks for at once.
FirstRead(d) == CASE d = "review" -> "impact" [] d = "structure" -> "objects"
                  [] OTHER -> "none"

\* The catalog's "Import structure" and a preview wait for nothing; the catalog is
\* not reached with an unsaved overview.
OpenDialog(d) ==
  /\ ui.loaded /\ ui.dialog = "" /\ ui.editing = Nil
  /\ d # "preview" => ~Unsaved
  /\ d \notin {"preview", "structure"} => ~ui.busy
  /\ ui' = [ui EXCEPT !.dialog = d, !.working = (d = "structure"), !.seen = Nil,
                      !.sel = 1]
  /\ IF FirstRead(d) = "none" THEN UNCHANGED calls ELSE Ask(FirstRead(d), ui', ui.draft)
  /\ UNCHANGED server

\* Unmounting a dialog ends its reads: their answers reach nobody.
Without(ops) == {c \in calls : c.op \notin ops}

CloseDialog ==
  /\ ui.dialog # "" /\ ~InFlight("structure")
  /\ ~ui.working \/ ui.dialog \in {"structure", "preview"}
  /\ ui.dialog \in {"discard", "delete", "import"} => ~ui.busy
  /\ ui' = Closed(ui)
  /\ calls' = Without(DialogReads)
  /\ UNCHANGED server

\* An issue of the review leads to the editor of the entry it is about.
RepairIssue ==
  /\ ui.dialog = "review" /\ ~ui.working
  /\ ui' = [Closed(ui) EXCEPT !.editing = ui.draft["entry"]]
  /\ calls' = Without(DialogReads)
  /\ UNCHANGED server

\* SemanticReview: the publication names the state on screen; the button waits
\* until the impact of that state has been read.
PublishReviewed ==
  /\ ui.dialog = "review" /\ ~ui.working /\ ui.seen # Nil
  /\ ui' = [ui EXCEPT !.working = TRUE]
  /\ Ask("publish", ui, ui.draft)
  /\ UNCHANGED server
TrialFromReview ==
  /\ ui.dialog = "review" /\ ~ui.working
  /\ ui' = [ui EXCEPT !.working = TRUE]
  /\ Ask("check", ui, ui.draft)
  /\ UNCHANGED server

ReloadReview ==
  /\ ui.dialog = "review" /\ ~ui.working /\ ui.seen = Nil /\ ~InFlight("impact")
  /\ ui' = [ui EXCEPT !.working = TRUE]
  /\ Ask("refresh", ui, ui.draft)
  /\ UNCHANGED server

InspectVersion ==
  /\ ui.dialog = "history" /\ ~ui.working
  /\ ui' = [ui EXCEPT !.working = TRUE, !.seen = Nil]
  /\ Ask("detail", ui, ui.draft)
  /\ UNCHANGED server

\* The draft is replaced at the revision the comparison was made with.
RestoreVersion ==
  /\ ui.dialog = "history" /\ ~ui.working /\ ui.seen # Nil
  /\ ui' = [ui EXCEPT !.working = TRUE]
  /\ Ask("restore", [ui EXCEPT !.revision = ui.seen], ui.compared)
  /\ UNCHANGED server

\* A version leaves the history; the draft must be the one compared with.
DeleteVersion ==
  /\ ui.dialog = "history" /\ ~ui.working /\ ui.seen # Nil
  /\ ui' = [ui EXCEPT !.working = TRUE]
  /\ Ask("forget", [ui EXCEPT !.revision = ui.seen], ui.compared)
  /\ UNCHANGED server

\* Discard, delete and import share one confirmation, which is the page's action.
ConfirmDialog ==
  /\ ui.dialog \in {"discard", "delete", "import"} /\ ~ui.busy
  /\ ui' = [ui EXCEPT !.busy = TRUE]
  /\ Ask(ui.dialog, ui, ui.draft)
  /\ UNCHANGED server

ImportObjects ==
  /\ ui.dialog = "structure" /\ ~ui.working /\ ui.seen = ui.sel
  /\ ui' = [ui EXCEPT !.working = TRUE]
  /\ Ask("structure", ui, ui.draft)
  /\ UNCHANGED server

\* Another namespace, or the same one again after an error: the selection goes.
ChooseNamespace ==
  /\ ui.dialog = "structure" /\ ~ui.working
  /\ \E s \in Choices :
       /\ s # ui.sel \/ ui.seen = Nil
       /\ ui' = [ui EXCEPT !.sel = s, !.seen = Nil, !.working = TRUE]
  /\ Ask("objects", ui', ui.draft)
  /\ UNCHANGED server

\* Preview and visibility ask for what is chosen; the preview's fields are locked
\* meanwhile, the visibility's are not.
RunPreview ==
  /\ ui.dialog = "preview" /\ ~ui.working
  /\ ui' = [ui EXCEPT !.working = TRUE, !.seen = Nil]
  /\ Ask("preview", ui, ui.draft)
  /\ UNCHANGED server

CancelPreview ==
  /\ ui.dialog = "preview" /\ ui.working
  /\ ui' = [ui EXCEPT !.working = FALSE]
  /\ calls' = Without({"preview"})
  /\ UNCHANGED server

SearchVisible ==
  /\ ui.dialog = "visibility" /\ ~ui.working
  /\ ui' = [ui EXCEPT !.working = TRUE]
  /\ Ask("visibility", ui, ui.draft)
  /\ UNCHANGED server

ChooseAgent ==
  /\ ui.dialog = "visibility" \/ (ui.dialog = "preview" /\ ~ui.working)
  /\ \E s \in Choices \ {ui.sel} : ui' = [ui EXCEPT !.sel = s, !.seen = Nil]
  /\ UNCHANGED <<server, calls>>
-----------------------------------------------------------------------------
(* The server                                                              *)

\* What each write leaves of the draft, the next revision being r.
Written(op, state, r) ==
  CASE op = "save" -> [state.draft EXCEPT !["overview"] = r]
    [] op \in {"entry", "delete", "structure"} -> [state.draft EXCEPT !["entry"] = r]
    [] op = "import" -> [p \in Parts |-> r]
    [] op \in {"discard", "restore"} -> state.published
    [] OTHER -> state.draft

Touched(op) == IF op = "entry" THEN {"entry"} ELSE Parts

\* A write is careless when a part it replaces is not the one that was on screen;
\* the server remembers it until the next answer is delivered.
Careless(c) ==
  \E p \in Touched(c.op) : c.shown[p] # server.state.draft[p]

Commit(c) ==
  LET r == server.state.revision + 1
      next == [revision |-> r, draft |-> Written(c.op, server.state, r),
               published |-> IF c.op = "publish" THEN server.state.draft
                             ELSE server.state.published]
  IN /\ c.op \in Writes /\ c.revision = server.state.revision /\ r <= MaxRevision
     /\ server' = [state |-> next,
                   careless |-> IF Careless(c) THEN c.op ELSE ""]
     /\ calls' = (calls \ {c}) \union {[c EXCEPT !.stage = "ok", !.state = next]}

Read(c) ==
  /\ c.op \notin Writes
  /\ c.op \in {"impact", "forget"} \union Trials => c.revision = server.state.revision
  /\ calls' = (calls \ {c}) \union {[c EXCEPT !.stage = "ok", !.state = server.state]}
  /\ UNCHANGED server

Serve ==
  /\ \E c \in calls : c.stage = "sent" /\ (Commit(c) \/ Read(c))
  /\ UNCHANGED ui

OtherAdministratorWrites ==
  /\ server.state.revision < MaxRevision
  /\ LET r == server.state.revision + 1 IN
       \E p \in Parts : server' = [server EXCEPT !.state.revision = r,
                                                 !.state.draft[p] = r]
  /\ UNCHANGED <<ui, calls>>
-----------------------------------------------------------------------------
(* The continuations in the browser                                        *)

\* A dialog that is gone has no busy flag left to clear.
Idle(c) == [ui EXCEPT !.working = @ /\ (c.sel = Gone \/ ui.dialog # Panel(c.op))]

\* The page's own actions; a trial reads the state again whatever came of it.
ActionEnds(c, others) ==
  /\ c.op \in {"load", "reload", "save", "export"}
  /\ LET u == [ui EXCEPT !.busy = IF c.op = "load" THEN ui.busy ELSE FALSE] IN
       IF c.stage = "ok" /\ c.op # "export"
         THEN Accept(u, c.state, others)
         ELSE ui' = u /\ calls' = others

Reread(c, op) == [Request(op, ui, ui.draft) EXCEPT !.sel = c.sel]
TrialEnds(c, others) ==
  /\ c.op \in Trials
  /\ calls' = others \union {Reread(c, IF c.op = "trial" THEN "reload" ELSE "refresh")}
  /\ UNCHANGED ui

EntrySaved(c, others) ==
  /\ c.op = "entry"
  /\ IF c.stage = "ok"
       THEN Accept([ui EXCEPT !.editing = Nil, !.saving = FALSE], c.state, others)
       ELSE ui' = [ui EXCEPT !.saving = FALSE] /\ calls' = others

DialogConfirmed(c, others) ==
  /\ c.op \in {"discard", "delete", "import", "restore", "structure"}
  /\ LET u == IF c.op \in {"restore", "structure"} THEN Idle(c)
              ELSE [ui EXCEPT !.busy = FALSE]
     IN IF c.stage = "ok" THEN Accept(Closed(u), c.state, others)
        ELSE ui' = u /\ calls' = others

PublicationEnds(c, others) ==
  /\ c.op = "publish"
  /\ IF c.stage = "ok"
       THEN calls' = others \union {Reread(c, "published")} /\ UNCHANGED ui
       ELSE ui' = Idle(c) /\ calls' = others

\* Without the new state the review shows no impact and cannot publish.
ReviewRefreshed(c, others) ==
  /\ c.op \in {"refresh", "published"}
  /\ LET u == IF c.op = "published" /\ c.stage = "ok" THEN Closed(ui) ELSE Idle(c) IN
       IF c.stage = "ok" THEN Accept(u, c.state, others)
       ELSE /\ ui' = IF c.op = "refresh" /\ c.sel # Gone
                     THEN [u EXCEPT !.seen = Nil] ELSE u
            /\ calls' = others

ImpactArrives(c, others) ==
  /\ c.op = "impact"
  /\ ui' = [ui EXCEPT !.seen = IF c.stage = "ok" THEN c.revision ELSE Nil]
  /\ calls' = others

\* inspect(): a version compared with another draft than the one on screen is
\* not shown.
DetailArrives(c, others) ==
  /\ c.op = "detail"
  /\ ui' = IF c.sel = Gone THEN ui
            ELSE IF c.stage = "ok" /\ c.state.revision = ui.revision
              THEN [ui EXCEPT !.working = FALSE, !.seen = c.state.revision,
                              !.compared = c.state.draft]
              ELSE [ui EXCEPT !.working = FALSE]
  /\ calls' = others

VersionDeleted(c, others) ==
  /\ c.op = "forget"
  /\ ui' = [Idle(c) EXCEPT !.seen = IF c.stage = "ok" /\ c.sel # Gone THEN Nil ELSE @]
  /\ calls' = others

\* seen is the choice an answer was made for; visibility may show another by then.
AnswerArrives(c, others) ==
  /\ c.op \in {"objects", "preview", "visibility"}
  /\ ui' = [ui EXCEPT !.working = FALSE, !.seen = IF c.stage = "ok" THEN c.sel ELSE Nil]
  /\ calls' = others

\* What the page hears of a request: its answer, or a conflict, another refusal
\* or no answer at all.
Heard(c) ==
  {[c EXCEPT !.stage = "refused"]} \union (IF c.stage = "sent" THEN {} ELSE {c})

Deliver ==
  /\ \E asked \in calls : \E c \in Heard(asked) :
       LET others == calls \ {asked} IN
         \/ ActionEnds(c, others) \/ TrialEnds(c, others) \/ EntrySaved(c, others)
         \/ DialogConfirmed(c, others) \/ PublicationEnds(c, others)
         \/ ReviewRefreshed(c, others) \/ ImpactArrives(c, others)
         \/ DetailArrives(c, others) \/ VersionDeleted(c, others)
         \/ AnswerArrives(c, others)
  /\ server' = [server EXCEPT !.careless = ""]

Next ==
  \/ RetryLoading \/ TypeOverview \/ RevertOverview \/ SaveOverview \/ Refresh
  \/ RunTrial \/ Export \/ EditEntry \/ CloseEditor \/ SaveEntry
  \/ (\E d \in Dialogs \ {""} : OpenDialog(d)) \/ CloseDialog \/ RepairIssue
  \/ PublishReviewed \/ TrialFromReview \/ ReloadReview \/ InspectVersion
  \/ RestoreVersion \/ DeleteVersion \/ ConfirmDialog \/ ImportObjects
  \/ ChooseNamespace \/ RunPreview \/ CancelPreview \/ SearchVisible
  \/ ChooseAgent \/ Serve \/ OtherAdministratorWrites \/ Deliver

Spec == Init /\ [][Next]_vars
-----------------------------------------------------------------------------
(* Whatever this page writes replaces only what its administrator had on   *)
(* screen, however the answers of earlier requests are ordered and however *)
(* often another administrator writes in between: every operation sends    *)
(* the revision of the state it was made from.  An open entry is excluded, *)
(* see EntryEditsPreserved.                                                *)
WritesReplaceWhatWasShown == server.careless \in {"", "entry"}

(* Saving an entry preserves a concurrent edit of it (CHANGELOG.md line 12: *)
(* "Preserve saved drafts, concurrent edits").  The form keeps the entry   *)
(* it was opened with, and is saved at the page's revision, which an       *)
(* answer that arrives while the form is open moves on.                    *)
EntryEditsPreserved == server.careless # "entry"

(* The review's publish button is ready only for the draft whose impact it *)
(* shows, and a list of objects or a preview on screen is of what is       *)
(* selected: late answers never dress up another choice.  The visibility   *)
(* search is excluded, whose Agent can be changed while it runs.           *)
AnswersMatchTheScreen ==
  /\ (ui.dialog = "review" /\ ui.seen # Nil) => ui.seen = ui.revision
  /\ (ui.dialog \in {"structure", "preview"} /\ ui.seen # Nil) => ui.seen = ui.sel
=============================================================================

--------------------------- MODULE MappingConsole ---------------------------
(***************************************************************************)
(* The ontology mapping tab of a source's semantics page                   *)
(* (web/src/OntologyMapping.tsx) with the form of one mapping              *)
(* (OntologyMappingEditor.tsx).                                            *)
(*                                                                         *)
(* The tab has the page's state and a binding of its own that starts anew  *)
(* with every state.  A binding pins a version of an ontology and has      *)
(* mappings, told apart by their concept; each is the revision that last   *)
(* changed it.  The tab and the page each have a busy flag and do not know *)
(* each other's.                                                           *)
(***************************************************************************)
EXTENDS Integers, Sequences, FiniteSets

CONSTANTS
  MaxRevision,   \* bound on the server's writes
  MaxRequests    \* bound on requests in flight

VARIABLES server, ui, calls

vars == <<server, ui, calls>>

Revisions == 0 .. MaxRevision
Concepts == {1, 2}
Pins == {"none", "unpinned", "v1", "v2"}    \* of one ontology
Mappings == [concept : Concepts, revision : Revisions]
Rows == {<<>>} \union {<<m>> : m \in Mappings} \union
        {rows \in Mappings \X Mappings : rows[1].concept # rows[2].concept}
Bindings == [pin : Pins, rows : Rows]
Unbound == [pin |-> "none", rows |-> <<>>]
States == [revision : Revisions, binding : Bindings]
Blank == [revision |-> 0, binding |-> Unbound]
\* The form: the mapping it was opened with and its index (0 is an addition).
Forms == [open : BOOLEAN, index : 0 .. 2, origin : Mappings, saving : BOOLEAN]
NoMapping == [concept |-> 1, revision |-> 0]
NoForm == [open |-> FALSE, index |-> 0, origin |-> NoMapping, saving |-> FALSE]

Ops == {"refresh", "version", "save", "row", "remove", "check", "reread", "diff"}

TypeOK ==
  /\ server \in [state : States, careless : {"", "save", "row", "remove"}]
  /\ ui \in [state : States, binding : Bindings, version : Pins, pageBusy : BOOLEAN,
             busy : BOOLEAN, dialog : {"", "diff", "remove"}, index : 0 .. 2,
             picked : Mappings, form : Forms]
  /\ calls \subseteq [op : Ops, state : States, pin : Pins, index : 0 .. 2,
                      mapping : Mappings, stage : {"sent", "ok"}]

Request(op, revision, binding) ==
  [op |-> op, stage |-> "sent", pin |-> "none", index |-> 0, mapping |-> NoMapping,
   state |-> [revision |-> revision, binding |-> binding]]
Plain(op) == Request(op, 0, Unbound)

HasRoom == Cardinality(calls) < MaxRequests
Ask(request) == HasRoom /\ calls' = calls \union {request}
Loading == \E c \in calls : c.op = "version"
Dirty == ui.binding # ui.state.binding
Free == ~ui.form.open /\ ui.dialog = ""
Bound == ui.binding.pin # "none"

\* The effect of a pin: the version shown goes, with the question still open, and
\* the version now pinned is asked for.
Pinned(u, pin, others) ==
  /\ ui' = [u EXCEPT !.version = "none"]
  /\ calls' = {c \in others : c.op # "version"} \union
              (IF pin = "none" THEN {} ELSE {[Plain("version") EXCEPT !.pin = pin]})

Rebind(u, binding, others) ==
  LET v == [u EXCEPT !.binding = binding] IN
    IF binding.pin = u.binding.pin THEN ui' = v /\ calls' = others
    ELSE Pinned(v, binding.pin, others)

Accept(u, state, others) ==
  Rebind([u EXCEPT !.state = state], state.binding, others)

Init ==
  /\ \E pin \in {"none", "v1"} :
       LET rows == IF pin = "none" THEN <<>>
                   ELSE <<[concept |-> 1, revision |-> 0], [concept |-> 2, revision |-> 0]>>
           state == [revision |-> 0, binding |-> [pin |-> pin, rows |-> rows]] IN
         /\ server = [state |-> state, careless |-> ""]
         /\ ui = [state |-> state, binding |-> state.binding, version |-> "none",
                  pageBusy |-> FALSE, busy |-> FALSE, dialog |-> "", index |-> 0,
                  picked |-> NoMapping, form |-> NoForm]
         /\ calls = IF pin = "none" THEN {} ELSE {[Plain("version") EXCEPT !.pin = pin]}
-----------------------------------------------------------------------------
(* The page around the tab and the binding                                 *)

\* The page's own refresh waits for the page and for an unsaved binding only.
Refresh ==
  /\ Free /\ ~ui.pageBusy /\ ~Dirty
  /\ ui' = [ui EXCEPT !.pageBusy = TRUE] /\ Ask(Plain("refresh")) /\ UNCHANGED server

ChooseOntology ==
  /\ Free /\ ~ui.busy
  /\ \E pin \in {"none", "unpinned"} :
       Rebind(ui, [pin |-> pin, rows |-> <<>>], calls)
  /\ UNCHANGED server

ChooseVersion ==
  /\ Free /\ ~ui.busy /\ ~Loading /\ Bound
  /\ \E pin \in {"v1", "v2"} : Rebind(ui, [ui.binding EXCEPT !.pin = pin], calls)
  /\ UNCHANGED server

Act(request) ==
  /\ ui' = [ui EXCEPT !.busy = TRUE]
  /\ Ask(request) /\ UNCHANGED server

\* The snapshot goes back whole with the binding put into it.
SaveBinding ==
  /\ Free /\ ~ui.busy /\ ~Loading /\ Dirty
  /\ Act([Request("save", ui.state.revision, ui.binding) EXCEPT !.pin = ui.state.binding.pin])

RevertBinding ==
  /\ Free /\ ~ui.busy /\ Dirty
  /\ Rebind(ui, ui.state.binding, calls) /\ UNCHANGED server

CheckStructure ==
  /\ Free /\ ~ui.busy /\ ~Loading /\ ~Dirty /\ Bound
  /\ Act(Request("check", ui.state.revision, Unbound))

CompareVersions ==
  /\ Free /\ ~ui.busy /\ ui.binding.pin \in {"v1", "v2"}
  /\ Act(Plain("diff"))
-----------------------------------------------------------------------------
(* One mapping                                                             *)

\* Rows are shown once the pinned version is known.
Shown == Free /\ ~ui.busy /\ ~Dirty /\ ui.version \in {"v1", "v2"}

OpenMapping ==
  /\ Shown
  /\ \/ \E concept \in Concepts :
          ui' = [ui EXCEPT !.form = [NoForm EXCEPT !.open = TRUE, !.origin.concept = concept]]
     \/ \E i \in DOMAIN ui.binding.rows :
          ui' = [ui EXCEPT !.form = [NoForm EXCEPT !.open = TRUE, !.index = i,
                                              !.origin = ui.binding.rows[i]]]
  /\ UNCHANGED <<server, calls>>

CloseMapping ==
  /\ ui.form.open /\ ~ui.form.saving
  /\ ui' = [ui EXCEPT !.form = NoForm] /\ UNCHANGED <<server, calls>>

Duplicate(rows, index, concept) ==
  \E i \in DOMAIN rows \ {index} : rows[i].concept = concept

\* The form's mapping takes the place of the row at the index it was opened at.
Placed(rows, index, mapping) ==
  IF index = 0 THEN Append(rows, mapping) ELSE [rows EXCEPT ![index] = mapping]

SaveMapping ==
  /\ ui.form.open /\ ~ui.form.saving /\ Bound
  /\ ~Duplicate(ui.binding.rows, ui.form.index, ui.form.origin.concept)
  /\ ui.form.index <= Len(ui.binding.rows)
  /\ ui' = [ui EXCEPT !.form.saving = TRUE]
  /\ Ask([Request("row", ui.state.revision,
                  [ui.binding EXCEPT !.rows = Placed(@, ui.form.index, ui.form.origin)])
            EXCEPT !.index = ui.form.index, !.mapping = ui.form.origin])
  /\ UNCHANGED server

AskRemove ==
  /\ Shown
  /\ \E i \in DOMAIN ui.binding.rows :
       ui' = [ui EXCEPT !.dialog = "remove", !.index = i, !.picked = ui.binding.rows[i]]
  /\ UNCHANGED <<server, calls>>

CloseDialog ==
  /\ ui.dialog # "" /\ ~ui.busy
  /\ ui' = [ui EXCEPT !.dialog = "", !.index = 0, !.picked = NoMapping]
  /\ UNCHANGED <<server, calls>>

Without(rows, index) ==
  [i \in 1 .. Len(rows) - 1 |-> IF i < index THEN rows[i] ELSE rows[i + 1]]

ConfirmRemove ==
  /\ ui.dialog = "remove" /\ ~ui.busy /\ ui.index <= Len(ui.binding.rows)
  /\ Act([Request("remove", ui.state.revision,
                  [ui.binding EXCEPT !.rows = Without(@, ui.index)])
            EXCEPT !.index = ui.index, !.mapping = ui.picked])
-----------------------------------------------------------------------------
(* The server (internal/server/semantics.go)                               *)

Answer(c, stage, state) ==
  calls' = (calls \ {c}) \union
    {[c EXCEPT !.stage = stage, !.state = state, !.mapping = NoMapping,
               !.index = 0,
               !.pin = IF c.op = "version" THEN @ ELSE "none"]}

Careless(c) ==
  LET rows == server.state.binding.rows IN
    IF c.op = "save" THEN c.pin # server.state.binding.pin
    ELSE c.index # 0 /\ (c.index > Len(rows) \/ rows[c.index] # c.mapping)

\* What a save leaves of the rows: the one the form was for is new.
Stored(c, r) ==
  IF c.op # "row" THEN c.state.binding
  ELSE LET i == IF c.index = 0 THEN Len(c.state.binding.rows) ELSE c.index IN
         [c.state.binding EXCEPT !.rows[i].revision = r]

ServeSave(c) ==
  /\ c.op \in {"save", "row", "remove"} /\ server.state.revision < MaxRevision
  /\ c.state.revision = server.state.revision
  /\ LET r == server.state.revision + 1
         next == [revision |-> r, binding |-> Stored(c, r)] IN
       /\ server' = [state |-> next, careless |-> IF Careless(c) THEN c.op ELSE ""]
       /\ Answer(c, "ok", next)

ServeRead(c) ==
  /\ c.op \notin {"save", "row", "remove"}
  /\ (c.op = "check" => c.state.revision = server.state.revision)
  /\ Answer(c, "ok", IF c.op \in {"refresh", "reread"} THEN server.state ELSE Blank)
  /\ UNCHANGED server

Serve ==
  /\ \E c \in calls : c.stage = "sent" /\ (ServeSave(c) \/ ServeRead(c))
  /\ UNCHANGED ui

\* Another administrator changes a mapping, removes the first one or pins.
OtherAdministratorWrites ==
  /\ server.state.revision < MaxRevision /\ server.state.binding.rows # <<>>
  /\ LET r == server.state.revision + 1
         binding == server.state.binding
         rows == binding.rows IN
       \E next \in {[binding EXCEPT !.rows[i].revision = r] : i \in DOMAIN rows}
                     \union {[binding EXCEPT !.rows = Without(rows, 1)],
                             [binding EXCEPT !.pin = "v2"]} :
         server' = [server EXCEPT !.state = [revision |-> r, binding |-> next]]
  /\ UNCHANGED <<ui, calls>>
-----------------------------------------------------------------------------
(* The continuations in the browser                                        *)

Ends(u, others) == ui' = u /\ calls' = others

StateArrives(c, others) ==
  /\ c.op \in {"refresh", "save", "reread", "row", "remove"}
  /\ LET u == IF c.op = "refresh" THEN [ui EXCEPT !.pageBusy = FALSE]
              ELSE IF c.op = "row" THEN [ui EXCEPT !.form.saving = FALSE]
              ELSE [ui EXCEPT !.busy = FALSE]
         v == IF c.op = "row" THEN [u EXCEPT !.form = NoForm]
              ELSE IF c.op = "remove"
                THEN [u EXCEPT !.dialog = "", !.index = 0, !.picked = NoMapping] ELSE u
     IN IF c.stage = "ok"
          THEN Accept(v, c.state, others)
          ELSE Ends(u, others)

CheckEnds(c, others) ==
  /\ c.op = "check"
  /\ IF c.stage = "ok" THEN Ends(ui, others \union {Plain("reread")})
     ELSE Ends([ui EXCEPT !.busy = FALSE], others)

VersionArrives(c, others) ==
  /\ c.op = "version"
  /\ Ends(IF c.stage = "ok" THEN [ui EXCEPT !.version = c.pin] ELSE ui, others)

DiffArrives(c, others) ==
  /\ c.op = "diff"
  /\ Ends([ui EXCEPT !.busy = FALSE, !.dialog = IF c.stage = "ok" THEN "diff" ELSE @], others)

\* What the page hears of a request: its answer, or that there will be none.
Heard(c) ==
  {[c EXCEPT !.stage = "failed"]} \union (IF c.stage = "sent" THEN {} ELSE {c})

Deliver ==
  /\ \E asked \in calls : \E c \in Heard(asked) :
       LET others == calls \ {asked} IN
         \/ StateArrives(c, others) \/ CheckEnds(c, others) \/ VersionArrives(c, others)
         \/ DiffArrives(c, others)
  /\ server' = [server EXCEPT !.careless = ""]

Next ==
  \/ Refresh \/ ChooseOntology \/ ChooseVersion \/ SaveBinding \/ RevertBinding
  \/ CheckStructure \/ CompareVersions \/ OpenMapping \/ CloseMapping \/ SaveMapping \/ AskRemove \/ CloseDialog \/ ConfirmRemove
  \/ Serve \/ OtherAdministratorWrites \/ Deliver

Spec == Init /\ [][Next]_vars
-----------------------------------------------------------------------------
(* A saved binding replaces the one it was started from, although the page *)
(* and the tab act at the same time.  Single mappings are excluded, see    *)
(* EntryEditsPreserved.                                                    *)
WritesReplaceWhatWasShown == server.careless # "save"

(* A saved mapping replaces the mapping it was opened with and a removed   *)
(* one is the one that was picked (CHANGELOG.md line 12: "Preserve saved   *)
(* drafts, concurrent edits").  Both are named by their place in the list, *)
(* which the page's refresh replaces under an open form or confirmation.   *)
EntryEditsPreserved == server.careless \notin {"row", "remove"}

(* The definitions mappings are shown and made with are those of the       *)
(* version that is pinned, however often the pin and the state change      *)
(* while a version is asked for.                                           *)
AnswersMatchTheScreen == ui.version \in {"none", ui.binding.pin}
=============================================================================

-------------------------- MODULE SettingsConsole --------------------------
(***************************************************************************)
(* The settings page (web/src/SettingsPage.tsx) with the sections that     *)
(* hold work: the administrator's own configuration token                  *)
(* (ConfigurationMCP.tsx), the administrators (Administrators.tsx), the    *)
(* audit export (AuditExport.tsx) and the password form.                   *)
(*                                                                         *)
(* A section is mounted at its first visit and stays mounted, hidden, with *)
(* what was typed and what it asked; each registers with the guard that    *)
(* section buttons and the application's links ask (canNavigate).  A       *)
(* record is its revision and one switch: the identity's token, the other  *)
(* administrator's token, the export.                                      *)
(***************************************************************************)
EXTENDS Integers, FiniteSets

CONSTANTS
  MaxWrites,     \* bound on the server's writes
  MaxRequests,   \* bound on requests in flight
  MaxMounted     \* bound on the sections mounted in one stay on the page

VARIABLES server, ui, calls

vars == <<server, ui, calls>>

Revisions == 0 .. MaxWrites
Sections == {"other", "configuration", "administrators", "audit", "security"}
SignedOut == "signedOut"     \* no section: the sign-in form has replaced the page
Loaded == {"configuration", "administrators", "audit"}    \* sections that ask the server
Records == [revision : Revisions, on : BOOLEAN]
NoRecord == [revision |-> 0, on |-> FALSE]
Ops == {"access", "accessAfter", "people", "peopleAfter", "load", "reload", "poll", "test",
        "save", "issue", "revokeMine", "edit", "new", "reset", "revokeTheirs", "password"}
Reads == {"access", "accessAfter", "people", "peopleAfter", "load", "reload", "poll"}
Secret == {"issue", "new", "reset"}    \* their answers are shown once

\* The open panel; a secret is "shown" until it is confirmed saved, then "kept".
Panels == {"", "issue", "revokeMine", "edit", "new", "reset", "revokeTheirs",
           "token", "tokenKept", "password", "passwordKept"}
Fresh == [section |-> "other", visible |-> TRUE, mounted |-> {}, known |-> {}, failed |-> {},
          busy |-> {}, panel |-> "", picked |-> 0, access |-> NoRecord, person |-> NoRecord,
          view |-> NoRecord, form |-> 0, edited |-> FALSE, typed |-> FALSE, lost |-> FALSE]

TypeOK ==
  /\ server \in [access : Records, person : Records, export : Records, careless : BOOLEAN]
  /\ ui \in [section : Sections \union {SignedOut}, visible : BOOLEAN, mounted : SUBSET Loaded,
             known : SUBSET Loaded, failed : SUBSET Loaded, busy : SUBSET Sections,
             panel : Panels, picked : Revisions, access : Records, person : Records,
             view : Records, form : Revisions, edited : BOOLEAN, typed : BOOLEAN,
             lost : BOOLEAN]
  /\ calls \subseteq [op : Ops, shown : Revisions, record : Records, gone : BOOLEAN,
                      stage : {"sent", "written", "ok"}]

Init ==
  /\ server = [access |-> NoRecord, person |-> [revision |-> 0, on |-> TRUE],
               export |-> [revision |-> 0, on |-> TRUE], careless |-> FALSE]
  /\ ui = Fresh /\ calls = {}

Request(op, shown, sent) ==
  [op |-> op, shown |-> shown, record |-> [revision |-> sent, on |-> FALSE],
   gone |-> FALSE, stage |-> "sent"]
Plain(op) == Request(op, 0, 0)
HasRoom == Cardinality(calls) < MaxRequests
Ask(request) == HasRoom /\ calls' = calls \union {request}
Idle(s) == s \notin ui.busy
Busy(u, s) == [u EXCEPT !.busy = @ \union {s}]
Done(u, s) == [u EXCEPT !.busy = @ \ {s}]
In(s) == ui.section = s
-----------------------------------------------------------------------------
(* The guard (useNavigationGuard.ts), the sections and leaving the page     *)

Work(s) ==
  \/ s \in ui.busy
  \/ s = "configuration" /\ ui.panel = "token"
  \/ s = "administrators" /\ ui.panel = "password"
  \/ s = "audit" /\ ui.edited
  \/ s = "security" /\ ui.typed

GuardIgnoresRequests == \A s \in Sections : Work(s) => s \in ui.busy
CanNavigate == \A s \in Sections : ~Work(s)

\* The effects of the audit export's section: a first load, and a poll while it
\* is exporting; both only while section and browser page are seen.
Seen(u) == u.section = "audit" /\ u.visible
Wanting(u) == Seen(u) /\ "audit" \notin u.known
Polling(u) == Seen(u) /\ "audit" \in u.known /\ u.view.on
Settle(u, others) ==
  LET wants == Wanting(u) /\ ~Wanting(ui)
      kept == {c \in others : /\ c.op = "load" => Wanting(u)
                              /\ c.op = "poll" => (Polling(u) /\ Polling(ui))} IN
    /\ ui' = IF wants THEN [u EXCEPT !.failed = @ \ {"audit"}] ELSE u
    /\ calls' = kept \union (IF wants THEN {Plain("load")} ELSE {})

\* The first visit mounts the section, which asks for what it shows.
SelectSection ==
  /\ ui.panel = "" /\ CanNavigate /\ ui.visible /\ HasRoom
  /\ \E s \in Sections \ {ui.section} :
       /\ Cardinality(ui.mounted \union ({s} \intersect Loaded)) <= MaxMounted
       /\ Settle([ui EXCEPT !.section = s, !.mounted = @ \union ({s} \intersect Loaded)],
                 calls \union
                 (IF s \in ui.mounted THEN {}
                  ELSE CASE s = "configuration" -> {Plain("access")}
                         [] s = "administrators" -> {Plain("people")}
                         [] OTHER -> {}))
  /\ UNCHANGED server

\* The browser's page is hidden or seen again; only the audit section asks.
Hide == In("audit") /\ Settle([ui EXCEPT !.visible = ~@], calls) /\ UNCHANGED server

\* Away and back: what was mounted is gone, with what it still asked.
Leave ==
  /\ CanNavigate /\ ui.visible /\ ui' = Fresh
  /\ calls' = {[c EXCEPT !.gone = TRUE] : c \in {d \in calls : d.op \in Secret}}
  /\ UNCHANGED server
-----------------------------------------------------------------------------
(* The configuration token and the administrators                           *)

Retry ==
  /\ ui.panel = "" /\ ui.section \in ui.failed \ {"audit"}
  /\ ui' = IF In("configuration") THEN [ui EXCEPT !.failed = @ \ {"configuration"}] ELSE ui
  /\ Ask(Plain(IF In("configuration") THEN "access" ELSE "people")) /\ UNCHANGED server

Open(panel, picked) ==
  /\ ui.panel = ""
  /\ ui' = [ui EXCEPT !.panel = panel, !.picked = picked] /\ UNCHANGED <<server, calls>>

OpenIssue == In("configuration") /\ "configuration" \in ui.known /\ Open("issue", 0)
OpenRevoke == In("configuration") /\ ui.access.on /\ Open("revokeMine", 0)
AddAdministrator == In("administrators") /\ Open("new", 0)
\* The row is copied into the panel; the list behind it may be read again.
OpenPerson ==
  /\ In("administrators") /\ "administrators" \in ui.known
  /\ \/ \E panel \in {"edit", "reset"} : Open(panel, ui.person.revision)
     \/ ui.person.on /\ Open("revokeTheirs", ui.person.revision)

ConfirmSaved ==
  /\ \/ ui.panel = "token" /\ ui' = [ui EXCEPT !.panel = "tokenKept"]
     \/ ui.panel = "password" /\ ui' = [ui EXCEPT !.panel = "passwordKept"]
     \/ ui.panel = "tokenKept" /\ ui' = [ui EXCEPT !.panel = "token"]
     \/ ui.panel = "passwordKept" /\ ui' = [ui EXCEPT !.panel = "password"]
  /\ UNCHANGED <<server, calls>>

ClosePanel ==
  /\ ui.panel \notin {"", "token", "password"} /\ Idle(ui.section)
  /\ ui' = [ui EXCEPT !.panel = "", !.picked = 0] /\ UNCHANGED <<server, calls>>

\* The token is issued for the identity as the page knows it now.
SubmitIssue ==
  /\ ui.panel = "issue" /\ Idle("configuration") /\ ui' = Busy(ui, "configuration")
  /\ Ask(Request("issue", ui.access.revision, ui.access.revision)) /\ UNCHANGED server

ConfirmRevoke ==
  /\ ui.panel = "revokeMine" /\ Idle("configuration") /\ ui' = Busy(ui, "configuration")
  /\ Ask(Plain("revokeMine")) /\ UNCHANGED server

SubmitTheListsRevision ==
  /\ ui.panel \in {"edit", "new", "reset", "revokeTheirs"} /\ Idle("administrators")
  /\ ui' = Busy(ui, "administrators")
  /\ Ask(IF ui.panel \in {"edit", "reset"}
           THEN Request(ui.panel, ui.picked, ui.person.revision) ELSE Plain(ui.panel))
  /\ UNCHANGED server

\* Changes and resets carry the revision of the row that was opened.
SubmitPerson ==
  /\ ui.panel \in {"edit", "new", "reset", "revokeTheirs"} /\ Idle("administrators")
  /\ ui' = Busy(ui, "administrators")
  /\ Ask(IF ui.panel \in {"edit", "reset"} THEN Request(ui.panel, ui.picked, ui.picked)
         ELSE Plain(ui.panel))
  /\ UNCHANGED server
-----------------------------------------------------------------------------
(* The audit export and the password                                        *)

Editable == In("audit") /\ "audit" \in ui.known /\ Idle("audit")

\* An edit may also restore what was saved.
EditExport ==
  /\ Editable
  /\ \E edited \in BOOLEAN :
       ui' = [ui EXCEPT !.edited = edited]
  /\ UNCHANGED <<server, calls>>

SendTest ==
  /\ Editable /\ ui' = Busy(ui, "audit")
  /\ Ask(Request("test", ui.form, ui.form)) /\ UNCHANGED server

SaveExport ==
  /\ Editable /\ ui' = Busy(ui, "audit")
  /\ Ask(Request("save", ui.form, ui.form)) /\ UNCHANGED server

\* "Discard changes" and "Reload settings" are one button.
ReloadExport ==
  /\ In("audit") /\ Idle("audit") /\ "audit" \in ui.known \union ui.failed
  /\ ui' = [Busy(ui, "audit") EXCEPT !.failed = @ \ {"audit"}]
  /\ Ask(Plain("reload")) /\ UNCHANGED server

\* Every five seconds, unless the last poll is still out.
Poll ==
  /\ Polling(ui) /\ ~\E c \in calls : c.op = "poll"
  /\ Ask(Plain("poll")) /\ UNCHANGED <<server, ui>>

TypePassword ==
  /\ In("security") /\ Idle("security")
  /\ ui' = [ui EXCEPT !.typed = ~@] /\ UNCHANGED <<server, calls>>

ChangePassword ==
  /\ In("security") /\ ui.typed /\ Idle("security") /\ ui' = Busy(ui, "security")
  /\ Ask(Plain("password")) /\ UNCHANGED server
-----------------------------------------------------------------------------
(* The server                                                               *)

Answer(c, stage, record) ==
  calls' = (calls \ {c}) \union {[c EXCEPT !.stage = stage, !.record = record, !.shown = 0]}
Writable == server.access.revision + server.person.revision + server.export.revision < MaxWrites
After(record, on) == [revision |-> record.revision + 1, on |-> on]
Fits(c, record) == Writable /\ c.record.revision = record.revision

ServeRead(c) ==
  /\ c.op \in Reads
  /\ Answer(c, "ok", CASE c.op \in {"access", "accessAfter"} -> server.access
                       [] c.op \in {"people", "peopleAfter"} -> server.person
                       [] OTHER -> server.export)
  /\ UNCHANGED server

ServeIdentity(c) ==
  \/ /\ c.op = "issue" /\ Fits(c, server.access)
     /\ server' = [server EXCEPT !.access = After(@, TRUE),
                                 !.careless = @ \/ c.shown # server.access.revision]
     /\ Answer(c, "ok", NoRecord)
  \/ /\ c.op = "revokeMine" /\ Writable
     /\ server' = [server EXCEPT !.access = After(@, FALSE)] /\ Answer(c, "ok", NoRecord)

\* A new role or a disabled account loses its token, a reset always.
ServePerson(c) ==
  \/ /\ c.op \in {"edit", "reset"} /\ Fits(c, server.person)
     /\ \E on \in IF c.op = "edit" THEN {server.person.on, FALSE} ELSE {FALSE} :
          server' = [server EXCEPT !.person = After(@, on),
                                   !.careless = @ \/ c.shown # server.person.revision]
     /\ Answer(c, "ok", NoRecord)
  \/ /\ c.op = "revokeTheirs"
     /\ server' = [server EXCEPT !.person.on = FALSE] /\ Answer(c, "ok", NoRecord)
  \/ c.op \in {"new", "password", "test"} /\ Answer(c, "ok", NoRecord) /\ UNCHANGED server

\* The settings are written under the lock and read again after it.
ServeExport(c) ==
  /\ c.op = "save" /\ Fits(c, server.export)
  /\ \E on \in BOOLEAN :
       server' = [server EXCEPT !.export = After(@, on),
                                !.careless = @ \/ c.shown # server.export.revision]
  /\ Answer(c, "written", NoRecord)

Serve ==
  /\ \E c \in calls :
       \/ /\ c.stage = "sent"
          /\ \/ ServeRead(c) \/ ServeIdentity(c) \/ ServePerson(c) \/ ServeExport(c)
       \/ c.stage = "written" /\ Answer(c, "ok", server.export) /\ UNCHANGED server
  /\ UNCHANGED ui

SomeoneElseWrites ==
  /\ Writable
  /\ \E on \in BOOLEAN :
       \/ server' = [server EXCEPT !.access = After(@, on)]
       \/ server' = [server EXCEPT !.person = After(@, on)]
       \/ server' = [server EXCEPT !.export = After(@, on)]
  /\ UNCHANGED <<ui, calls>>
-----------------------------------------------------------------------------
(* The continuations in the browser                                        *)

Known(u, s) == [u EXCEPT !.known = @ \union {s}, !.failed = @ \ {s}]
Failed(u, s) == [u EXCEPT !.failed = @ \union {s}]

AccessArrives(c, others) ==
  /\ c.op \in {"access", "accessAfter"} /\ calls' = others
  /\ LET u == IF c.op = "accessAfter" THEN Done(ui, "configuration") ELSE ui IN
       ui' = IF c.stage = "ok" THEN [u EXCEPT !.access = c.record, !.known = @ \union {"configuration"}]
             ELSE Failed(u, "configuration")

PeopleArrive(c, others) ==
  /\ c.op \in {"people", "peopleAfter"} /\ calls' = others
  /\ LET u == IF c.op = "peopleAfter" THEN Done(ui, "administrators") ELSE ui IN
       ui' = IF c.stage = "ok" THEN [Known(u, "administrators") EXCEPT !.person = c.record]
             ELSE Failed(u, "administrators")

\* The list is read again before the section is free.
TokenEnds(c, others) ==
  /\ c.op \in {"issue", "revokeMine"}
  /\ IF c.stage = "ok"
       THEN /\ ui' = [ui EXCEPT !.panel = IF c.op = "issue" THEN "token" ELSE "",
                                !.failed = @ \ {"configuration"}]
            /\ calls' = others \union {Plain("accessAfter")}
       ELSE ui' = Done(ui, "configuration") /\ calls' = others

PersonEnds(c, others) ==
  /\ c.op \in {"edit", "new", "reset", "revokeTheirs"}
  /\ IF c.stage = "ok"
       THEN /\ ui' = [ui EXCEPT !.panel = IF c.op \in Secret THEN "password" ELSE "",
                                !.picked = 0]
            /\ calls' = others \union {Plain("peopleAfter")}
       ELSE ui' = Done(ui, "administrators") /\ calls' = others

Adopt(u, record) ==
  [Known(u, "audit") EXCEPT !.view = record, !.form = record.revision, !.edited = FALSE]

ExportArrives(c, others) ==
  /\ c.op \in {"load", "reload", "save"}
  /\ LET u == IF c.op = "load" THEN ui ELSE Done(ui, "audit") IN
       IF c.stage = "ok" THEN Settle(Adopt(u, c.record), others)
       ELSE Settle(IF "audit" \in u.known THEN u ELSE Failed(u, "audit"), others)

TestArrives(c, others) ==
  /\ c.op = "test" /\ calls' = others
  /\ ui' = Done(ui, "audit")

\* A status read before the settings were saved does not undo them.
PollArrives(c, others) ==
  /\ c.op = "poll"
  /\ IF c.stage = "ok" /\ c.record.revision >= ui.view.revision
       THEN Settle([ui EXCEPT !.view = c.record], others) ELSE Settle(ui, others)

PasswordChanged(c, others) ==
  /\ c.op = "password" /\ calls' = others
  /\ ui' = [Done(ui, "security") EXCEPT !.typed = @ /\ c.stage # "ok"]

\* A page that is gone shows nothing of its answers.
NobodyListens(c, others) ==
  ui' = [ui EXCEPT !.lost = @ \/ c.stage = "ok"] /\ calls' = others

\* A 401 to any request ends the session: the shell shows the sign-in form instead of
\* the page, guard or not.  Nothing still undecided is accepted.
SessionExpired(asked) ==
  /\ ~In(SignedOut) /\ asked.stage = "sent"
  /\ ui' = [Fresh EXCEPT !.section = SignedOut, !.visible = FALSE,
                          !.lost = ui.lost \/ ui.panel \in {"token", "password"}]
  /\ calls' = {[c EXCEPT !.gone = TRUE] :
                 c \in {d \in calls : d.op \in Secret /\ d.stage # "sent"}}

\* What the page hears of a request: its answer, or that there will be none.
Heard(c) ==
  {[c EXCEPT !.stage = "failed"]} \union (IF c.stage = "sent" THEN {} ELSE {c})

Deliver ==
  /\ \E asked \in {d \in calls : d.stage # "written"} :
       \/ SessionExpired(asked)
       \/ \E c \in Heard(asked) :
            LET others == calls \ {asked} IN
              \/ c.gone /\ NobodyListens(c, others)
              \/ /\ ~c.gone
                 /\ \/ AccessArrives(c, others) \/ PeopleArrive(c, others)
                    \/ TokenEnds(c, others) \/ PersonEnds(c, others)
                    \/ ExportArrives(c, others) \/ TestArrives(c, others)
                    \/ PollArrives(c, others) \/ PasswordChanged(c, others)
  /\ UNCHANGED server

Next ==
  \/ SelectSection \/ Hide \/ Leave \/ Retry \/ OpenIssue \/ OpenRevoke \/ AddAdministrator
  \/ OpenPerson \/ ConfirmSaved \/ ClosePanel \/ SubmitIssue \/ ConfirmRevoke \/ SubmitPerson
  \/ EditExport \/ SendTest \/ SaveExport \/ ReloadExport \/ Poll \/ TypePassword
  \/ ChangePassword \/ Serve \/ SomeoneElseWrites \/ Deliver

Spec == Init /\ [][Next]_vars
-----------------------------------------------------------------------------
(* A change of an administrator, of the export or of the identity replaces *)
(* what the form was opened with, although lists and statuses are read     *)
(* again behind it.                                                        *)
WritesReplaceWhatWasShown == ~server.careless

(* A token or a temporary password that was issued is shown until it is    *)
(* confirmed saved: neither a section button nor leaving the page can      *)
(* discard it, before its answer arrives or after.  Only the end of the    *)
(* session, which a 401 to any request of the page reports, takes it away  *)
(* with the page.                                                          *)
CredentialsAreNotLost == ui.lost => ui.section = SignedOut

(* No hidden section holds unsaved edits, an unsaved credential or a       *)
(* running operation, although sections stay mounted and answers, polls    *)
(* and effects reach them.                                                 *)
HiddenSectionsHoldNoWork == \A s \in Sections \ {ui.section} : ~Work(s)

(* The delivery status shown is never of older settings than the form:     *)
(* polls, loads and saves answer in any order.                             *)
AnswersMatchTheScreen ==
  "audit" \in ui.known => ui.view.revision >= ui.form
=============================================================================

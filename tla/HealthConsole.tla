--------------------------- MODULE HealthConsole ---------------------------
(***************************************************************************)
(* The health page (web/src/Health.tsx): the overview of the sources, two  *)
(* pages of it, the schedule of the checks and the structure baseline.     *)
(*                                                                         *)
(* The first page shows one source.  Its evidence is the number of the     *)
(* check that found it and the connection it was found on; the structure   *)
(* found may differ from the baseline.  Checks run on the server one at a  *)
(* time, without the lock that writes take.                                *)
(***************************************************************************)
EXTENDS Integers, FiniteSets

CONSTANTS
  MaxChecks,     \* bound on the checks that find something
  MaxChanges,    \* bound on changes of the connection and of the schedule
  MaxRequests    \* bound on requests in flight

VARIABLES server, ui, calls

vars == <<server, ui, calls>>

Checks == 0 .. MaxChecks
Changes == 0 .. MaxChanges
\* The evidence a source has, and what a page shows of it.
Evidence == [check : Checks, connection : Changes, changed : BOOLEAN]
Copies == [check : Checks, changed : BOOLEAN]
NoCopy == [check |-> 0, changed |-> FALSE]
CopyOf(evidence) == [check |-> evidence.check, changed |-> evidence.changed]
Pages == {0, 1}
\* What running operations are told apart by; "" is the load of a page.
Loads == {"", "refresh", "retry", "checked", "accepted", "stray"}
Ops == Loads \union {"save", "check", "accept", "sources"}
\* What follows a check: the page's load and the lists of the application.
Paired == {"checked", "sources"}

TypeOK ==
  /\ server \in [connection : Changes, schedule : Changes, evidence : Evidence,
                 checking : {"no", "asked", "scheduled"}, began : Changes, careless : BOOLEAN]
  /\ ui \in [page : Pages, shown : Copies, known : BOOLEAN, loading : BOOLEAN,
             schedule : Changes, edited : BOOLEAN, busy : BOOLEAN, confirm : BOOLEAN,
             doubled : BOOLEAN, overwritten : BOOLEAN]
  /\ calls \subseteq [op : Ops, page : Pages, evidence : Copies, schedule : Changes,
                      stage : {"sent", "checking", "ok", "failed"}]

Request(op) == [op |-> op, page |-> 0, evidence |-> NoCopy, schedule |-> 0, stage |-> "sent"]
LoadOf(op) == [Request(op) EXCEPT !.page = ui.page]

Init ==
  /\ server = [connection |-> 0, schedule |-> 0,
             evidence |-> [check |-> 0, connection |-> 0, changed |-> FALSE],
             checking |-> "no", began |-> 0, careless |-> FALSE]
  /\ ui = [page |-> 0, shown |-> NoCopy, known |-> FALSE, loading |-> TRUE, schedule |-> 0,
           edited |-> FALSE, busy |-> FALSE, confirm |-> FALSE, doubled |-> FALSE,
           overwritten |-> FALSE]
  /\ calls = {Request("")}

Ask(request) == Cardinality(calls) < MaxRequests /\ calls' = calls \union {request}
Free == ui.known /\ ~ui.loading /\ ~ui.busy
Start(request) == ui' = [ui EXCEPT !.busy = TRUE] /\ Ask(request) /\ UNCHANGED server
-----------------------------------------------------------------------------
(* The page                                                                 *)

Refresh == ~ui.busy /\ ~ui.edited /\ Start(LoadOf("refresh"))

\* Shown when the first load failed, and not locked by the operation it starts.
Retry ==
  /\ ~ui.known /\ ~ui.loading
  /\ ui' = [ui EXCEPT !.doubled = @ \/ ui.busy, !.busy = TRUE]
  /\ Ask(LoadOf("retry")) /\ UNCHANGED server

TurnPage ==
  /\ Free /\ ~ui.edited
  /\ ui' = [ui EXCEPT !.page = 1 - @, !.loading = TRUE]
  /\ Ask([Request("") EXCEPT !.page = 1 - ui.page]) /\ UNCHANGED server

EditWhileBusy ==
  /\ ui.known /\ ~ui.loading /\ \E edited \in BOOLEAN : ui' = [ui EXCEPT !.edited = edited]
  /\ UNCHANGED <<server, calls>>

EditSchedule ==
  /\ Free /\ \E edited \in BOOLEAN : ui' = [ui EXCEPT !.edited = edited]
  /\ UNCHANGED <<server, calls>>

DiscardSchedule ==
  /\ Free /\ ui.edited /\ ui' = [ui EXCEPT !.edited = FALSE] /\ UNCHANGED <<server, calls>>

SaveSchedule ==
  /\ Free /\ ui.edited /\ Start([Request("save") EXCEPT !.schedule = ui.schedule])

CheckNow == Free /\ ~ui.edited /\ ui.page = 0 /\ Start(Request("check"))

\* The question stays open for whatever evidence is shown next.
AskBaseline ==
  /\ Free /\ ui.shown.changed /\ ~ui.confirm
  /\ ui' = [ui EXCEPT !.confirm = TRUE] /\ UNCHANGED <<server, calls>>

CancelBaseline ==
  /\ ui.known /\ ~ui.loading /\ ui.shown.changed /\ ui.confirm
  /\ ui' = [ui EXCEPT !.confirm = FALSE] /\ UNCHANGED <<server, calls>>

AcceptBaseline ==
  /\ Free /\ ~ui.edited /\ ui.shown.changed /\ ui.confirm
  /\ Start([Request("accept") EXCEPT !.evidence = ui.shown])
-----------------------------------------------------------------------------
(* The server (internal/server/health.go, health_check.go)                  *)

Answer(c, stage) ==
  calls' = (calls \ {c}) \union
           {[Request(c.op) EXCEPT !.stage = stage]}

Changeable == server.connection + server.schedule < MaxChanges

\* A page of the overview and the schedule are read together.
ServeLoad(c) ==
  /\ c.op \in Loads
  /\ calls' = (calls \ {c}) \union
              {[c EXCEPT !.stage = "ok", !.schedule = server.schedule,
                         !.evidence = IF c.page = 0 THEN CopyOf(server.evidence) ELSE NoCopy]}
  /\ UNCHANGED server

ServeSources(c) == c.op = "sources" /\ Answer(c, "ok") /\ UNCHANGED server

ServeSchedule(c) ==
  /\ c.op = "save" /\ c.schedule = server.schedule /\ Changeable
  /\ server' = [server EXCEPT !.schedule = @ + 1]
  /\ calls' = (calls \ {c}) \union {[c EXCEPT !.stage = "ok", !.schedule = server.schedule + 1]}

\* One check at a time; it keeps what it read and takes the lock when it is done.
BeginCheck(by) ==
  /\ server.checking = "no"
  /\ server' = [server EXCEPT !.checking = by, !.began = server.connection]

StoreEvidence ==
  /\ server.began = server.connection /\ server.evidence.check < MaxChecks
  /\ \E changed \in BOOLEAN :
       server' = [server EXCEPT
         !.checking = "no", !.began = 0,
         !.evidence = [check |-> @.check + 1, connection |-> server.began, changed |-> changed]]
GiveUp == server' = [server EXCEPT !.checking = "no", !.began = 0]

ServeCheck(c) ==
  \/ c.op = "check" /\ c.stage = "sent" /\ BeginCheck("asked") /\ Answer(c, "checking")
  \/ c.stage = "checking" /\ StoreEvidence /\ Answer(c, "ok")
  \/ c.stage = "checking" /\ GiveUp /\ Answer(c, "failed")

\* The evidence that was shown must be the stored one, found on this connection,
\* and no check may be running.
ServeBaseline(c) ==
  /\ c.op = "accept" /\ server.checking = "no"
  /\ c.evidence.check = server.evidence.check
  /\ server.evidence.connection = server.connection
  /\ server' = [server EXCEPT
       !.evidence.changed = FALSE,
       !.careless = @ \/ c.evidence.check # server.evidence.check
                      \/ server.evidence.connection # server.connection]
  /\ Answer(c, "ok")

Serve ==
  /\ \E c \in calls :
       \/ c.stage = "sent" /\ (ServeLoad(c) \/ ServeSources(c) \/ ServeSchedule(c)
                                \/ ServeBaseline(c))
       \/ ServeCheck(c)
  /\ UNCHANGED ui

\* The scheduler checks too (internal/server/health_check.go).
Scheduler ==
  /\ \/ BeginCheck("scheduled")
     \/ server.checking = "scheduled" /\ (StoreEvidence \/ GiveUp)
  /\ UNCHANGED <<ui, calls>>

SomeoneElseWrites ==
  /\ \/ Changeable /\ server' = [server EXCEPT !.connection = @ + 1]
     \/ Changeable /\ server' = [server EXCEPT !.schedule = @ + 1]
     \/ /\ server.checking = "no" /\ server.evidence.changed
        /\ server.evidence.connection = server.connection
        /\ server' = [server EXCEPT !.evidence.changed = FALSE]
  /\ UNCHANGED <<ui, calls>>
-----------------------------------------------------------------------------
(* The continuations in the browser                                        *)

Then(others, op) == calls' = others \union {LoadOf(op)}

\* Nobody waits for a stray, and both of a pair are waited for unless one fails.
Unawaited(c, others) ==
  \/ c.op = "stray"
  \/ c.op \in Paired /\ c.stage # "failed" /\ \E d \in others : d.op \in Paired
Freed(c, others) ==
  LET u == [ui EXCEPT !.doubled = @ /\ others # {}]
  IN CASE c.op = "" -> [u EXCEPT !.loading = FALSE]
       [] Unawaited(c, others) -> u
       [] OTHER -> [u EXCEPT !.busy = FALSE]

\* When one of a pair fails the page is free, and the other still comes.
Abandoned(c, others) ==
  IF c.op \in Paired /\ c.stage = "failed"
    THEN {IF d.op = "checked" THEN [d EXCEPT !.op = "stray"] ELSE d :
            d \in {e \in others : e.op # "sources"}}
    ELSE others

\* A load brings the page and the schedule, whatever the form holds.
LoadArrives(c, others) ==
  /\ c.op \in Loads /\ calls' = Abandoned(c, others)
  /\ ui' = IF c.stage = "ok"
             THEN [Freed(c, others) EXCEPT !.known = TRUE, !.shown = c.evidence,
                     !.schedule = c.schedule, !.edited = FALSE,
                     !.overwritten = ui.edited /\ ~ui.doubled /\ c.op # "stray"]
             ELSE Freed(c, others)

SourcesArrive(c, others) ==
  c.op = "sources" /\ ui' = Freed(c, others) /\ calls' = Abandoned(c, others)

SaveEnds(c, others) ==
  /\ c.op = "save" /\ calls' = others
  /\ ui' = IF c.stage = "ok" THEN [Freed(c, others) EXCEPT !.schedule = c.schedule, !.edited = FALSE]
           ELSE Freed(c, others)

CheckEnds(c, others) ==
  /\ c.op = "check"
  /\ IF c.stage = "ok"
       THEN UNCHANGED ui /\ calls' = others \union {LoadOf("checked"), Request("sources")}
       ELSE ui' = Freed(c, others) /\ calls' = others

AcceptEnds(c, others) ==
  /\ c.op = "accept"
  /\ IF c.stage = "ok"
       THEN ui' = [ui EXCEPT !.confirm = FALSE] /\ Then(others, "accepted")
       ELSE ui' = Freed(c, others) /\ calls' = others

\* What the page hears of a request: its answer, or that there will be none.
Heard(c) ==
  {[c EXCEPT !.stage = "failed"]} \union (IF c.stage = "sent" THEN {} ELSE {c})

Deliver ==
  /\ \E asked \in {d \in calls : d.stage # "checking"} : \E c \in Heard(asked) :
       LET others == calls \ {asked} IN
         \/ LoadArrives(c, others) \/ SourcesArrive(c, others) \/ SaveEnds(c, others)
         \/ CheckEnds(c, others) \/ AcceptEnds(c, others)
  /\ UNCHANGED server

Next ==
  \/ Refresh \/ Retry \/ TurnPage \/ EditSchedule \/ DiscardSchedule \/ SaveSchedule
  \/ CheckNow \/ AskBaseline \/ CancelBaseline \/ AcceptBaseline
  \/ Serve \/ Scheduler \/ SomeoneElseWrites \/ Deliver

Spec == Init /\ [][Next]_vars
-----------------------------------------------------------------------------
(* A baseline is accepted from the very evidence that was shown, found on  *)
(* the connection the source has now, while checks of others replace it.   *)
WritesReplaceWhatWasShown == ~server.careless

(* Edits of the schedule are not replaced by a load that answers late.     *)
(* There are two exceptions, where the code does replace them.  Retry is   *)
(* not locked by what runs, and the first of two operations to end frees   *)
(* the page under the other (doubled).  And the load that follows a check  *)
(* is awaited together with the application's lists (Health.tsx:286): when *)
(* the lists fail first the page is free and the load still comes (stray). *)
EditsSurviveReads == ~ui.overwritten
=============================================================================

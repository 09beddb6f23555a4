----------------------------- MODULE HomeConsole -----------------------------
(***************************************************************************)
(* The home page (web/src/Home.tsx): what needs attention, from where a    *)
(* source's health is checked, one source's readiness, and the queries     *)
(* that were last worked on.  ResumeConsole models the first of those.     *)
(*                                                                         *)
(* The references of recent queries are kept by the browser                *)
(* (web/src/query-publishing.ts), the last first; what is shown of them is *)
(* read from the server.  Each source has one query.                       *)
(***************************************************************************)
EXTENDS Integers, FiniteSets, Sequences

CONSTANTS
  MaxChecks,     \* bound on the checks of health
  MaxChanges     \* bound on the sources that are deleted

VARIABLES server, ui, calls

vars == <<server, ui, calls>>

Sources == {1, 2}       \* in the order of the page
Nil == 0
Checks == 0 .. MaxChecks
Panels == {"unread", "failed", "shown"}

TypeOK ==
  /\ server \in [stored : SUBSET Sources, check : Checks]
  \* health: the last check that the health shown knows of; -1 when none is shown.
  \* fresh: the last check that was asked for here and answered.
  /\ ui \in [home : BOOLEAN, journeys : {<<>>, <<1>>, <<2>>, <<1, 2>>, <<2, 1>>},
             sources : SUBSET Sources, selected : Sources \union {Nil},
             health : Checks \union {-1}, failed : BOOLEAN, checking : BOOLEAN, fresh : Checks,
             overview : Panels, recent : Panels]
  /\ calls \subseteq [op : {"health", "check", "reload", "overview", "recent"},
                      source : Sources \union {Nil}, check : Checks, stored : SUBSET Sources,
                      stage : {"sent", "ok", "failed"}]

Read(op, source) ==
  [op |-> op, source |-> source, check |-> 0, stored |-> {}, stage |-> "sent"]
Of(op) == {c \in calls : c.op = op}

\* savedJourneys(), of the sources there are; the first is resumed, the others listed.
Journeys(u) == SelectSeq(u.journeys, LAMBDA s : s \in u.sources)
Resumed(u) == IF Journeys(u) = <<>> THEN Nil ELSE Head(Journeys(u))
Recent(u) == IF Len(Journeys(u)) < 2 THEN Nil ELSE Journeys(u)[2]
\* The source of the overview.
Source(u) ==
  CASE u.selected \in u.sources -> u.selected
    [] u.sources = {} -> Nil
    [] OTHER -> CHOOSE s \in u.sources : \A r \in u.sources : s <= r
\* rememberJourney(): the last comes first, and once.
Remember(journeys, s) == <<s>> \o SelectSeq(journeys, LAMBDA r : r # s)

Begin(op, source) == IF source = Nil THEN {} ELSE {Read(op, source)}
Mount(u) ==
  [u EXCEPT !.home = TRUE, !.selected = Resumed(u), !.health = -1, !.failed = FALSE,
            !.fresh = 0, !.overview = "unread", !.recent = "unread"]
FirstReads(u) ==
  {Read("health", Nil)} \union Begin("recent", Recent(u)) \union Begin("overview", Source(u))

Init ==
  /\ server = [stored |-> Sources, check |-> 0]
  /\ \E journeys \in {<<>>, <<1, 2>>} :
       LET u == Mount([home |-> TRUE, journeys |-> journeys, sources |-> Sources,
                       selected |-> Nil, health |-> -1, failed |-> FALSE, checking |-> FALSE,
                       fresh |-> 0, overview |-> "unread", recent |-> "unread"])
       IN ui = u /\ calls = FirstReads(u)

\* The page as it becomes: a panel of another source is read anew.
Shows(u, rest) ==
  LET moved == (IF Recent(u) # Recent(ui) THEN {"recent"} ELSE {})
               \union (IF Source(u) # Source(ui) THEN {"overview"} ELSE {})
      reads == Begin("recent", Recent(u)) \union Begin("overview", Source(u))
  IN /\ ui' = [u EXCEPT !.recent = IF "recent" \in moved THEN "unread" ELSE @,
                        !.overview = IF "overview" \in moved THEN "unread" ELSE @]
     /\ calls' = {c \in rest : c.op \notin moved} \union {c \in reads : c.op \in moved}
-----------------------------------------------------------------------------
(* What needs attention                                                    *)

\* The read of the health in flight is aborted by the next.
ReadHealth(all) == (all \ Of("health")) \union {Read("health", Nil)}

Refresh ==
  /\ ui.home /\ ui' = [ui EXCEPT !.failed = FALSE] /\ calls' = ReadHealth(calls)
  /\ UNCHANGED server

\* checkSource(): while it runs the page is not left.
CheckNow ==
  /\ ui.home /\ ui.health # -1 /\ ~ui.checking
  /\ \E s \in Sources :
       /\ ui' = [ui EXCEPT !.checking = TRUE, !.failed = FALSE]
       /\ calls' = calls \union {Read("check", s)}
  /\ UNCHANGED server
-----------------------------------------------------------------------------
(* The other panels                                                        *)

SelectSource ==
  /\ ui.home /\ \E s \in ui.sources : Shows([ui EXCEPT !.selected = s], calls)
  /\ UNCHANGED server

RetryOverview ==
  /\ ui.home /\ ui.overview = "failed"
  /\ ui' = [ui EXCEPT !.overview = "unread"]
  /\ calls' = calls \union Begin("overview", Source(ui)) /\ UNCHANGED server

RetryRecent ==
  /\ ui.home /\ ui.recent = "failed" /\ Recent(ui) # Nil
  /\ ui' = [ui EXCEPT !.recent = "unread"]
  /\ calls' = calls \union Begin("recent", Recent(ui)) /\ UNCHANGED server

\* The workspace of a query remembers it.
OpenQuery ==
  /\ ui.home /\ ~ui.checking
  /\ \E s \in ui.sources :
       ui' = [Mount(ui) EXCEPT !.home = FALSE, !.journeys = Remember(@, s), !.selected = Nil]
  /\ calls' = {} /\ UNCHANGED server

\* Other pages read the sources again.
ReturnHome ==
  /\ ~ui.home
  /\ \E sources \in {ui.sources, server.stored} :
       LET u == Mount([ui EXCEPT !.sources = sources])
       IN ui' = u /\ calls' = FirstReads(u)
  /\ UNCHANGED server
-----------------------------------------------------------------------------
(* The server (internal/server/health.go, sources.go)                      *)

ServeRead(c) ==
  /\ c.op # "check"
  /\ c.source = Nil \/ c.source \in server.stored
  /\ calls' = (calls \ {c}) \union
       {[c EXCEPT !.stage = "ok",
           !.check = IF c.op = "health" THEN server.check ELSE 0,
           !.stored = IF c.op = "reload" THEN server.stored ELSE {}]}
  /\ UNCHANGED server

\* The answer may be lost although the check was made.
ServeCheck(c) ==
  /\ c.op = "check" /\ c.source \in server.stored /\ server.check < MaxChecks
  /\ server' = [server EXCEPT !.check = @ + 1]
  /\ \E stage \in {"ok", "failed"} :
       calls' = (calls \ {c}) \union {[c EXCEPT !.stage = stage, !.check = server.check + 1]}

Serve ==
  /\ \E c \in calls : c.stage = "sent" /\ (ServeRead(c) \/ ServeCheck(c))
  /\ UNCHANGED ui

\* By another administrator.
SourceDeleted ==
  /\ Cardinality(Sources \ server.stored) < MaxChanges
  /\ \E s \in server.stored : server' = [server EXCEPT !.stored = @ \ {s}]
  /\ UNCHANGED <<ui, calls>>
-----------------------------------------------------------------------------
(* The answers                                                             *)

HealthArrives(c, others) ==
  /\ c.op = "health"
  /\ ui' = IF c.stage = "ok" THEN [ui EXCEPT !.health = c.check]
           ELSE [ui EXCEPT !.health = -1, !.failed = TRUE]
  /\ calls' = others

CheckFails(c, others) ==
  /\ c.op \in {"check", "reload"} /\ c.stage = "failed"
  /\ ui' = [ui EXCEPT !.failed = TRUE, !.checking = FALSE] /\ calls' = others

\* The sources are read after the check, and the health after the sources.
CheckArrives(c, others) ==
  /\ c.op = "check" /\ c.stage = "ok"
  /\ ui' = [ui EXCEPT !.fresh = c.check]
  /\ calls' = others \union {Read("reload", Nil)}

ReloadArrives(c, others) ==
  /\ c.op = "reload" /\ c.stage = "ok"
  /\ Shows([ui EXCEPT !.sources = c.stored, !.failed = FALSE, !.checking = FALSE],
           ReadHealth(others))

PanelArrives(c, others) ==
  /\ c.op \in {"overview", "recent"}
  /\ LET panel == IF c.stage = "ok" THEN "shown" ELSE "failed"
     IN ui' = IF c.op = "overview" THEN [ui EXCEPT !.overview = panel]
              ELSE [ui EXCEPT !.recent = panel]
  /\ calls' = others

\* What the page hears of a request: its answer, or that there will be none.
Heard(c) ==
  {[c EXCEPT !.stage = "failed"]} \union (IF c.stage = "sent" THEN {} ELSE {c})

Deliver ==
  /\ \E asked \in calls : \E c \in Heard(asked) :
       LET others == calls \ {asked} IN
         \/ HealthArrives(c, others) \/ CheckFails(c, others) \/ CheckArrives(c, others)
         \/ ReloadArrives(c, others) \/ PanelArrives(c, others)
  /\ UNCHANGED server

Next ==
  \/ Refresh \/ CheckNow \/ SelectSource \/ RetryOverview \/ RetryRecent
  \/ OpenQuery \/ ReturnHome \/ Serve \/ SourceDeleted \/ Deliver

Spec == Init /\ [][Next]_vars
-----------------------------------------------------------------------------
Reading(op) == Of(op) # {}

(* When a check that was asked for here has ended and the health is not    *)
(* being read, the health shown knows of the check, whatever was refreshed *)
(* meanwhile; and a panel that says "Loading" is being read, of the source *)
(* it is for.                                                              *)
AnswersMatchTheScreen ==
  ui.home =>
    /\ (ui.health # -1 /\ ~ui.failed /\ ~ui.checking /\ ~Reading("health")) =>
         ui.health >= ui.fresh
    /\ (ui.health = -1 /\ ~ui.failed) => Reading("health")
    /\ (ui.overview = "unread" /\ Source(ui) # Nil) => Reading("overview")
    /\ (ui.recent = "unread" /\ Recent(ui) # Nil) => Reading("recent")
    /\ \A c \in Of("overview") : c.source = Source(ui)
    /\ \A c \in Of("recent") : c.source = Recent(ui)
=============================================================================

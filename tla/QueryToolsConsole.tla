-------------------------- MODULE QueryToolsConsole -------------------------
(***************************************************************************)
(* The page that drafts, tries and publishes one query and waits for an    *)
(* Agent's first call of it (web/src/QueryPublishing.tsx with its editor,  *)
(* client setup, readiness and waitForClientCall).                         *)
(*                                                                         *)
(* The page joins three things read at different times: the source's       *)
(* semantic state, the readiness of this query for the selected Agent, and *)
(* a form opened from an earlier state.  An entry is the revision that     *)
(* last changed it.  Publishing by itself is the review of                 *)
(* SemanticsConsole.                                                       *)
(***************************************************************************)
EXTENDS Integers, FiniteSets

CONSTANTS
  MaxRevision,   \* bound on the server's writes
  MaxRequests,   \* bound on requests in flight
  MaxCalls       \* bound on the calls Agents make

VARIABLES server, ui, calls

vars == <<server, ui, calls>>

Nil == -1
Revisions == 0 .. MaxRevision
Agents == {1, 2}
\* What a state answer tells of the query; and what a readiness answer does.
Views == [revision : Revisions, entry : Revisions, published : Revisions]
Evidence == [key : Revisions \union {Nil}, agent : Agents, version : Revisions,
             called : BOOLEAN]
NoEvidence == [key |-> Nil, agent |-> 1, version |-> 0, called |-> FALSE]
Forms == [open : BOOLEAN, entry : Revisions, expected : Revisions, conflict : BOOLEAN,
          latest : Revisions \union {Nil}, latestEntry : Revisions, saving : BOOLEAN]
NoForm == [open |-> FALSE, entry |-> 0, expected |-> 0, conflict |-> FALSE,
           latest |-> Nil, latestEntry |-> 0, saving |-> FALSE]

Ops == {"load", "refresh", "reread", "ready", "trial", "save", "latest", "publish", "poll"}
Requests == [op : Ops, revision : Revisions, entry : Revisions, agent : Agents,
             stage : {"sent", "ok", "conflict"}, view : Views,
             evidence : Evidence]

TypeOK ==
  /\ server \in [view : Views, tried : BOOLEAN, called : SUBSET (Agents \X Revisions),
                 careless : BOOLEAN]
  /\ ui \in [loaded : BOOLEAN, view : Views, agent : Agents, ready : Evidence,
             form : Forms, busy : BOOLEAN, reviewing : BOOLEAN,
             waiting : BOOLEAN]
  /\ calls \subseteq Requests

Blank == [revision |-> 0, entry |-> 0, published |-> 0]
Fresh == [loaded |-> FALSE, view |-> Blank, agent |-> 1, ready |-> NoEvidence,
          form |-> NoForm, busy |-> FALSE, reviewing |-> FALSE, waiting |-> FALSE]

Request(op, u, revision, entry) ==
  [op |-> op, revision |-> revision, entry |-> entry, agent |-> u.agent,
   stage |-> "sent", view |-> Blank, evidence |-> NoEvidence]
Plain(op, u) == Request(op, u, u.view.revision, u.view.entry)
Read(op) == Request(op, Fresh, 0, 0)
Readiness(u) == Request("ready", u, u.view.revision, 0)

\* A query that is published as drafted, or one that was saved twice and never tried.
Init ==
  /\ \E p \in {0, 1} :
       server = [view |-> [revision |-> 2 - p, entry |-> 2 - p, published |-> p],
                 tried |-> p = 1, called |-> {}, careless |-> FALSE]
  /\ ui = Fresh /\ calls = {Read("load")}

HasRoom == Cardinality(calls) < MaxRequests
Ask(request) == HasRoom /\ calls' = calls \union {request}

(* useReadiness asks again for every new state, Agent or refresh and drops *)
(* the question before; what it holds counts only under its own key.       *)
Ready(u) == IF u.ready.key = u.view.revision /\ u.ready.agent = u.agent
              THEN u.ready ELSE NoEvidence
Confirmed(u) == LET r == Ready(u) IN r.called /\ r.version = u.view.published

\* Waiting is of one Agent and one published version: another remounts it.
Follow(u, others) ==
  /\ ui' = IF u.agent = ui.agent /\ u.view.published = ui.view.published THEN u
           ELSE [u EXCEPT !.waiting = FALSE]
  /\ calls' = {c \in others : c.op \notin {"ready"} \union
                 (IF ui'.waiting THEN {} ELSE {"poll"})}
              \union {Readiness(u)}

NewState(u, view, others) ==
  Follow([u EXCEPT !.loaded = TRUE, !.view = view], others)
-----------------------------------------------------------------------------
(* What the administrator does                                             *)

ReloadDraft ==
  /\ ~ui.loaded /\ calls = {} /\ ~ui.form.open
  /\ Ask(Read("load")) /\ UNCHANGED <<server, ui>>

RefreshEvidence ==
  /\ ~ui.form.open /\ ~ui.busy
  /\ ui' = [ui EXCEPT !.busy = TRUE, !.waiting = FALSE]
  /\ HasRoom
  /\ calls' = {c \in calls : c.op # "poll"} \union {Read("refresh")}
  /\ UNCHANGED server

ChooseAgent ==
  /\ ui.loaded /\ ~ui.busy /\ ~ui.form.open
  /\ \E a \in Agents \ {ui.agent} : Follow([ui EXCEPT !.agent = a], calls)
  /\ UNCHANGED server

\* The form remembers the revision its entry was opened at.
OpenEditor ==
  /\ ui.loaded /\ ~ui.busy /\ ~ui.form.open
  /\ ui' = [ui EXCEPT !.reviewing = FALSE,
                      !.waiting = FALSE,
                      !.form = [NoForm EXCEPT !.open = TRUE, !.entry = ui.view.entry,
                                                 !.expected = ui.view.revision]]
  /\ calls' = {c \in calls : c.op # "poll"}
  /\ UNCHANGED server

Editing == ui.form.open /\ ~ui.form.saving

CancelEditing ==
  /\ Editing
  /\ ui' = [ui EXCEPT !.form = NoForm]
  /\ UNCHANGED <<server, calls>>

SaveDraft ==
  /\ Editing /\ ~ui.form.conflict
  /\ ui' = [ui EXCEPT !.form.saving = TRUE]
  /\ Ask(Request("save", ui, ui.form.expected, ui.form.entry))
  /\ UNCHANGED server

\* After a conflict: read the server's entry, and only then adopt its revision.
ReviewServerEntry ==
  /\ Editing /\ ui.form.conflict
  /\ ui' = [ui EXCEPT !.form.saving = TRUE]
  /\ Ask(Read("latest"))
  /\ UNCHANGED server

KeepMyEdits ==
  /\ ui.form.open /\ ui.form.conflict /\ ui.form.latest # Nil
  /\ ui' = [ui EXCEPT !.form.expected = ui.form.latest, !.form.conflict = FALSE,
                      !.form.entry = ui.form.latestEntry, !.form.latest = Nil,
                      !.form.latestEntry = 0]
  /\ UNCHANGED <<server, calls>>

RunChecks ==
  /\ ui.loaded /\ ~ui.form.open /\ ~ui.busy
  /\ ui' = [ui EXCEPT !.busy = TRUE, !.reviewing = FALSE,
                      !.waiting = FALSE]
  /\ HasRoom
  /\ calls' = {c \in calls : c.op # "poll"} \union {Plain("trial", ui)}
  /\ UNCHANGED server

OpenReview ==
  /\ ui.loaded /\ ~ui.form.open /\ ~ui.busy /\ ~ui.reviewing
  /\ ui' = [ui EXCEPT !.reviewing = TRUE,
                      !.waiting = FALSE]
  /\ calls' = {c \in calls : c.op # "poll"}
  /\ UNCHANGED server

CloseReview ==
  /\ ui.reviewing /\ ~ui.busy
  /\ ui' = [ui EXCEPT !.reviewing = FALSE]
  /\ UNCHANGED <<server, calls>>

Publish ==
  /\ ui.reviewing /\ ~ui.busy
  /\ ui' = [ui EXCEPT !.busy = TRUE]
  /\ Ask(Plain("publish", ui))
  /\ UNCHANGED server

\* Waiting needs an executable publication and nothing else open or running.
WaitForCall ==
  /\ ui.loaded /\ ~ui.form.open /\ ~ui.busy /\ ~ui.reviewing
  /\ ~ui.waiting /\ ~Confirmed(ui)
  /\ Ready(ui).key # Nil /\ Ready(ui).version # 0
  /\ ui' = [ui EXCEPT !.waiting = TRUE]
  /\ Ask(Request("poll", ui, 0, ui.view.published))
  /\ UNCHANGED server

\* Stopped by the button, by hiding the browser's page, or by the deadline, which
\* aborts the request in flight or the pause between two.
StopWaiting ==
  /\ ui.waiting
  /\ ui' = [ui EXCEPT !.waiting = FALSE]
  /\ calls' = {c \in calls : c.op # "poll"}
  /\ UNCHANGED server
-----------------------------------------------------------------------------
(* The server                                                              *)

EvidenceOf(c) == [key |-> c.revision, agent |-> c.agent,
                  version |-> server.view.published,
                  called |-> <<c.agent, server.view.published>> \in server.called]

\* Of a request answered, only a poll is asked again.
Answer(c, stage, view, evidence) ==
  calls' = (calls \ {c}) \union
       {[IF c.op = "poll" THEN c ELSE Read(c.op) EXCEPT
           !.stage = stage, !.view = view, !.evidence = evidence]}

ServeRead(c) ==
  /\ \/ /\ c.op \in {"load", "refresh", "reread", "latest"}
        /\ Answer(c, "ok", server.view, NoEvidence)
     \/ c.op \in {"ready", "poll"} /\ Answer(c, "ok", Blank, EvidenceOf(c))
  /\ UNCHANGED server

Bump(view) == [view EXCEPT !.revision = @ + 1]

ServeSave(c) ==
  /\ c.op = "save" /\ c.revision = server.view.revision
  /\ c.revision < MaxRevision
  /\ LET next == [Bump(server.view) EXCEPT !.entry = c.revision + 1] IN
       /\ server' = [server EXCEPT !.view = next, !.tried = FALSE,
                                   !.careless = @ \/ c.entry # server.view.entry]
       /\ Answer(c, "ok", next, NoEvidence)

\* A trial proves the draft of the revision it names.
ServeTrial(c) ==
  /\ c.op = "trial" /\ c.revision = server.view.revision
  /\ server' = [server EXCEPT !.tried = TRUE]
  /\ Answer(c, "ok", Blank, NoEvidence)

ServePublish(c) ==
  /\ c.op = "publish" /\ c.revision = server.view.revision
  /\ c.revision < MaxRevision /\ server.tried
  /\ LET next == [Bump(server.view) EXCEPT !.published = server.view.entry] IN
       /\ server' = [server EXCEPT !.view = next,
                                   !.careless = @ \/ c.entry # server.view.entry]
       /\ Answer(c, "ok", next, NoEvidence)

Refuse(c) ==
  /\ c.op \in {"save", "trial", "publish"} /\ c.revision # server.view.revision
  /\ Answer(c, "conflict", Blank, NoEvidence)
  /\ UNCHANGED server

Serve ==
  /\ \E c \in calls : /\ c.stage = "sent"
                      /\ \/ ServeRead(c) \/ ServeSave(c) \/ ServeTrial(c)
                         \/ ServePublish(c) \/ Refuse(c)
  /\ UNCHANGED ui

OtherAdministratorWrites ==
  /\ server.view.revision < MaxRevision
  /\ LET next == Bump(server.view) IN
       \/ server' = [server EXCEPT !.view = next]
       \/ server' = [server EXCEPT !.view = [next EXCEPT !.entry = next.revision], !.tried = FALSE]
       \/ server' = [server EXCEPT !.view = [next EXCEPT !.published = next.entry], !.tried = TRUE]
  /\ UNCHANGED <<ui, calls>>

AgentCalls ==
  /\ server.view.published # 0 /\ Cardinality(server.called) < MaxCalls
  /\ \E a \in Agents : /\ <<a, server.view.published>> \notin server.called
                       /\ server' = [server EXCEPT !.called =
                                       @ \union {<<a, server.view.published>>}]
  /\ UNCHANGED <<ui, calls>>
-----------------------------------------------------------------------------
(* The continuations in the browser                                        *)

StateArrives(c, others) ==
  /\ c.op \in {"load", "refresh", "reread"}
  /\ LET u == [ui EXCEPT !.busy = @ /\ c.op = "load"] IN
       CASE c.stage = "ok" -> NewState(u, c.view, others)
         [] c.stage # "ok" /\ c.op = "reread" ->
              ui' = [u EXCEPT !.loaded = FALSE] /\ calls' = {d \in others : d.op # "ready"}
         [] OTHER -> ui' = u /\ calls' = others

\* Whatever came of a trial, the state is read again; unread, there is none.
TrialEnds(c, others) ==
  /\ c.op = "trial"
  /\ calls' = others \union {Read("reread")}
  /\ UNCHANGED ui

SaveEnds(c, others) ==
  /\ c.op = "save"
  /\ IF c.stage = "ok"
       THEN NewState([ui EXCEPT !.form = NoForm], c.view, others)
       ELSE /\ ui' = [ui EXCEPT !.form.saving = FALSE,
                                !.form.conflict = (c.stage = "conflict")]
            /\ calls' = others

LatestArrives(c, others) ==
  /\ c.op = "latest"
  /\ ui' = IF c.stage = "ok"
             THEN [ui EXCEPT !.form.saving = FALSE, !.form.latest = c.view.revision,
                             !.form.latestEntry = c.view.entry]
             ELSE [ui EXCEPT !.form.saving = FALSE]
  /\ calls' = others

PublicationEnds(c, others) ==
  /\ c.op = "publish"
  /\ IF c.stage = "ok"
       THEN NewState([ui EXCEPT !.busy = FALSE, !.reviewing = FALSE], c.view, others)
       ELSE ui' = [ui EXCEPT !.busy = FALSE] /\ calls' = others

KeyedByTheScreen(c, others) ==
  /\ c.op = "ready"
  /\ ui' = [ui EXCEPT !.ready = IF c.stage = "ok"
                                  THEN [c.evidence EXCEPT !.version = ui.view.published]
                                  ELSE NoEvidence]
  /\ calls' = others

\* The snapshot is kept with the key of the question.
ReadinessArrives(c, others) ==
  /\ c.op = "ready"
  /\ ui' = [ui EXCEPT !.ready = IF c.stage = "ok" THEN c.evidence ELSE NoEvidence]
  /\ calls' = others

\* One poll of waitForClientCall: settled, or asked again after the pause.
PollArrives(c, others) ==
  /\ c.op = "poll"
  /\ LET e == c.evidence IN
       CASE c.stage # "ok" ->
              ui' = [ui EXCEPT !.waiting = FALSE] /\ calls' = others
         [] c.stage = "ok" /\ e.version # c.entry ->
              /\ ui' = [ui EXCEPT !.waiting = FALSE, !.busy = TRUE]
              /\ calls' = others \union {Read("refresh")}
         [] c.stage = "ok" /\ e.version = c.entry /\ e.called ->
              Follow([ui EXCEPT !.waiting = FALSE], others)
         [] OTHER ->
              UNCHANGED ui /\ calls' = others \union
                                       {Request("poll", ui, 0, c.entry)}

\* What the page hears of a request: its answer, a conflict, or neither.
Heard(c) ==
  {[c EXCEPT !.stage = "failed"]} \union (IF c.stage = "sent" THEN {} ELSE {c})

Deliver ==
  /\ \E asked \in calls : \E c \in Heard(asked) :
       LET others == calls \ {asked} IN
         \/ StateArrives(c, others) \/ TrialEnds(c, others) \/ SaveEnds(c, others) \/ LatestArrives(c, others)
         \/ PublicationEnds(c, others) \/ ReadinessArrives(c, others) \/ PollArrives(c, others)
  /\ UNCHANGED server

Next ==
  \/ ReloadDraft \/ RefreshEvidence \/ ChooseAgent \/ OpenEditor \/ CancelEditing
  \/ SaveDraft \/ ReviewServerEntry \/ KeepMyEdits \/ RunChecks \/ OpenReview
  \/ CloseReview \/ Publish \/ WaitForCall \/ StopWaiting \/ Serve
  \/ OtherAdministratorWrites \/ AgentCalls \/ Deliver

Spec == Init /\ [][Next]_vars
-----------------------------------------------------------------------------
(* A save replaces the entry its form was opened from, or the one read and *)
(* shown after a conflict; a publication takes the draft on screen         *)
(* (QueryDraftEditor.tsx, expected; docs/query-publishing.md).             *)
WritesReplaceWhatWasShown == ~server.careless

(* The page says "Client call confirmed" only where the selected Agent has *)
(* called the published version on screen, although state, readiness and   *)
(* polls arrive in any order and publications replace the version in       *)
(* between (QueryPublishing.tsx, confirmed; readiness.ts).                 *)
ConfirmationIsEarned ==
  (ui.loaded /\ Confirmed(ui)) => <<ui.agent, ui.view.published>> \in server.called

(* Waiting is always for what is on screen: the poll in flight asks about  *)
(* the selected Agent and the published version shown, and there is one.   *)
WaitsForWhatIsShown ==
  \A c \in calls : c.op = "poll" =>
    /\ ui.waiting /\ c.agent = ui.agent /\ c.entry = ui.view.published
    /\ \A d \in calls : d.op = "poll" => d = c
=============================================================================

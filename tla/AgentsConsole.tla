---------------------------- MODULE AgentsConsole ----------------------------
(***************************************************************************)
(* The Agents page (web/src/Agents.tsx, AgentEditor.tsx,                   *)
(* AgentConnection.tsx): the rows, the editor of grants, the question      *)
(* before a credential is revoked or replaced, and the panel that shows a  *)
(* new token once.                                                         *)
(*                                                                         *)
(* The panels are modal: while one is open the rows cannot be reached.  A  *)
(* token is the Agent it was issued to and its number among the tokens.    *)
(***************************************************************************)
EXTENDS Integers, FiniteSets

CONSTANTS
  Agents,        \* Agents there are or may be created
  Initial,       \* those there are at the start
  MaxRevision,   \* bound on the revisions of an Agent
  MaxRequests    \* bound on requests in flight

VARIABLES server, ui, calls

vars == <<server, ui, calls>>

Nobody == "nobody"
\* Revision 0 is an Agent there is not.
Copies == [revision : 0 .. MaxRevision, enabled : BOOLEAN, revoked : BOOLEAN]
Absent == [revision |-> 0, enabled |-> FALSE, revoked |-> FALSE]
Created == [revision |-> 1, enabled |-> TRUE, revoked |-> FALSE]
Tokens == [agent : Agents \union {Nobody}, number : 0 .. MaxRevision]
NoToken == [agent |-> Nobody, number |-> 0]
\* The loads of all Agents are told apart by what they follow.
Loads == {"refresh", "activity", "pause", "revoke", "issued", "updated", "conflict"}
Writes == {"pause", "revoke", "rotate", "edit", "create"}

TypeOK ==
  /\ server \in [agents : [Agents -> Copies], careless : BOOLEAN]
  /\ ui \in [rows : [Agents -> Copies], busy : BOOLEAN, saving : BOOLEAN, conflict : BOOLEAN,
             panel : {"", "editor", "connection", "revoke", "rotate"},
             agent : Agents \union {Nobody}, copy : Copies, token : Tokens, saved : BOOLEAN,
             lost : BOOLEAN, left : BOOLEAN]
  /\ calls \subseteq [op : {"load", "write"}, of : Loads \union Writes,
                      agent : Agents \union {Nobody}, copy : Copies, shown : 0 .. MaxRevision,
                      rows : [Agents -> Copies], stage : {"sent", "ok", "conflict"}]

Request(op, of) == [op |-> op, of |-> of, agent |-> Nobody, copy |-> Absent, shown |-> 0,
                    rows |-> [a \in Agents |-> Absent], stage |-> "sent"]

Fresh == [rows |-> [a \in Agents |-> Absent], busy |-> FALSE, saving |-> FALSE,
          conflict |-> FALSE, panel |-> "", agent |-> Nobody, copy |-> Absent,
          token |-> NoToken, saved |-> FALSE, lost |-> FALSE, left |-> FALSE]

Init ==
  /\ server = [agents |-> [a \in Agents |-> IF a \in Initial THEN Created ELSE Absent],
             careless |-> FALSE]
  /\ ui = [Fresh EXCEPT !.rows = server.agents]
  /\ calls = {}

Ask(request) == Cardinality(calls) < MaxRequests /\ calls' = calls \union {request}
\* A write carries the revision of the copy that was on screen.
Write(of) ==
  [Request("write", of) EXCEPT !.agent = ui.agent, !.copy = ui.copy, !.shown = ui.copy.revision]
Closed(page) == [page EXCEPT !.panel = "", !.agent = Nobody, !.copy = Absent, !.conflict = FALSE]
OnThePage == ui.panel = "" /\ ~ui.left
Shown(a) == OnThePage /\ ui.rows[a].revision # 0
-----------------------------------------------------------------------------
(* The rows                                                                 *)

Refresh ==
  /\ OnThePage /\ ~ui.busy /\ Ask(Request("load", "refresh")) /\ UNCHANGED <<server, ui>>

Pause ==
  /\ ~ui.busy
  /\ \E a \in Agents :
       /\ Shown(a) /\ ~ui.rows[a].revoked
       /\ ui' = [ui EXCEPT !.busy = TRUE]
       /\ Ask([Request("write", "pause") EXCEPT
                 !.agent = a, !.copy = [ui.rows[a] EXCEPT !.enabled = ~@],
                 !.shown = ui.rows[a].revision])
  /\ UNCHANGED server

Connect ==
  /\ \E a \in Agents :
       Shown(a) /\ ui' = [ui EXCEPT !.panel = "connection", !.agent = a, !.token = NoToken]
  /\ UNCHANGED <<server, calls>>

OpenEditor ==
  /\ OnThePage
  /\ \/ ui' = [ui EXCEPT !.panel = "editor"]
     \/ \E a \in Agents :
          Shown(a) /\ ui' = [ui EXCEPT !.panel = "editor", !.agent = a, !.copy = ui.rows[a]]
  /\ UNCHANGED <<server, calls>>

OpenConfirmation ==
  /\ \E a \in Agents, action \in {"revoke", "rotate"} :
       /\ Shown(a) /\ (action = "revoke" => ~ui.rows[a].revoked)
       /\ ui' = [ui EXCEPT !.panel = action, !.agent = a]
  /\ UNCHANGED <<server, calls>>

Unmounted ==
  [Fresh EXCEPT !.left = TRUE, !.lost = ui.lost \/ (ui.token # NoToken /\ ~ui.saved)]

\* The browser's Back: no guard holds this page.  The loads it asked for reach
\* nobody.
LeavePage ==
  /\ ~ui.left /\ ui' = Unmounted
  /\ calls' = {c \in calls : c.op = "write"}
  /\ UNCHANGED server
-----------------------------------------------------------------------------
(* The panels                                                               *)

ConfirmAction ==
  /\ ui.panel \in {"revoke", "rotate"} /\ ~ui.busy
  /\ ui' = [ui EXCEPT !.busy = TRUE] /\ Ask(Write(ui.panel)) /\ UNCHANGED server

CancelAction ==
  /\ ui.panel \in {"revoke", "rotate"} /\ ~ui.busy
  /\ ui' = Closed(ui) /\ UNCHANGED <<server, calls>>

\* A change of the grants counts as a change of the enabled flag.
EditGrants ==
  /\ ui.panel = "editor" /\ ui.agent # Nobody /\ ~ui.copy.revoked
  /\ ui' = [ui EXCEPT !.copy.enabled = ~@] /\ UNCHANGED <<server, calls>>

\* The revision sent is the one of the row the editor was opened from.
SubmitEditor ==
  /\ ui.panel = "editor" /\ ~ui.saving
  /\ ui' = [ui EXCEPT !.saving = TRUE]
  /\ Ask(Write(IF ui.agent = Nobody THEN "create" ELSE "edit"))
  /\ UNCHANGED server

ReloadAfterConflict ==
  /\ ui.panel = "editor" /\ ui.conflict /\ ~ui.saving
  /\ ui' = [ui EXCEPT !.saving = TRUE] /\ Ask(Request("load", "conflict")) /\ UNCHANGED server

CloseEditor ==
  /\ ui.panel = "editor" /\ ~ui.saving /\ ui' = Closed(ui) /\ UNCHANGED <<server, calls>>

AcknowledgeToken ==
  /\ ui.panel = "connection" /\ ui.token # NoToken
  /\ ui' = [ui EXCEPT !.saved = ~@] /\ UNCHANGED <<server, calls>>

\* By the footer, which acknowledges, or after a warning when it was not saved.
CloseConnection ==
  /\ ui.panel = "connection"
  /\ ui' = [Closed(ui) EXCEPT !.token = NoToken, !.saved = FALSE]
  /\ UNCHANGED <<server, calls>>

RefreshActivity ==
  /\ ui.panel = "connection" /\ ~\E c \in calls : c.of = "activity"
  /\ Ask(Request("load", "activity")) /\ UNCHANGED <<server, ui>>

\* "Agent setup" of a granted source, once the token is saved.
OpenSetup ==
  /\ ui.panel = "connection" /\ (ui.token = NoToken \/ ui.saved) /\ LeavePage
-----------------------------------------------------------------------------
(* The server (internal/server/agents.go)                                  *)

\* Revoking and replacing a credential ask for no revision.
Outcome(c, stored) ==
  CASE c.of = "create" -> Created
    [] c.of \in {"pause", "edit"} -> [stored EXCEPT !.enabled = c.copy.enabled,
                                                    !.revision = @ + 1]
    [] c.of = "revoke" -> [revision |-> stored.revision + 1, enabled |-> FALSE, revoked |-> TRUE]
    [] c.of = "rotate" -> [revision |-> stored.revision + 1, revoked |-> FALSE,
                           enabled |-> stored.enabled \/ stored.revoked]

Refused(c, stored) ==
  /\ c.of \in {"pause", "edit"}
  /\ c.copy.revision # stored.revision \/ (stored.revoked /\ c.copy.enabled)

ServeWrite(c) ==
  \E a \in Agents :
    LET stored == server.agents[a]
    IN /\ c.op = "write"
       /\ IF c.of = "create" THEN stored.revision = 0
          ELSE a = c.agent /\ stored.revision # 0
       /\ IF Refused(c, stored)
            THEN /\ UNCHANGED server
                 /\ calls' = (calls \ {c}) \union
                             {[c EXCEPT !.stage = "conflict", !.copy = Absent, !.shown = 0]}
            ELSE /\ stored.revision < MaxRevision
                 /\ server' = [server EXCEPT
                      !.agents[a] = Outcome(c, stored),
                      !.careless = @ \/ (c.of \in {"pause", "edit"} /\
                                         c.shown # stored.revision)]
                 /\ calls' = (calls \ {c}) \union
                             {[c EXCEPT !.stage = "ok", !.agent = a, !.shown = 0,
                                        !.copy = Outcome(c, stored)]}

ServeLoad(c) ==
  /\ c.op = "load"
  /\ calls' = (calls \ {c}) \union {[c EXCEPT !.stage = "ok", !.rows = server.agents]}
  /\ UNCHANGED server

Serve ==
  /\ \E c \in calls :
       /\ c.stage = "sent"
       /\ ServeWrite(c) \/ ServeLoad(c)
  /\ UNCHANGED ui

SomeoneElseWrites ==
  /\ \E a \in Agents :
       /\ server.agents[a].revision # 0 /\ server.agents[a].revision < MaxRevision
       /\ \E of \in Writes \ {"create"} :
            /\ (of \in {"pause", "edit"}) => ~server.agents[a].revoked
            /\ server' = [server EXCEPT !.agents[a] =
                 Outcome([of |-> of, copy |-> [@ EXCEPT !.enabled = ~@]], @)]
  /\ UNCHANGED <<ui, calls>>
-----------------------------------------------------------------------------
(* The continuations in the browser                                        *)

Then(others, of) == calls' = others \union {Request("load", of)}
Freed == [ui EXCEPT !.busy = FALSE]
Issued(c) == [agent |-> c.agent, number |-> c.copy.revision]

\* A new token takes the connection panel, and the rows are loaded again.
TokenShown(c) ==
  [Closed(ui) EXCEPT !.panel = "connection", !.agent = c.agent, !.token = Issued(c),
                     !.saved = FALSE, !.lost = @ \/ (ui.token # NoToken /\ ~ui.saved)]

PauseEnds(c, others) ==
  /\ c.of = "pause" /\ c.op = "write"
  /\ IF c.stage = "ok" THEN UNCHANGED ui /\ Then(others, "pause")
     ELSE ui' = Freed /\ calls' = others

ActionEnds(c, others) ==
  /\ c.of \in {"revoke", "rotate"} /\ c.op = "write"
  /\ \/ c.stage # "ok" /\ ui' = Freed /\ calls' = others
     \/ c.stage = "ok" /\ c.of = "revoke" /\ ui' = Closed(ui) /\ Then(others, "revoke")
     \/ c.stage = "ok" /\ c.of = "rotate" /\ ui' = TokenShown(c) /\ Then(others, "issued")

EditorEnds(c, others) ==
  /\ c.of \in {"edit", "create"}
  /\ \/ /\ c.stage # "ok" /\ calls' = others
        /\ ui' = [ui EXCEPT !.saving = FALSE, !.conflict = c.stage = "conflict"]
     \/ /\ c.stage = "ok" /\ Then(others, "updated")
        /\ ui' = [IF c.of = "create" THEN TokenShown(c) ELSE Closed(ui) EXCEPT !.saving = FALSE]

\* The rows are replaced; a panel with a token stays as it is.
LoadEnds(c, others) ==
  /\ c.op = "load" /\ calls' = others
  /\ LET loaded == IF c.stage = "ok" THEN [ui EXCEPT !.rows = c.rows] ELSE ui
         page == IF c.of \in {"pause", "revoke", "issued"} THEN [loaded EXCEPT !.busy = FALSE]
                 ELSE loaded
     IN ui' = IF c.of # "conflict" THEN page
              ELSE [IF c.stage = "ok" THEN Closed(page) ELSE page EXCEPT !.saving = FALSE]

\* The page is gone: what its requests bring is dropped, a token with it.
NobodyListens(c, others) ==
  /\ ui.left /\ calls' = others
  /\ ui' = [ui EXCEPT !.lost = @ \/ (c.stage = "ok" /\ c.of \in {"rotate", "create"})]

\* A 401 to any request, a background refresh included, ends the session: the shell
\* shows the sign-in form instead of the page.  Nothing still undecided is accepted.
SessionExpired(asked) ==
  /\ ~ui.left /\ asked.stage = "sent" /\ ui' = Unmounted
  /\ calls' = {c \in calls : c.op = "write" /\ c.stage # "sent"}

\* What the page hears of a request: its answer, or that there will be none.
Heard(c) ==
  {[c EXCEPT !.stage = "failed"]} \union (IF c.stage = "sent" THEN {} ELSE {c})

Deliver ==
  /\ \E asked \in calls :
       \/ SessionExpired(asked)
       \/ \E c \in Heard(asked) :
            LET others == calls \ {asked} IN
              \/ /\ ~ui.left
                 /\ \/ PauseEnds(c, others) \/ ActionEnds(c, others)
                    \/ EditorEnds(c, others) \/ LoadEnds(c, others)
              \/ NobodyListens(c, others)
  /\ UNCHANGED server

Next ==
  \/ Refresh \/ Pause \/ Connect \/ OpenEditor \/ OpenConfirmation \/ LeavePage
  \/ ConfirmAction \/ CancelAction \/ EditGrants \/ SubmitEditor \/ ReloadAfterConflict
  \/ CloseEditor \/ AcknowledgeToken \/ CloseConnection \/ RefreshActivity \/ OpenSetup
  \/ Serve \/ SomeoneElseWrites \/ Deliver

Spec == Init /\ [][Next]_vars
-----------------------------------------------------------------------------
(* An edit and a pause change the Agent the row showed, whatever others    *)
(* saved since.                                                            *)
WritesReplaceWhatWasShown == ~server.careless

(* A token that was issued is on screen until it is acknowledged or its    *)
(* panel is closed over the warning: no other answer takes its place.      *)
(* Two things take it away with the page (left): the browser's Back, which *)
(* nothing guards, and the end of the session, which a 401 to any request  *)
(* of the page reports.  The panel's own words, "It remains visible if a   *)
(* background refresh fails" (AgentConnection.tsx:86), do not hold when    *)
(* the refresh fails so.                                                   *)
CredentialsAreNotLost == ui.lost => ui.left
=============================================================================

------------------------- MODULE OAuthClientsConsole -------------------------
(***************************************************************************)
(* The panel of the OAuth clients (web/src/OAuthClient.tsx,                *)
(* OAuthClientForm.tsx): the list, the form, the question before a client  *)
(* is disabled, rotated or deleted, and the configuration shown once with  *)
(* a new secret.                                                           *)
(*                                                                         *)
(* The panel is modal.  Inside, a configuration hides a question, which    *)
(* hides the form, which hides the list; what is hidden keeps its state.   *)
(***************************************************************************)
EXTENDS Integers, FiniteSets

CONSTANTS
  Clients,       \* clients there are or may be registered
  Registered,    \* those there are at the start
  MaxRevision,   \* bound on the revisions of a client
  MaxRequests    \* bound on requests in flight

VARIABLES server, ui, calls

vars == <<server, ui, calls>>

Nobody == "nobody"
\* Revision 0 is a client there is not; revision 1 is its registration.
Copies == [revision : 0 .. MaxRevision, enabled : BOOLEAN]
Absent == [revision |-> 0, enabled |-> FALSE]
New == [revision |-> 1, enabled |-> TRUE]
Writes == {"register", "edit", "toggle", "rotate", "delete"}
Actions == {"toggle", "rotate", "delete"}
\* A configuration with the secret it shows, if it has one.
Secrets == [client : Clients \union {Nobody}, number : 0 .. MaxRevision]
NoSecret == [client |-> Nobody, number |-> 0]

TypeOK ==
  /\ server \in [clients : [Clients -> Copies], gone : SUBSET Clients, careless : BOOLEAN]
  /\ ui \in [rows : [Clients -> Copies], known : BOOLEAN, doing : {"", "register", "edit"} \union Actions,
             client : Clients \union {Nobody}, copy : Copies, busy : BOOLEAN, secret : Secrets,
             closing : BOOLEAN, open : BOOLEAN, left : BOOLEAN,
             lost : BOOLEAN]
  /\ calls \subseteq [of : Writes \union {"list", "saved", "agents"},
                      client : Clients \union {Nobody}, copy : Copies, shown : 0 .. MaxRevision,
                      rows : [Clients -> Copies], stage : {"sent", "ok"}]

Request(of) == [of |-> of, client |-> Nobody, copy |-> Absent, shown |-> 0,
                rows |-> [c \in Clients |-> Absent], stage |-> "sent"]

Fresh == [rows |-> [c \in Clients |-> Absent], known |-> FALSE, doing |-> "",
          client |-> Nobody, copy |-> Absent, busy |-> FALSE, secret |-> NoSecret,
          closing |-> FALSE, open |-> TRUE, left |-> FALSE, lost |-> FALSE]

Init ==
  /\ server = [clients |-> [c \in Clients |-> IF c \in Registered THEN New ELSE Absent],
             gone |-> {}, careless |-> FALSE]
  /\ ui = Fresh
  /\ calls = {Request("list")}

Ask(request) == Cardinality(calls) < MaxRequests /\ calls' = calls \union {request}
Back(page) == [page EXCEPT !.doing = "", !.client = Nobody, !.copy = Absent]
ListShown == ui.open /\ ui.secret = NoSecret /\ ui.doing = ""
FormShown == ui.open /\ ui.secret = NoSecret /\ ui.doing \in {"register", "edit"}
QuestionShown == ui.open /\ ui.secret = NoSecret /\ ui.doing \in Actions
-----------------------------------------------------------------------------
(* The panel                                                                *)

RefreshClients == ListShown /\ Ask(Request("list")) /\ UNCHANGED <<server, ui>>

RegisterClient ==
  /\ ListShown /\ ui' = [ui EXCEPT !.doing = "register"] /\ UNCHANGED <<server, calls>>

\* The row's buttons; the row stays as it was when it is loaded again.
ChooseClient ==
  /\ ListShown /\ ui.known
  /\ \E c \in Clients, doing \in {"edit"} \union Actions :
       /\ ui.rows[c].revision # 0
       /\ ui' = [ui EXCEPT !.doing = doing, !.client = c,
                           !.copy = IF doing = "toggle" THEN [ui.rows[c] EXCEPT !.enabled = ~@]
                                    ELSE ui.rows[c]]
  /\ UNCHANGED <<server, calls>>

\* Cancel and "Back to clients" load the list again.
GoBack ==
  /\ FormShown \/ QuestionShown
  /\ ~ui.busy /\ ui' = Back(ui) /\ Ask(Request("list")) /\ UNCHANGED server

Submit ==
  /\ FormShown \/ QuestionShown
  /\ ~ui.busy /\ ui' = [ui EXCEPT !.busy = TRUE]
  /\ Ask([Request(ui.doing) EXCEPT !.client = ui.client, !.copy = ui.copy,
                                   !.shown = ui.copy.revision])
  /\ UNCHANGED server

SavedConfiguration ==
  /\ ui.open /\ ui.secret # NoSecret
  /\ ui' = [ui EXCEPT !.secret = NoSecret, !.closing = FALSE] /\ UNCHANGED <<server, calls>>

\* A panel that is closed forgets everything; its lists reach nobody.
Close ==
  /\ ui' = [Fresh EXCEPT !.open = FALSE, !.lost = ui.lost]
  /\ calls' = {r \in calls : r.of \in Writes} /\ UNCHANGED server

\* With a secret on screen the panel asks first.
ClosePanel ==
  /\ ui.open /\ ~ui.busy
  /\ \/ ui.secret = NoSecret /\ Close
     \/ /\ ui.secret # NoSecret
        /\ ui' = [ui EXCEPT !.closing = TRUE] /\ UNCHANGED <<server, calls>>

CloseWithoutSaving ==
  /\ ui.open /\ ui.closing /\ ui.secret # NoSecret /\ Close

Unmounted ==
  [Fresh EXCEPT !.open = FALSE, !.left = TRUE, !.lost = ui.lost \/ ui.secret # NoSecret]

\* The browser's Back takes the page and the panel with it: no guard holds them.
LeavePage ==
  /\ ui.open
  /\ ui' = Unmounted
  /\ calls' = {r \in calls : r.of \in Writes} /\ UNCHANGED server
-----------------------------------------------------------------------------
(* The server (internal/oauth/management.go)                               *)

There(c) == server.clients[c].revision # 0 /\ c \notin server.gone

ServeList(r) ==
  /\ r.of \in {"list", "saved", "agents"}
  /\ calls' = (calls \ {r}) \union
              {[r EXCEPT !.stage = "ok",
                         !.rows = IF r.of = "agents" THEN @
                                  ELSE [c \in Clients |-> IF There(c) THEN server.clients[c]
                                                          ELSE Absent]]}
  /\ UNCHANGED server

Answered(r, c, copy) ==
  calls' = (calls \ {r}) \union
           {[r EXCEPT !.stage = "ok", !.client = c, !.copy = copy, !.shown = 0]}

ServeRegister(r) ==
  /\ r.of = "register"
  /\ \E c \in Clients :
       /\ server.clients[c].revision = 0
       /\ server' = [server EXCEPT !.clients[c] = New] /\ Answered(r, c, New)

\* Every change asks for the revision it was made from.
ServeChange(r) ==
  /\ r.of \in {"edit", "toggle", "rotate", "delete"} /\ There(r.client)
  /\ server.clients[r.client].revision < MaxRevision
  /\ LET stored == server.clients[r.client]
         next == [stored EXCEPT !.revision = @ + 1,
                                !.enabled = IF r.of \in {"edit", "toggle"} THEN r.copy.enabled
                                            ELSE @]
     IN /\ r.copy.revision = stored.revision
        /\ server' = [server EXCEPT
             !.clients[r.client] = IF r.of = "delete" THEN @ ELSE next,
             !.gone = IF r.of = "delete" THEN @ \union {r.client} ELSE @,
             !.careless = @ \/ r.shown # stored.revision]
        /\ Answered(r, r.client, next)

Serve ==
  /\ \E r \in calls :
       /\ r.stage = "sent"
       /\ ServeList(r) \/ ServeRegister(r) \/ ServeChange(r)
  /\ UNCHANGED ui

SomeoneElseWrites ==
  /\ \E c \in Clients :
       /\ There(c)
       /\ \/ /\ server.clients[c].revision < MaxRevision
             /\ \E enabled \in BOOLEAN :
                  server' = [server EXCEPT !.clients[c].enabled = enabled,
                                           !.clients[c].revision = @ + 1]
          \/ server' = [server EXCEPT !.gone = @ \union {c}]
  /\ UNCHANGED <<ui, calls>>
-----------------------------------------------------------------------------
(* The continuations in the browser                                        *)

Then(others, of) == calls' = others \union {Request(of)}
Loaded(r) == IF r.stage = "ok" THEN [ui EXCEPT !.rows = r.rows, !.known = TRUE] ELSE ui

ListArrives(r, others) == r.of = "list" /\ ui' = Loaded(r) /\ calls' = others

\* After a write the list is loaded, then the Agents, and the button is freed.
WriteEnds(r, others) ==
  /\ r.of \in Writes
  /\ \/ r.stage = "failed" /\ ui' = [ui EXCEPT !.busy = FALSE] /\ calls' = others
     \/ /\ r.stage = "ok" /\ Then(others, "saved")
        /\ ui' = [Back(ui) EXCEPT
             !.secret = IF r.of \in {"register", "rotate"}
                          THEN [client |-> r.client, number |-> r.copy.revision] ELSE @,
             !.lost = @ \/ (r.of \in {"register", "rotate"} /\ ui.secret # NoSecret)]

ReloadEnds(r, others) ==
  \/ r.of = "saved" /\ ui' = Loaded(r) /\ Then(others, "agents")
  \/ r.of = "agents" /\ ui' = [ui EXCEPT !.busy = FALSE] /\ calls' = others

\* The panel is gone.
NobodyListens(r, others) ==
  /\ ~ui.open /\ calls' = others
  /\ ui' = [ui EXCEPT !.lost = @ \/ (r.stage = "ok" /\ r.of \in {"register", "rotate"})]

\* A 401 to any request ends the session: the shell shows the sign-in form instead of
\* the page.  Nothing still undecided is accepted.
SessionExpired(asked) ==
  /\ ui.open /\ asked.stage = "sent" /\ ui' = Unmounted
  /\ calls' = {r \in calls : r.of \in Writes /\ r.stage # "sent"}

\* What the page hears of a request: its answer, or that there will be none.
Heard(r) ==
  {[r EXCEPT !.stage = "failed"]} \union (IF r.stage = "sent" THEN {} ELSE {r})

Deliver ==
  /\ \E asked \in calls :
       \/ SessionExpired(asked)
       \/ \E r \in Heard(asked) :
            LET others == calls \ {asked} IN
              \/ /\ ui.open
                 /\ ListArrives(r, others) \/ WriteEnds(r, others) \/ ReloadEnds(r, others)
              \/ NobodyListens(r, others)
  /\ UNCHANGED server

Next ==
  \/ RefreshClients \/ RegisterClient \/ ChooseClient \/ GoBack \/ Submit
  \/ SavedConfiguration \/ ClosePanel \/ CloseWithoutSaving \/ LeavePage
  \/ Serve \/ SomeoneElseWrites \/ Deliver

Spec == Init /\ [][Next]_vars
-----------------------------------------------------------------------------
(* A client is changed, rotated or deleted as the row showed it, whatever  *)
(* other administrators did since.                                         *)
WritesReplaceWhatWasShown == ~server.careless

(* A secret is on screen until it is acknowledged or given up: the panel   *)
(* does not close before it arrives, and no other answer replaces it.      *)
(* Two things take it away with the page (left): the browser's Back, which *)
(* nothing guards, and the end of the session, which a 401 to any request  *)
(* of the panel reports, the list it reads again included.                 *)
CredentialsAreNotLost == ui.lost => ui.left
=============================================================================

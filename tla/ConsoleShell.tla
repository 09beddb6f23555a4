---------------------------- MODULE ConsoleShell ----------------------------
(***************************************************************************)
(* The frame of the management console (web/src/App.tsx): who is signed    *)
(* in, which page is shown at which address, and what happens to both when *)
(* answers arrive late, the session ends, or the administrator leaves a    *)
(* page that holds unsaved work.                                           *)
(*                                                                         *)
(* A page is a path; its unsaved work is the guard it registers with       *)
(* useNavigationGuard.  The browser's session history is a list of entries *)
(* and a queue of traversals, as the HTML standard has it: history.go only *)
(* queues, pushState takes effect at once.  A request is a record that     *)
(* carries the cookie and the CSRF token it was sent with; the server      *)
(* decides it in one step (Serve) and the browser runs its continuation in *)
(* another (Deliver), in any order.  A form whose component has left the   *)
(* screen cannot be pressed again, but its continuation still runs.        *)
(***************************************************************************)
EXTENDS Integers, Sequences, FiniteSets

CONSTANTS
  Paths,          \* the addresses of the console's pages
  Home,           \* the one signing in leads to
  MaxSignIns,     \* bound on sessions
  MaxSteps,       \* bound on the position in the history and sessions, together
  MaxInFlight     \* bound on queued traversals and requests in flight, together,
                  \* but for one traversal more: see PressBackOrForward

ASSUME ShellAssumption == Home \in Paths /\ MaxSignIns \in Nat

VARIABLES
  entries, at, pending,              \* the browser: entries, position, queue
  index, address, path, restoring,   \* App: historyIndex, currentURL, path, flag
  home, skewed,                      \* history variables, see PageKeepsItsEntry
  guard,                             \* the mounted page: clean, dirty or busy
  cookie, live, started,             \* browser's session cookie, server's sessions
  view, csrf, shown,                 \* App: what is rendered, token, whose session
  loading, loaded, error,            \* App: lists asked for, ever read, error text
  outlived,                          \* history variable, see TokenIsOfTheShownSession
  stranded,                          \* history variable, see LoadingSettles
  calls                              \* requests sent and not yet answered

browser == <<entries, at, pending>>
route == <<index, address, path, restoring, home, skewed>>
shell == <<view, csrf, shown, loading, loaded, error, outlived, stranded>>
session == <<cookie, live, started, shell>>
vars == <<browser, route, guard, session, calls>>

Generations == 0 .. MaxSignIns
\* "password" replaces a temporary password, "change" is the form of the settings.
Ops == {"session", "login", "password", "change", "logout", "leave", "lists", "page"}
Answers == {"none", "ok", "denied", "failed"}
Views == {"boot", "anonymous", "mustChange", "console"}

TypeOK ==
  /\ entries \in Seq([url : Paths, index : Nat]) /\ at \in 1 .. Len(entries)
  /\ pending \in Seq(Int)
  /\ index \in Nat /\ address \in Paths /\ path \in Paths
  /\ restoring \in BOOLEAN /\ home \in Nat /\ skewed \in BOOLEAN
  /\ guard \in {"clean", "dirty", "busy"}
  /\ started \in Generations /\ cookie \in Generations /\ live \subseteq Generations
  /\ view \in Views /\ csrf \in Generations /\ shown \in Generations
  /\ loading \in BOOLEAN /\ loaded \in BOOLEAN /\ error \in BOOLEAN
  /\ outlived \in BOOLEAN /\ stranded \in BOOLEAN
  /\ calls \subseteq [op : Ops, cookie : Generations, csrf : Generations,
                      answer : Answers, gen : Generations, must : BOOLEAN,
                      here : BOOLEAN]
-----------------------------------------------------------------------------
(* The browser's history and the shell's address                           *)

\* A page is on screen once the lists it is given have been read.
PageShown(v, l, e, s) == v = "console" /\ ~l /\ ~(e /\ ~s)
Mounted == PageShown(view, loading, error, loaded)

CanNavigate == guard = "clean"
\* A history out of step is not explored further.
HasSteps == ~skewed /\ at + started < MaxSteps /\ index < MaxSteps
HasRoom == Len(pending) + Cardinality(calls) < MaxInFlight
\* A form on screen has sent its request and holds its button until the answer.
Busy(op) == \E c \in calls : c.op = op /\ c.here

\* pushState cuts off what lies ahead and appends the new entry at once.
Push(url, i) ==
  /\ entries' = Append(SubSeq(entries, 1, at), [url |-> url, index |-> i])
  /\ at' = at + 1 /\ home' = at + 1
  /\ skewed' = (skewed \/ at # home)

Show(url) == address' = url /\ path' = url

Go(next) ==
  IF next = address
    THEN UNCHANGED <<entries, at, route>>
    ELSE /\ index' = index + 1
         /\ Push(next, index + 1)
         /\ Show(next)
         /\ UNCHANGED restoring

\* The caller has asked canNavigate: a refused navigation only shows a toast.
Navigate(next) == view = "console" /\ CanNavigate /\ Go(next)
                  /\ UNCHANGED <<pending, guard, session, calls>>

ClickLink == HasSteps /\ \E next \in Paths \ {address} : Navigate(next)

\* A page's continuation releases its guard and leaves in the same turn.
FinishAndLeave ==
  /\ Mounted /\ guard = "busy" /\ ~Busy("change") /\ HasSteps
  /\ guard' = "clean"
  /\ \E next \in Paths \ {address} : Go(next)
  /\ UNCHANGED <<pending, session, calls>>

ChangeGuard ==
  /\ Mounted /\ ~Busy("change")
  /\ \E g \in {"clean", "dirty", "busy"} \ {guard} : guard' = g
  /\ UNCHANGED <<browser, route, session, calls>>

\* A third traversal, pressed while two are queued, can be taken for the way back of a
\* refused one; it may exceed the bound by one, for that.  Such a history is skewed.
PressBackOrForward ==
  /\ ~skewed
  /\ HasRoom \/ (calls = {} /\ Len(pending) = MaxInFlight)
  /\ \E d \in {-1, 1} : pending' = Append(pending, d)
  /\ skewed' = (Len(pending) > 1)
  /\ UNCHANGED <<entries, at, index, address, path, restoring, home, guard, session, calls>>

RefuseTraversal(to) ==
  IF entries[to].index # index
    THEN /\ restoring' = TRUE
         /\ pending' = Append(Tail(pending), index - entries[to].index)
         /\ at' = to
         /\ UNCHANGED <<entries, index, address, path, home, skewed>>
    ELSE /\ HasSteps
         /\ entries' = Append(SubSeq(entries, 1, to),
                              [url |-> address, index |-> index])
         /\ at' = to + 1 /\ home' = to + 1
         /\ pending' = Tail(pending)
         /\ UNCHANGED <<index, address, path, restoring, skewed>>

AcceptTraversal(to) ==
  /\ at' = to /\ home' = to /\ pending' = Tail(pending)
  /\ index' = entries[to].index
  /\ Show(entries[to].url)
  /\ UNCHANGED <<entries, restoring, skewed>>

\* The popstate handler; the flag tells the shell's own way back.
ForgetsTheFlag(to) ==
  IF restoring
    THEN /\ at' = to /\ pending' = Tail(pending)
         /\ UNCHANGED <<entries, index, address, path, restoring, home, skewed>>
    ELSE IF CanNavigate THEN AcceptTraversal(to) ELSE RefuseTraversal(to)
PopState(to) ==
  IF restoring
    THEN /\ restoring' = FALSE
         /\ at' = to /\ pending' = Tail(pending)
         /\ UNCHANGED <<entries, index, address, path, home, skewed>>
    ELSE IF CanNavigate THEN AcceptTraversal(to) ELSE RefuseTraversal(to)

\* A queued traversal is taken; one that leads nowhere raises no event.
Traverse ==
  /\ pending # <<>>
  /\ LET to == at + Head(pending) IN
       IF to \in 1 .. Len(entries) THEN PopState(to)
       ELSE pending' = Tail(pending) /\ UNCHANGED <<entries, at, route>>
  /\ UNCHANGED <<guard, session, calls>>
-----------------------------------------------------------------------------
(* Requests                                                                *)

\* What the server looks at: signing in needs neither cookie nor token, reading no token.
Changes == {"password", "change", "logout", "leave"}
Request(op) ==
  [op |-> op, cookie |-> IF op = "login" THEN 0 ELSE cookie,
   csrf |-> IF op \in Changes THEN csrf ELSE 0,
   answer |-> "none", gen |-> 0, must |-> FALSE, here |-> TRUE]
InFlight(op) == \E c \in calls : c.op = op
Ask(op) == HasRoom /\ calls' = calls \union {Request(op)}

\* Whether the form that sends an operation is on screen; the others hold no button.
Hosted(op, v, isMounted) ==
  CASE op = "login" -> v = "anonymous"
    [] op = "password" -> v = "mustChange"
    [] op = "change" -> isMounted
    [] OTHER -> TRUE
\* The requests as the next state's screen leaves them.
StillHere(others) ==
  {[c EXCEPT !.here = @ /\ Hosted(c.op, view', PageShown(view', loading', error', loaded'))] :
     c \in others}

Boot ==
  /\ view' = "boot" /\ csrf' = 0 /\ shown' = 0 /\ loading' = TRUE
  /\ loaded' = FALSE /\ error' = FALSE /\ guard' = "clean"
  /\ outlived' = FALSE /\ stranded' = FALSE
  /\ calls' = {Request("session")}

InitHistory ==
  /\ \E url \in Paths : /\ entries = <<[url |-> url, index |-> 0]>>
                        /\ address = url /\ path = url
  /\ at = 1 /\ pending = <<>> /\ index = 0 /\ restoring = FALSE
  /\ home = 1 /\ skewed = FALSE

InitSession ==
  /\ guard = "clean" /\ cookie = 0 /\ live = {} /\ started = 0
  /\ view = "boot" /\ csrf = 0 /\ shown = 0
  /\ loading = TRUE /\ loaded = FALSE /\ error = FALSE
  /\ outlived = FALSE /\ stranded = FALSE
  /\ calls = {[op |-> "session", cookie |-> 0, csrf |-> 0, answer |-> "none",
               gen |-> 0, must |-> FALSE, here |-> TRUE]}

Init == InitHistory /\ InitSession

Reloaded ==
  /\ index' = 0 /\ restoring' = FALSE /\ home' = at /\ pending' = <<>>
  /\ Show(entries[at].url)
  /\ entries' = [entries EXCEPT ![at].index = 0]
  /\ skewed' = (skewed \/ Len(entries) > 1)
  /\ Boot
  /\ UNCHANGED <<at, cookie, live, started>>

\* The browser loads the document again: the console's Reconnect button, or the
\* visitor's, which a clean guard lets pass (beforeunload) and the bound counts.
LoadDocument ==
  /\ CanNavigate /\ IF view = "boot" THEN error ELSE HasSteps
  /\ Reloaded

SubmitLogin ==
  /\ view = "anonymous" /\ ~Busy("login")
  /\ Ask("login")
  /\ UNCHANGED <<browser, route, guard, session>>

SubmitPassword ==
  /\ view = "mustChange" /\ ~Busy("password")
  /\ Ask("password")
  /\ UNCHANGED <<browser, route, guard, session>>

\* The password form of the settings page: typing made the guard dirty.
ChangePassword ==
  /\ Mounted /\ guard = "dirty" /\ Ask("change") /\ guard' = "busy"
  /\ UNCHANGED <<browser, route, session>>

\* canNavigate is asked before the request, not again when the answer comes.
AskLogout ==
  /\ view = "console" /\ CanNavigate /\ Ask("logout")
  /\ UNCHANGED <<browser, route, guard, session>>

\* Signing out where a temporary password must be replaced, which a password sent
\* before holds back, and which holds back none sent after.
AskToLeave ==
  /\ view = "mustChange" /\ ~Busy("password") /\ Ask("leave")
  /\ UNCHANGED <<browser, route, guard, session>>

\* Any other request of the mounted page.  Only a 401 matters to the shell: every
\* other answer counts as a failure here.
PageAsks ==
  /\ Mounted /\ ~InFlight("page") /\ Ask("page")
  /\ UNCHANGED <<browser, route, guard, session>>

RetryLoading ==
  /\ view = "console" /\ error /\ ~loading
  /\ loading' = TRUE /\ error' = FALSE
  /\ guard' = "clean"
  /\ UNCHANGED <<browser, route, cookie, live, started, view, csrf, shown, loaded, outlived, stranded>>
  /\ HasRoom /\ calls' = StillHere(calls) \union {Request("lists")}
-----------------------------------------------------------------------------
(* The server's answers                                                    *)

Answer(c, a) == calls' = (calls \ {c}) \union {[a EXCEPT !.cookie = 0, !.csrf = 0]}

ServeSession(c) ==
  /\ c.op = "session"
  /\ \E must \in BOOLEAN :
       Answer(c, [c EXCEPT !.answer = "ok", !.must = must,
                           !.gen = IF c.cookie \in live THEN c.cookie ELSE 0])
  /\ UNCHANGED <<cookie, live, started>>

\* Signing in starts a session and sets its cookie, which the browser is taken to
\* store when the server decides.
ServeSignIn(c) ==
  /\ c.op = "login" /\ started < MaxSignIns
  /\ started' = started + 1 /\ cookie' = started' /\ live' = live \union {started'}
  /\ \E must \in BOOLEAN :
       Answer(c, [c EXCEPT !.answer = "ok", !.gen = started', !.must = must])

\* A new password keeps the caller's session and ends the account's others.  The
\* session's token is read again for the answer, when it may have ended.
ServePassword(c) ==
  /\ c.op \in {"password", "change"} /\ c.cookie \in live /\ c.csrf = c.cookie
  /\ \E ended \in SUBSET live :
       /\ live' = live \ ended
       /\ Answer(c, [c EXCEPT !.answer = "ok",
                              !.gen = IF c.cookie \in ended THEN 0 ELSE c.cookie])
  /\ UNCHANGED <<cookie, started>>

ServeRead(c) ==
  /\ c.op = "lists" /\ c.cookie \in live
  /\ Answer(c, [c EXCEPT !.answer = "ok"])
  /\ UNCHANGED <<cookie, live, started>>

ServeLogout(c) ==
  /\ c.op \in {"logout", "leave"} /\ c.cookie \in live /\ c.csrf = c.cookie
  /\ live' = live \ {c.cookie}
  /\ cookie' = 0 /\ UNCHANGED started
  /\ Answer(c, [c EXCEPT !.answer = "ok"])

\* Without a session every other operation is answered 401.
Deny(c) ==
  /\ c.op \in Ops \ {"session", "login"} /\ c.cookie \notin live
  /\ Answer(c, [c EXCEPT !.answer = "denied"])
  /\ UNCHANGED <<cookie, live, started>>

\* Refused for another reason, or the connection broke: the error is shown.
Fail(c) ==
  /\ Answer(c, [c EXCEPT !.answer = "failed"])
  /\ UNCHANGED <<cookie, live, started>>

Serve(op) ==
  /\ \E c \in calls :
       /\ c.op = op /\ c.answer = "none"
       /\ ServeSession(c) \/ ServeSignIn(c) \/ ServePassword(c) \/ ServeRead(c)
            \/ ServeLogout(c) \/ Deny(c) \/ Fail(c)
  /\ UNCHANGED <<browser, route, guard, shell>>

\* A session runs out, or another administrator ends it.
SessionEnds ==
  /\ \E g \in live : live' = live \ {g}
  /\ UNCHANGED <<browser, route, guard, cookie, started, shell, calls>>
-----------------------------------------------------------------------------
(* The continuations in the browser                                        *)

\* What any 401 does to the whole console, whichever session it was sent for.
ExpiredKeepsToken ==
  /\ view' = "anonymous" /\ shown' = 0 /\ UNCHANGED csrf
  /\ outlived' = FALSE /\ stranded' = FALSE
Expired ==
  /\ view' = "anonymous" /\ csrf' = 0 /\ shown' = 0
  /\ outlived' = FALSE /\ stranded' = FALSE

\* The effect on the session asks for the lists when one that may work is shown and
\* none was before.
ReadsTheListsOnce(v) ==
  IF v = "console" /\ view = "boot"
    THEN {Request("lists")} ELSE {}
EffectOf(v) ==
  IF v = "console" /\ view # "console"
    THEN {Request("lists")} ELSE {}

\* The shell's way home asks the guard, which a form on screen does not hold.
LoggedIn(c) ==
  /\ loading' = TRUE /\ csrf' = c.gen /\ shown' = c.gen
  /\ view' = IF c.must THEN "mustChange" ELSE "console"
  /\ IF c.must \/ ~CanNavigate THEN UNCHANGED <<entries, at, route>> ELSE Go(Home)

SessionArrives(c) ==
  /\ c.op = "session" /\ c.answer = "ok"
  /\ csrf' = c.gen /\ shown' = c.gen
  /\ view' = IF c.gen = 0 THEN "anonymous" ELSE IF c.must THEN "mustChange"
             ELSE "console"
  /\ UNCHANGED <<entries, at, route, loading, loaded, error, outlived, stranded>>

SignInArrives(c) ==
  /\ c.op \in {"login", "password"} /\ c.answer = "ok"
  /\ LoggedIn(c)
  /\ outlived' = (c.gen = 0) /\ stranded' = (view = "console" /\ ~c.must)
  /\ UNCHANGED <<loaded, error>>

\* The settings page takes over the token and leaves the session shown as it is.
PasswordChanged(c) ==
  /\ c.op = "change" /\ c.answer = "ok"
  /\ csrf' = c.gen /\ outlived' = (outlived \/ (c.gen # shown /\ (~c.here \/ c.gen = 0)))
  /\ UNCHANGED <<entries, at, route, view, shown, loading, loaded, error, stranded>>

\* The old session's object, marked as signed out, replaces whichever is shown.
LogoutArrives(c) ==
  /\ c.op = "logout" /\ c.answer = "ok"
  /\ Expired
  /\ UNCHANGED <<entries, at, route, loading, loaded, error>>

ListsArrive(c) ==
  /\ c.op = "lists" /\ c.answer = "ok"
  /\ loaded' = TRUE /\ loading' = FALSE /\ stranded' = FALSE
  /\ UNCHANGED <<entries, at, route, view, csrf, shown, error, outlived>>

\* The reload; unsaved work on a page shown meanwhile makes the browser ask first.
LeaveArrives ==
  \E c \in calls :
    /\ c.op = "leave" /\ c.answer = "ok"
    /\ \/ Reloaded
       \/ /\ ~CanNavigate /\ calls' = calls \ {c}
          /\ UNCHANGED <<browser, route, guard, session>>

\* A refusal of the page's own request shows in the page, which Expired removes.
Refused(c) ==
  /\ c.answer \in {"denied", "failed"}
  /\ IF c.answer = "denied" THEN Expired
     ELSE /\ stranded' = (stranded /\ c.op # "lists")
          /\ UNCHANGED <<view, csrf, shown, outlived>>
  /\ error' = IF c.op \in {"session", "logout", "lists"} THEN TRUE
              ELSE IF c.answer = "denied" THEN FALSE ELSE error
  /\ loading' = (loading /\ c.op # "lists")
  /\ UNCHANGED <<entries, at, route, loaded>>

\* A page that is no longer rendered takes its guard with it; the settings' form is
\* free again, and empty when the password was accepted.
ReleaseGuard(c) ==
  guard' = IF ~PageShown(view', loading', error', loaded') THEN "clean"
           ELSE IF c.op = "change" /\ c.here
             THEN (IF c.answer = "ok" THEN "clean" ELSE "dirty")
           ELSE guard

Deliver(op) ==
  /\ \E c \in calls :
       /\ c.op = op /\ c.answer # "none"
       /\ \/ SessionArrives(c) \/ SignInArrives(c) \/ PasswordChanged(c)
          \/ LogoutArrives(c) \/ ListsArrive(c) \/ Refused(c)
       /\ ReleaseGuard(c)
       /\ calls' = StillHere(calls \ {c}) \union EffectOf(view')
  /\ UNCHANGED <<pending, cookie, live, started>>
-----------------------------------------------------------------------------
Next ==
  \/ ClickLink \/ FinishAndLeave \/ ChangeGuard \/ PressBackOrForward \/ Traverse
  \/ LoadDocument \/ SubmitLogin \/ SubmitPassword \/ ChangePassword \/ AskLogout
  \/ PageAsks \/ AskToLeave \/ LeaveArrives \/ RetryLoading \/ SessionEnds
  \/ \E op \in Ops : Serve(op) \/ Deliver(op)

\* The server answers or the connection fails, and the browser then runs the
\* continuation: a fetch does not stay pending for ever.
Fairness ==
  WF_vars(LeaveArrives) /\ \A op \in Ops : WF_vars(Serve(op)) /\ WF_vars(Deliver(op))

Spec == Init /\ [][Next]_vars /\ Fairness
-----------------------------------------------------------------------------
(* Whenever the browser has nothing queued, the page on screen is the one  *)
(* at the browser's address and at the history entry the browser is at,    *)
(* and the flag is down: refusing to leave (App.tsx popstate) finds the    *)
(* way back.  Three circumstances are excluded by skewed, where the code   *)
(* does lose track: a third traversal pressed while two are still queued,  *)
(* because restoringHistory remembers one way back and not which; an entry *)
(* pushed while the browser was still on its way back to the page's own;   *)
(* and a document reloaded with other entries around it, whose recorded    *)
(* indices no longer count from the same origin.                           *)
PageKeepsItsEntry ==
  (pending = <<>> /\ ~skewed) =>
    /\ at = home /\ ~restoring
    /\ entries[at].url = address /\ path = address /\ entries[at].index = index

(* A console that shows somebody as signed in holds that session's CSRF    *)
(* token, whatever answers of earlier sessions are still to arrive; when   *)
(* it shows nobody it holds none (App.tsx, setCSRF beside every            *)
(* setSession).  Excluded by outlived, until the console next changes      *)
(* hands, are two late answers to a new password.  When the settings'      *)
(* form has left the screen, because the session ended or the lists were   *)
(* asked for again, its answer still replaces the token and leaves the     *)
(* session as it is (SettingsPage.tsx:239): after an expiry and another    *)
(* sign-in the console keeps the token of the session before.  And when    *)
(* the session ended before its token was read again, the answer shows     *)
(* somebody signed in without one (auth.go:150-153).                       *)
TokenIsOfTheShownSession ==
  ~outlived =>
    /\ csrf = shown
    /\ view \in {"mustChange", "console"} <=> shown # 0

(* Signing in, or retrying, never leaves the console on its loading screen:*)
(* the lists arrive, an error replaces them, or nobody is signed in any    *)
(* more (App.tsx, the effect on the session and its finally).  Excluded by *)
(* stranded is the answer to a sign-in or a temporary password's           *)
(* replacement that finds the console already signed in, as when the page  *)
(* was left by logging out, an expiry or another sign-in before it came    *)
(* (Administrators.tsx:57): loggedIn asks for the lists to be awaited,     *)
(* the effect does not run again, and the loading screen stays.            *)
LoadingSettles ==
  (view = "console" /\ loading) ~> (view # "console" \/ ~loading \/ stranded)
=============================================================================

---------------------------- MODULE ConsoleProofs ----------------------------
(***************************************************************************)
(* Theorems about the console's frame (ConsoleShell): its CSRF token is    *)
(* that of the session it shows, and the page on screen stays the one of   *)
(* its history entry; and about all of its pages (ConsolePages): what they *)
(* show answers what is asked on screen.  They hold of any pages and any   *)
(* number of sessions, history entries, records and requests in flight.    *)
(***************************************************************************)
EXTENDS ConsoleShell, ConsolePagesProofs, SequenceTheorems, FiniteSetTheorems,
        WellFoundedInduction

Calls == [op : Ops, cookie : Generations, csrf : Generations, answer : Answers,
          gen : Generations, must : BOOLEAN, here : BOOLEAN]

\* The console reads the session alone.  A new password whose form is on screen was
\* sent with the token held there, and its answer brings that token again, or none.
CallOK(c) ==
  /\ c.op = "session" => view = "boot" /\ calls = {c}
  /\ (c.op = "change" /\ c.here) =>
       /\ Mounted
       /\ ~outlived => /\ c.answer = "none" => c.csrf = csrf
                       /\ c.answer = "ok" => c.gen \in {0, csrf}

SessionInv ==
  /\ cookie \in Generations /\ csrf \in Generations /\ shown \in Generations
  /\ started \in Generations
  /\ calls \subseteq Calls /\ \A c \in calls : CallOK(c)
  /\ TokenIsOfTheShownSession

\* No session is generation zero, which stands for none.
LEMMA NoneIsAGeneration == 0 \in Generations
  BY ShellAssumption DEF Generations

\* A request that has just been sent is of the right form.
LEMMA RequestsAreCalls ==
  ASSUME SessionInv, NEW op \in Ops
  PROVE  /\ Request(op) \in Calls /\ Request(op).answer = "none"
         /\ Request(op).op = op
         /\ op = "change" => Request(op).csrf = csrf
  BY NoneIsAGeneration DEF SessionInv, Request, Calls, Answers, Changes

\* The requests the next screen leaves are those of before, and a form that is on it
\* was there.
LEMMA ScreenKeepsCalls ==
  ASSUME SessionInv, NEW others \in SUBSET calls, NEW x \in StillHere(others)
  PROVE  /\ x \in Calls
         /\ \E c \in others : /\ x.op = c.op /\ x.answer = c.answer /\ x.csrf = c.csrf
                              /\ x.gen = c.gen /\ (x.here => c.here)
         /\ (x.op = "change" /\ x.here) => Mounted'
<1> DEFINE on(c) == Hosted(c.op, view', PageShown(view', loading', error', loaded'))
<1>1. PICK c \in others : x = [c EXCEPT !.here = @ /\ on(c)]
  BY DEF StillHere
<1>2. c \in Calls
  BY DEF SessionInv
<1>3. PICK h \in BOOLEAN : h <=> (c.here /\ on(c))
  OBVIOUS
<1>4. x = [c EXCEPT !.here = (c.here /\ on(c))]
  BY <1>1
<1>5. on(c) \in BOOLEAN
  BY DEF Hosted, PageShown
<1>6. (c.here /\ on(c)) = h
  BY <1>2, <1>3, <1>5 DEF Calls
<1>7. x = [c EXCEPT !.here = h]
  BY <1>4, <1>6
<1>8. (c.op = "change" /\ h) => Mounted'
  BY <1>3 DEF Hosted, Mounted
<1> QED
  BY <1>2, <1>3, <1>7, <1>8 DEF Calls

\* Sending a request changes nothing else of the invariant.
LEMMA SendingKeepsSession ==
  ASSUME SessionInv, NEW op \in Ops \ {"session"}, Ask(op), UNCHANGED session,
         view # "boot", op = "change" => Mounted
  PROVE  SessionInv'
<1>1. /\ Request(op) \in Calls /\ Request(op).answer = "none" /\ Request(op).op = op
      /\ op = "change" => Request(op).csrf = csrf
  BY RequestsAreCalls
<1>2. calls' = calls \union {Request(op)}
  BY DEF Ask
<1>3. UNCHANGED <<cookie, started, view, csrf, shown, loading, loaded, error, outlived>>
  BY DEF session, shell
<1>4. Mounted' <=> Mounted
  BY <1>3 DEF Mounted
<1>5. ASSUME NEW c \in calls' PROVE CallOK(c)'
  <2>1. CASE c \in calls
    <3>1. CallOK(c) /\ c.op # "session"
      BY <2>1 DEF SessionInv, CallOK
    <3> QED BY <1>3, <1>4, <3>1 DEF CallOK
  <2>2. CASE c = Request(op)
    BY <1>1, <1>3, <1>4, <2>2 DEF CallOK
  <2> QED BY <1>2, <2>1, <2>2
<1> QED
  BY <1>1, <1>2, <1>3, <1>5 DEF SessionInv, TokenIsOfTheShownSession

\* Loading the document starts with nobody shown and one request.
LEMMA ReloadKeepsSession ==
  ASSUME SessionInv, Reloaded
  PROVE  SessionInv'
<1>1. Request("session") \in Calls /\ Request("session").op = "session"
  BY RequestsAreCalls DEF Ops
<1>2. /\ view' = "boot" /\ csrf' = 0 /\ shown' = 0
      /\ calls' = {Request("session")} /\ cookie' = cookie /\ started' = started
  BY DEF Reloaded, Boot
<1>3. \A c \in calls' : CallOK(c)'
  BY <1>1, <1>2 DEF CallOK
<1>4. TokenIsOfTheShownSession'
  BY <1>2 DEF TokenIsOfTheShownSession
<1> QED
  BY <1>1, <1>2, <1>3, <1>4, NoneIsAGeneration DEF SessionInv

\* The server's decision touches the cookie and the one request.
LEMMA ServeKeepsSession ==
  ASSUME SessionInv, NEW op \in Ops, Serve(op)
  PROVE  SessionInv'
<1>1. PICK c \in calls :
        /\ c.op = op /\ c.answer = "none"
        /\ ServeSession(c) \/ ServeSignIn(c) \/ ServePassword(c) \/ ServeRead(c)
             \/ ServeLogout(c) \/ Deny(c) \/ Fail(c)
  BY DEF Serve
<1>2. UNCHANGED <<view, csrf, shown, loading, loaded, error, outlived>>
  BY DEF Serve, shell
<1>3. TokenIsOfTheShownSession'
  BY <1>2 DEF SessionInv, TokenIsOfTheShownSession
<1>4. c \in Calls /\ CallOK(c)
  BY <1>1 DEF SessionInv
<1>5. Mounted' <=> Mounted
  BY <1>2 DEF Mounted
<1>6. ASSUME NEW word \in Answers, NEW gen \in Generations, NEW must \in BOOLEAN,
             Answer(c, [c EXCEPT !.answer = word, !.gen = gen, !.must = must]),
             word # "none", (c.op = "change" /\ word = "ok") => gen \in {0, c.csrf},
             cookie' \in Generations, started' \in Generations
      PROVE  SessionInv'
  <2> DEFINE a == [[c EXCEPT !.answer = word, !.gen = gen, !.must = must]
                     EXCEPT !.cookie = 0, !.csrf = 0]
  <2>1. /\ a \in Calls /\ a.op = c.op /\ a.here = c.here /\ a.answer = word
        /\ a.gen = gen
    BY <1>4, <1>6, NoneIsAGeneration DEF Calls
  <2>2. calls' = (calls \ {c}) \union {a}
    BY <1>6 DEF Answer
  <2> HIDE DEF a
  <2>3. CallOK(a)'
    <3>1. a.op = "session" => view' = "boot" /\ calls' = {a}
      BY <1>2, <1>4, <2>1, <2>2 DEF CallOK
    <3>2. (a.op = "change" /\ a.here) => Mounted'
      BY <1>4, <1>5, <2>1 DEF CallOK
    <3>3. (a.op = "change" /\ a.here /\ ~outlived' /\ a.answer = "ok") => a.gen \in {0, csrf'}
      BY <1>1, <1>2, <1>4, <1>6, <2>1 DEF CallOK
    <3>4. a.answer # "none"
      BY <1>6, <2>1
    <3> QED BY <3>1, <3>2, <3>3, <3>4 DEF CallOK
  <2>4. ASSUME NEW d \in calls, d # c PROVE CallOK(d)'
    <3>1. CallOK(d) /\ d.op # "session"
      BY <1>1, <2>4 DEF SessionInv, CallOK
    <3> QED BY <1>2, <1>5, <3>1 DEF CallOK
  <2>5. calls' \subseteq Calls /\ \A d \in calls' : CallOK(d)'
    BY <2>1, <2>2, <2>3, <2>4 DEF SessionInv
  <2> QED
    BY <1>2, <1>3, <1>6, <2>5 DEF SessionInv
<1>7. cookie \in Generations /\ started \in Generations
  BY DEF SessionInv
<1>8. c.gen \in Generations /\ c.must \in BOOLEAN /\ {"ok", "denied", "failed"} \subseteq Answers
  BY <1>4 DEF Calls, Answers
<1>9. CASE ServeSession(c)
  <2>1. PICK must \in BOOLEAN :
          Answer(c, [c EXCEPT !.answer = "ok", !.must = must,
                              !.gen = IF c.cookie \in live THEN c.cookie ELSE 0])
    BY <1>9 DEF ServeSession
  <2>2. PICK g \in Generations : g = IF c.cookie \in live THEN c.cookie ELSE 0
    BY <1>4, NoneIsAGeneration DEF Calls
  <2>3. Answer(c, [c EXCEPT !.answer = "ok", !.gen = g, !.must = must])
    BY <1>4, <2>1, <2>2 DEF Calls
  <2>4. c.op # "change" /\ cookie' = cookie /\ started' = started
    BY <1>9 DEF ServeSession
  <2> QED
    BY <1>6, <1>7, <1>8, <2>3, <2>4
<1>10. CASE ServeSignIn(c)
  <2>1. /\ started' = started + 1 /\ started < MaxSignIns /\ cookie' = started'
        /\ c.op # "change"
    BY <1>10 DEF ServeSignIn
  <2>2. started' \in Generations
    BY <1>7, <2>1, ShellAssumption DEF Generations
  <2>3. PICK must \in BOOLEAN :
          Answer(c, [c EXCEPT !.answer = "ok", !.gen = started', !.must = must])
    BY <1>10 DEF ServeSignIn
  <2> QED
    BY <1>6, <1>8, <2>1, <2>2, <2>3
<1>11. CASE ServePassword(c)
  <2>1. PICK ended \in SUBSET live :
          Answer(c, [c EXCEPT !.answer = "ok",
                              !.gen = IF c.cookie \in ended THEN 0 ELSE c.cookie])
    BY <1>11 DEF ServePassword
  <2>2. PICK g \in Generations : g = IF c.cookie \in ended THEN 0 ELSE c.cookie
    BY <1>4, NoneIsAGeneration DEF Calls
  <2>3. Answer(c, [c EXCEPT !.answer = "ok", !.gen = g, !.must = c.must])
    <3>1. [c EXCEPT !.answer = "ok", !.gen = g, !.must = c.must]
            = [c EXCEPT !.answer = "ok", !.gen = g]
      BY <1>4 DEF Calls
    <3> QED BY <2>1, <2>2, <3>1
  <2>4. c.csrf = c.cookie /\ cookie' = cookie /\ started' = started
    BY <1>11 DEF ServePassword
  <2>5. g \in {0, c.csrf}
    BY <2>2, <2>4
  <2> QED
    BY <1>6, <1>7, <1>8, <2>3, <2>4, <2>5
<1>12. CASE ServeRead(c) \/ ServeLogout(c) \/ Deny(c) \/ Fail(c)
  <2>1. PICK word \in Answers \ {"none"} :
          /\ Answer(c, [c EXCEPT !.answer = word])
          /\ c.op = "change" => word # "ok"
    BY <1>8, <1>12 DEF ServeRead, ServeLogout, Deny, Fail, Answers
  <2>2. [c EXCEPT !.answer = word, !.gen = c.gen, !.must = c.must] = [c EXCEPT !.answer = word]
    BY <1>4 DEF Calls
  <2>3. cookie' \in {0, cookie} /\ started' = started
    BY <1>12 DEF ServeRead, ServeLogout, Deny, Fail
  <2> QED
    BY <1>6, <1>7, <1>8, <2>1, <2>2, <2>3, NoneIsAGeneration
<1> QED
  BY <1>1, <1>9, <1>10, <1>11, <1>12

\* The continuation of an answer sets session and token together, but for that of a
\* new password, whose token the console holds already or which outlived its form.
LEMMA DeliverKeepsSession ==
  ASSUME SessionInv, NEW op \in Ops, Deliver(op)
  PROVE  SessionInv'
<1>1. PICK c \in calls :
        /\ c.op = op /\ c.answer # "none"
        /\ \/ SessionArrives(c) \/ SignInArrives(c) \/ PasswordChanged(c)
           \/ LogoutArrives(c) \/ ListsArrive(c) \/ Refused(c)
        /\ calls' = StillHere(calls \ {c}) \union EffectOf(view')
  BY DEF Deliver
<1>2. /\ cookie' = cookie /\ started' = started /\ cookie \in Generations
      /\ started \in Generations
  BY DEF Deliver, SessionInv
<1>3. c \in Calls /\ CallOK(c) /\ c.gen \in Generations
  BY <1>1 DEF SessionInv, Calls
<1>4. EffectOf(view') \subseteq {Request("lists")}
  BY DEF EffectOf
<1>5. /\ Request("lists") \in Calls /\ Request("lists").op = "lists"
  BY RequestsAreCalls DEF Ops
<1>6. calls' \subseteq Calls
  BY <1>1, <1>4, <1>5, ScreenKeepsCalls
\* What is left to show of an answer: its token, and whose session is shown.
<1>7. ASSUME csrf' \in Generations, shown' \in Generations, TokenIsOfTheShownSession',
             \/ ~Mounted'
             \/ ~outlived' => ~outlived /\ csrf' = csrf
      PROVE  SessionInv'
  <2>1. ASSUME NEW x \in calls' PROVE CallOK(x)'
    <3>1. CASE x \in StillHere(calls \ {c})
      <4>1. PICK d \in calls \ {c} :
              /\ x.op = d.op /\ x.answer = d.answer /\ x.csrf = d.csrf
              /\ x.gen = d.gen /\ (x.here => d.here)
        BY <3>1, ScreenKeepsCalls
      <4>2. (x.op = "change" /\ x.here) => Mounted'
        BY <3>1, ScreenKeepsCalls
      <4>3. CallOK(d) /\ d.op # "session"
        BY <1>1, <4>1 DEF SessionInv, CallOK
      <4>4. x.op # "session"
        BY <4>1, <4>3
      <4>5. ASSUME x.op = "change", x.here, ~outlived'
            PROVE  ~outlived /\ csrf' = csrf /\ d.op = "change" /\ d.here
        BY <1>7, <4>1, <4>2, <4>5
      <4>6. ASSUME x.op = "change", x.here, ~outlived'
            PROVE  /\ x.answer = "none" => x.csrf = csrf'
                   /\ x.answer = "ok" => x.gen \in {0, csrf'}
        BY <4>1, <4>3, <4>5, <4>6 DEF CallOK
      <4> QED
        BY <4>2, <4>4, <4>6 DEF CallOK
    <3>2. CASE x \in EffectOf(view')
      BY <1>4, <1>5, <3>2 DEF CallOK
    <3> QED BY <1>1, <2>1, <3>1, <3>2
  <2> QED
    BY <1>2, <1>6, <1>7, <2>1 DEF SessionInv
<1>8. csrf \in Generations /\ shown \in Generations /\ TokenIsOfTheShownSession
  BY DEF SessionInv
<1>9. CASE SessionArrives(c)
  <2>1. /\ csrf' = c.gen /\ shown' = c.gen /\ loading' = loading
        /\ view' = IF c.gen = 0 THEN "anonymous" ELSE IF c.must THEN "mustChange"
                   ELSE "console"
    BY <1>9 DEF SessionArrives
  <2>2. view = "boot" /\ calls = {c}
    BY <1>3, <1>9 DEF SessionArrives, CallOK
  <2>3. calls' \subseteq {Request("lists")}
    BY <1>1, <1>4, <2>2 DEF StillHere
  <2>4. \A x \in calls' : CallOK(x)'
    BY <1>5, <2>3 DEF CallOK
  <2>5. TokenIsOfTheShownSession'
    BY <2>1 DEF TokenIsOfTheShownSession
  <2> QED
    BY <1>2, <1>3, <1>6, <2>1, <2>4, <2>5 DEF SessionInv
<1>10. CASE SignInArrives(c)
  <2>1. /\ csrf' = c.gen /\ shown' = c.gen /\ loading' = TRUE /\ outlived' = (c.gen = 0)
        /\ view' = IF c.must THEN "mustChange" ELSE "console"
    BY <1>10 DEF SignInArrives, LoggedIn
  <2>2. ~Mounted'
    BY <2>1 DEF Mounted, PageShown
  <2>3. TokenIsOfTheShownSession'
    BY <2>1 DEF TokenIsOfTheShownSession
  <2> QED
    BY <1>3, <1>7, <2>1, <2>2, <2>3
<1>11. CASE PasswordChanged(c)
  <2>1. /\ csrf' = c.gen /\ UNCHANGED <<view, shown>>
        /\ outlived' = (outlived \/ (c.gen # shown /\ (~c.here \/ c.gen = 0)))
        /\ c.op = "change" /\ c.answer = "ok"
    BY <1>11 DEF PasswordChanged
  <2>2. ASSUME ~outlived' PROVE ~outlived /\ csrf' = csrf /\ csrf = shown
    <3>1. ~outlived
      BY <2>1, <2>2
    <3>2. csrf = shown
      BY <1>8, <3>1 DEF TokenIsOfTheShownSession
    <3>3. c.here => c.gen \in {0, csrf}
      BY <1>3, <2>1, <3>1 DEF CallOK
    <3> QED BY <2>1, <2>2, <3>1, <3>2, <3>3
  <2>3. TokenIsOfTheShownSession'
    BY <1>8, <2>1, <2>2 DEF TokenIsOfTheShownSession
  <2> QED
    BY <1>3, <1>7, <1>8, <2>1, <2>2, <2>3
<1>12. CASE LogoutArrives(c) \/ (Refused(c) /\ c.answer = "denied")
  <2>1. view' = "anonymous" /\ csrf' = 0 /\ shown' = 0
    BY <1>12 DEF LogoutArrives, Refused, Expired
  <2>2. ~Mounted' /\ TokenIsOfTheShownSession'
    BY <2>1 DEF Mounted, PageShown, TokenIsOfTheShownSession
  <2> QED
    BY <1>7, <2>1, <2>2, NoneIsAGeneration
<1>13. CASE ListsArrive(c) \/ (Refused(c) /\ c.answer # "denied")
  <2>1. UNCHANGED <<view, csrf, shown, outlived>>
    BY <1>13 DEF ListsArrive, Refused
  <2>2. TokenIsOfTheShownSession'
    BY <1>8, <2>1 DEF TokenIsOfTheShownSession
  <2> QED
    BY <1>7, <1>8, <2>1, <2>2
<1> QED
  BY <1>1, <1>9, <1>10, <1>11, <1>12, <1>13

\* Asking again for the lists takes the page off screen until they arrive.
LEMMA RetryKeepsSession ==
  ASSUME SessionInv, RetryLoading
  PROVE  SessionInv'
<1>1. /\ UNCHANGED <<cookie, started, view, csrf, shown, outlived>> /\ loading' = TRUE
      /\ view = "console" /\ calls' = StillHere(calls) \union {Request("lists")}
  BY DEF RetryLoading
<1>2. ~Mounted'
  BY <1>1 DEF Mounted, PageShown
<1>3. Request("lists") \in Calls /\ Request("lists").op = "lists"
  BY RequestsAreCalls DEF Ops
<1>4. ASSUME NEW x \in calls' PROVE x \in Calls /\ CallOK(x)'
  <2>1. CASE x \in StillHere(calls)
    <3>1. /\ x \in Calls
          /\ (x.op = "change" /\ x.here) => Mounted'
          /\ \E d \in calls : x.op = d.op
      BY <2>1, ScreenKeepsCalls
    <3>2. x.op # "session"
      BY <1>1, <3>1 DEF SessionInv, CallOK
    <3>3. ~(x.op = "change" /\ x.here)
      BY <1>2, <3>1
    <3> QED BY <3>1, <3>2, <3>3 DEF CallOK
  <2>2. CASE x = Request("lists")
    BY <1>3, <2>2 DEF CallOK
  <2> QED BY <1>1, <2>1, <2>2
<1> QED
  BY <1>1, <1>4 DEF SessionInv, TokenIsOfTheShownSession

\* A step that leaves the console's session and the requests alone.
LEMMA OthersKeepSession ==
  ASSUME SessionInv, UNCHANGED <<cookie, started, shell, calls>>
  PROVE  SessionInv'
  BY DEF SessionInv, CallOK, Mounted, PageShown, TokenIsOfTheShownSession, shell

(* Whatever answers of earlier sessions are still to arrive, the token the *)
(* console sends is that of the session it shows (App.tsx, setCSRF beside  *)
(* every setSession; ExpiredKeepsToken would not do), but for the late     *)
(* answers to a new password that outlived records: the settings' form     *)
(* takes over the token alone (SettingsPage.tsx:239), which changes        *)
(* nothing while the form that sent it is on screen.                       *)
THEOREM TokenFollowsSession == Spec => []TokenIsOfTheShownSession
<1>1. Init => SessionInv
  <2> SUFFICES ASSUME Init PROVE SessionInv
    OBVIOUS
  <2>1. /\ cookie = 0 /\ csrf = 0 /\ shown = 0 /\ started = 0 /\ view = "boot"
        /\ calls = {[op |-> "session", cookie |-> 0, csrf |-> 0, answer |-> "none",
                     gen |-> 0, must |-> FALSE, here |-> TRUE]}
    BY DEF Init, InitSession
  <2>2. calls \subseteq Calls
    BY <2>1, NoneIsAGeneration DEF Calls, Ops, Answers
  <2>3. ASSUME NEW c \in calls PROVE CallOK(c)
    <3> DEFINE asked == [op |-> "session", cookie |-> 0, csrf |-> 0, answer |-> "none",
                         gen |-> 0, must |-> FALSE, here |-> TRUE]
    <3>1. asked.op = "session"
      OBVIOUS
    <3> HIDE DEF asked
    <3>2. calls = {asked}
      BY <2>1 DEF asked
    <3>3. c.op = "session" /\ calls = {c}
      BY <3>1, <3>2
    <3> QED BY <2>1, <3>3 DEF CallOK
  <2> QED
    BY <2>1, <2>2, <2>3, NoneIsAGeneration DEF SessionInv, TokenIsOfTheShownSession
<1>2. SessionInv /\ [Next]_vars => SessionInv'
  <2> SUFFICES ASSUME SessionInv, [Next]_vars PROVE SessionInv'
    OBVIOUS
  <2>1. CASE ClickLink \/ FinishAndLeave \/ ChangeGuard \/ PressBackOrForward \/ Traverse
    <3>1. UNCHANGED <<cookie, started, shell, calls>>
      BY <2>1 DEF ClickLink, Navigate, FinishAndLeave, ChangeGuard, PressBackOrForward,
                  Traverse, session
    <3> QED BY <3>1, OthersKeepSession
  <2>2. CASE SubmitLogin \/ SubmitPassword \/ ChangePassword \/ AskLogout \/ AskToLeave
             \/ PageAsks
    <3>1. PICK op \in Ops \ {"session"} : Ask(op) /\ (op = "change" => Mounted)
      BY <2>2 DEF SubmitLogin, SubmitPassword, ChangePassword, AskLogout, AskToLeave,
                  PageAsks, Ops
    <3>2. UNCHANGED session /\ view # "boot"
      BY <2>2 DEF SubmitLogin, SubmitPassword, ChangePassword, AskLogout, AskToLeave,
                  PageAsks, Mounted, PageShown
    <3> QED BY <3>1, <3>2, SendingKeepsSession
  <2>3. CASE RetryLoading
    BY <2>3, RetryKeepsSession
  <2>4. CASE LoadDocument
    BY <2>4, ReloadKeepsSession DEF LoadDocument
  <2>5. CASE LeaveArrives
    <3>1. PICK c \in calls :
            \/ Reloaded
            \/ calls' = calls \ {c} /\ UNCHANGED <<cookie, started, shell>>
      BY <2>5 DEF LeaveArrives, session
    <3>2. CASE Reloaded
      BY <3>2, ReloadKeepsSession
    <3>3. CASE calls' = calls \ {c} /\ UNCHANGED <<cookie, started, shell>>
      <4>1. Mounted' <=> Mounted
        BY <3>3 DEF Mounted, shell
      <4>2. ASSUME NEW d \in calls' PROVE d \in Calls /\ CallOK(d)'
        <5>1. d \in calls /\ d \in Calls /\ CallOK(d) /\ d # c
          BY <3>3 DEF SessionInv
        <5>2. d.op # "session"
          BY <3>1, <5>1 DEF CallOK
        <5> QED BY <3>3, <4>1, <5>1, <5>2 DEF CallOK, shell
      <4> QED BY <3>3, <4>2 DEF SessionInv, TokenIsOfTheShownSession, shell
    <3> QED BY <3>1, <3>2, <3>3
  <2>6. CASE SessionEnds
    BY <2>6, OthersKeepSession DEF SessionEnds
  <2>7. CASE \E op \in Ops : Serve(op) \/ Deliver(op)
    BY <2>7, ServeKeepsSession, DeliverKeepsSession
  <2>8. CASE UNCHANGED vars
    BY <2>8, OthersKeepSession DEF vars, session
  <2> QED
    BY <2>1, <2>2, <2>3, <2>4, <2>5, <2>6, <2>7, <2>8 DEF Next
<1>3. SessionInv => TokenIsOfTheShownSession
  BY DEF SessionInv
<1> QED
  BY <1>1, <1>2, <1>3, PTL DEF Spec
-----------------------------------------------------------------------------
(***************************************************************************)
(* The browser's history                                                   *)
(***************************************************************************)
Entries == [url : Paths, index : Nat]
Steps == {-1, 1}

\* Where the browser is while traversals are queued: at the page's own entry; one beside
\* it, with the way back queued and awaited; or two beside it, because another traversal
\* was taken for the awaited one, with the way back at the head of the queue.
AtHome == at = home /\ ~restoring
OneBeside == \E o \in Steps : /\ at = home + o /\ restoring
                              /\ \E i \in 1 .. Len(pending) : pending[i] = -o
TwoBeside == \E o \in Steps : /\ at = home + 2 * o /\ ~restoring
                              /\ pending # <<>> /\ pending[1] = -o

\* The page is the one of its entry, and the recorded indices count the entries.
InStep ==
  /\ entries \in Seq(Entries) /\ at \in 1 .. Len(entries) /\ home \in 1 .. Len(entries)
  /\ pending \in Seq(Steps) /\ Len(pending) <= 2
  /\ index \in Nat /\ restoring \in BOOLEAN
  /\ \A i \in 1 .. Len(entries) : entries[i].index = index + (i - home)
  /\ entries[home].url = address /\ path = address
  /\ AtHome \/ OneBeside \/ TwoBeside

HistoryInv == skewed \in BOOLEAN /\ (~skewed => InStep)

\* A step that leaves browser and address alone.
LEMMA OthersKeepHistory ==
  ASSUME HistoryInv, UNCHANGED <<browser, route>>
  PROVE  HistoryInv'
  BY DEF HistoryInv, InStep, AtHome, OneBeside, TwoBeside, browser, route

\* Showing another page pushes its entry after the page's own, or is noted as skewed.
LEMMA GoKeepsHistory ==
  ASSUME HistoryInv, NEW next \in Paths, Go(next), pending' = pending
  PROVE  HistoryInv'
<1>1. CASE next = address
  BY <1>1, OthersKeepHistory DEF Go, browser
<1>2. CASE next # address
  <2>1. /\ index' = index + 1
        /\ entries' = Append(SubSeq(entries, 1, at), [url |-> next, index |-> index + 1])
        /\ at' = at + 1 /\ home' = at + 1
        /\ skewed' = (skewed \/ at # home)
        /\ address' = next /\ path' = next /\ restoring' = restoring
    BY <1>2 DEF Go, Push, Show
  <2>2. skewed' \in BOOLEAN
    BY <2>1 DEF HistoryInv
  <2>3. ASSUME ~skewed' PROVE InStep'
    <3>1. InStep /\ at = home
      BY <2>1, <2>3 DEF HistoryInv
    <3>2. AtHome
      BY <3>1 DEF InStep, OneBeside, TwoBeside, Steps
    <3> DEFINE kept == SubSeq(entries, 1, at)
               new == [url |-> next, index |-> index + 1]
    <3>3. /\ kept \in Seq(Entries) /\ Len(kept) = at
          /\ \A i \in 1 .. at : kept[i] = entries[i]
      BY <3>1, SubSeqProperties DEF InStep
    <3>4. new \in Entries
      BY <3>1 DEF InStep, Entries
    <3> HIDE DEF kept
    <3>5. /\ entries' \in Seq(Entries) /\ Len(entries') = at + 1
          /\ \A i \in 1 .. at : entries'[i] = kept[i]
          /\ entries'[at + 1] = new
      BY <2>1, <3>1, <3>3, <3>4, AppendProperties DEF kept, InStep
    <3>6. at \in Nat /\ index \in Nat /\ at \in 1 .. Len(entries) /\ Len(entries) \in Nat
      BY <3>1, LenProperties DEF InStep
    <3>7. \A i \in 1 .. Len(entries') : entries'[i].index = index' + (i - home')
      <4> SUFFICES ASSUME NEW i \in 1 .. (at + 1)
                   PROVE  entries'[i].index = index' + (i - home')
        BY <3>5
      <4>1. CASE i \in 1 .. at
        <5>1. entries'[i] = entries[i] /\ i \in 1 .. Len(entries)
          BY <3>3, <3>5, <3>6, <4>1
        <5>2. entries[i].index = index + (i - at)
          BY <3>1, <5>1 DEF InStep
        <5> QED
          BY <2>1, <3>6, <5>1, <5>2
      <4>2. CASE i = at + 1
        BY <2>1, <3>5, <3>6, <4>2
      <4> QED
        BY <3>6, <4>1, <4>2
    <3>8. entries'[home'].url = address' /\ path' = address'
      BY <2>1, <3>5
    <3>9. AtHome'
      BY <2>1, <3>2 DEF AtHome
    <3>10. /\ entries' \in Seq(Entries)
           /\ at' \in 1 .. Len(entries') /\ home' \in 1 .. Len(entries')
      BY <2>1, <3>5, <3>6
    <3>11. pending' \in Seq(Steps) /\ Len(pending') <= 2
      BY <3>1 DEF InStep
    <3>12. index' \in Nat /\ restoring' \in BOOLEAN
      BY <2>1, <3>1, <3>6 DEF InStep
    <3> QED
      BY <3>7, <3>8, <3>9, <3>10, <3>11, <3>12, Zenon DEF InStep
  <2> QED
    BY <2>2, <2>3 DEF HistoryInv
<1> QED
  BY <1>1, <1>2

\* A third traversal behind two queued ones is noted as skewed.
LEMMA PressKeepsHistory ==
  ASSUME HistoryInv, PressBackOrForward
  PROVE  HistoryInv'
<1>1. PICK d \in Steps : pending' = Append(pending, d)
  BY DEF PressBackOrForward, Steps
<1>2. /\ skewed' = (Len(pending) > 1) /\ ~skewed
      /\ UNCHANGED <<entries, at, index, address, path, restoring, home>>
  BY DEF PressBackOrForward
<1>3. skewed' \in BOOLEAN /\ InStep
  BY <1>2 DEF HistoryInv
<1>4. ASSUME ~skewed' PROVE InStep'
  <2> pending \in Seq(Steps)
    BY <1>3 DEF InStep
  <2>1. Len(pending) \in Nat /\ Len(pending) <= 1
    <3>1. Len(pending) \in Nat
      BY LenProperties
    <3>2. ~(Len(pending) > 1)
      BY <1>2, <1>4, Zenon
    <3>3. PICK n \in Nat : n = Len(pending)
      BY <3>1
    <3> QED
      BY <3>2, <3>3
  <2>2. /\ pending' \in Seq(Steps) /\ Len(pending') = Len(pending) + 1
        /\ \A i \in 1 .. Len(pending) : pending'[i] = pending[i]
    BY <1>1, <2>1, AppendProperties
  <2>3. CASE AtHome
    BY <1>2, <1>3, <2>1, <2>2, <2>3 DEF InStep, AtHome
  <2>4. CASE OneBeside
    <3>1. PICK o \in Steps : /\ at = home + o /\ restoring
                             /\ \E i \in 1 .. Len(pending) : pending[i] = -o
      BY <2>4 DEF OneBeside
    <3>2. \E i \in 1 .. Len(pending') : pending'[i] = -o
      BY <2>1, <2>2, <3>1
    <3>3. OneBeside'
      BY <1>2, <3>1, <3>2 DEF OneBeside
    <3> QED
      BY <1>2, <1>3, <2>1, <2>2, <3>3 DEF InStep
  <2>5. CASE TwoBeside
    <3>1. PICK o \in Steps : /\ at = home + 2 * o /\ ~restoring
                             /\ pending # <<>> /\ pending[1] = -o
      BY <2>5 DEF TwoBeside
    <3>2. 1 \in 1 .. Len(pending)
      BY <2>1, <3>1, LenProperties
    <3>3. pending' # <<>> /\ pending'[1] = -o
      BY <2>2, <3>1, <3>2
    <3>4. TwoBeside'
      BY <1>2, <3>1, <3>3 DEF TwoBeside
    <3> QED
      BY <1>2, <1>3, <2>1, <2>2, <3>4 DEF InStep
  <2> QED
    BY <1>3, <2>3, <2>4, <2>5 DEF InStep
<1> QED
  BY <1>3, <1>4 DEF HistoryInv

\* What is left of the queue when its head is taken.
LEMMA TakingTheHead ==
  ASSUME InStep, pending # <<>>
  PROVE  /\ pending[1] \in Steps /\ Head(pending) = pending[1]
         /\ Tail(pending) \in Seq(Steps) /\ Len(pending) \in 1 .. 2
         /\ Len(Tail(pending)) = Len(pending) - 1
         /\ \A i \in 1 .. Len(pending) - 1 : Tail(pending)[i] = pending[i + 1]
<1>1. pending \in Seq(Steps) /\ Len(pending) <= 2
  BY DEF InStep
<1>2. Len(pending) \in Nat /\ Len(pending) # 0
  BY <1>1, LenProperties
<1>3. Len(pending) \in 1 .. 2 /\ 1 \in 1 .. Len(pending)
  <2>1. PICK n \in Nat : n = Len(pending)
    BY <1>2
  <2>2. n \in 1 .. 2 /\ 1 \in 1 .. n
    BY <1>1, <1>2, <2>1
  <2> QED
    BY <2>1, <2>2
<1>4. pending[1] \in Steps
  BY <1>1, <1>3, ElementOfSeq
<1>5. Head(pending) = pending[1]
  BY DEF Head
<1>6. /\ Tail(pending) \in Seq(Steps) /\ Len(Tail(pending)) = Len(pending) - 1
      /\ \A i \in 1 .. Len(Tail(pending)) : Tail(pending)[i] = pending[i + 1]
  BY <1>1, HeadTailProperties
<1> QED
  BY <1>3, <1>4, <1>5, <1>6

\* A page without unsaved work follows the browser.
LEMMA AcceptKeepsHistory ==
  ASSUME InStep, pending # <<>>, NEW to \in 1 .. Len(entries), ~restoring,
         AcceptTraversal(to)
  PROVE  InStep'
<1>1. /\ at' = to /\ home' = to /\ pending' = Tail(pending)
      /\ index' = entries[to].index
      /\ address' = entries[to].url /\ path' = entries[to].url
      /\ entries' = entries /\ restoring' = restoring
  BY DEF AcceptTraversal, Show
<1>2. pending' \in Seq(Steps) /\ Len(pending') <= 2
  BY <1>1, TakingTheHead
<1>3. /\ entries \in Seq(Entries) /\ Len(entries) \in Nat /\ entries[to] \in Entries
      /\ home \in 1 .. Len(entries) /\ index \in Nat
  BY LenProperties, ElementOfSeq DEF InStep
<1>4. index' \in Nat
  BY <1>1, <1>3 DEF Entries
<1>5. index' = index + (to - home)
  BY <1>1 DEF InStep
<1>6. \A i \in 1 .. Len(entries') : entries'[i].index = index' + (i - home')
  <2> SUFFICES ASSUME NEW i \in 1 .. Len(entries)
               PROVE  entries[i].index = index' + (i - to)
    BY <1>1
  <2>1. entries[i].index = index + (i - home)
    BY DEF InStep
  <2> QED
    BY <1>3, <1>5, <2>1
<1>7. AtHome'
  BY <1>1 DEF AtHome
<1> QED
  BY <1>1, <1>2, <1>3, <1>4, <1>6, <1>7 DEF InStep

\* A page with unsaved work one entry away asks the browser back.
LEMMA RefuseKeepsHistory ==
  ASSUME InStep, pending # <<>>, NEW o \in Steps, home + o \in 1 .. Len(entries),
         RefuseTraversal(home + o)
  PROVE  InStep' /\ skewed' = skewed
<1>1. home \in 1 .. Len(entries) /\ index \in Nat /\ entries[home + o].index = index + o
  <2>1. entries[home + o].index = index + ((home + o) - home)
    BY DEF InStep
  <2>2. home \in 1 .. Len(entries) /\ index \in Nat
    BY DEF InStep
  <2>3. home \in Int
    BY <2>2
  <2> QED
    BY <2>1, <2>2, <2>3 DEF Steps
<1>2. entries[home + o].index # index /\ index - entries[home + o].index = -o
  BY <1>1 DEF Steps
<1>3. /\ restoring' = TRUE /\ pending' = Append(Tail(pending), -o) /\ at' = home + o
      /\ UNCHANGED <<entries, index, address, path, home, skewed>>
  BY <1>2 DEF RefuseTraversal
<1>4. Tail(pending) \in Seq(Steps) /\ Len(Tail(pending)) \in 0 .. 1
  BY TakingTheHead
<1>5. -o \in Steps
  BY DEF Steps
<1>6. /\ pending' \in Seq(Steps) /\ Len(pending') = Len(Tail(pending)) + 1
      /\ pending'[Len(Tail(pending)) + 1] = -o
  BY <1>3, <1>4, <1>5, AppendProperties
<1>7. \E i \in 1 .. Len(pending') : pending'[i] = -o
  BY <1>4, <1>6
<1>8. OneBeside'
  BY <1>3, <1>7 DEF OneBeside
<1>9. /\ entries' \in Seq(Entries)
      /\ at' \in 1 .. Len(entries') /\ home' \in 1 .. Len(entries')
      /\ index' \in Nat /\ restoring' \in BOOLEAN
      /\ entries'[home'].url = address' /\ path' = address'
  BY <1>1, <1>3 DEF InStep
<1>10. \A i \in 1 .. Len(entries') : entries'[i].index = index' + (i - home')
  <2>1. \A i \in 1 .. Len(entries) : entries[i].index = index + (i - home)
    BY DEF InStep
  <2>2. entries' = entries /\ index' = index /\ home' = home
    BY <1>3
  <2> QED
    BY <2>1, <2>2, Zenon
<1>11. Len(pending') <= 2
  <2>1. PICK n \in 0 .. 1 : n = Len(Tail(pending))
    BY <1>4
  <2>2. Len(pending') = n + 1
    BY <1>6, <2>1
  <2> QED
    BY <2>2
<1>12. skewed' = skewed
  BY <1>3
<1> QED
  BY <1>6, <1>8, <1>9, <1>10, <1>11, <1>12, Zenon DEF InStep

\* A traversal that is taken while the history is in step keeps it so.
LEMMA TraverseKeepsHistory ==
  ASSUME HistoryInv, Traverse
  PROVE  HistoryInv'
<1>1. skewed' \in BOOLEAN /\ (~skewed' => ~skewed)
  BY DEF HistoryInv, Traverse, PopState, AcceptTraversal, RefuseTraversal, route
<1> SUFFICES ASSUME ~skewed PROVE InStep'
  BY <1>1 DEF HistoryInv
<1>2. InStep /\ pending # <<>>
  BY DEF HistoryInv, Traverse
<1>3. PICK d \in Steps : d = pending[1] /\ Head(pending) = d
  BY <1>2, TakingTheHead
<1>4. /\ Tail(pending) \in Seq(Steps) /\ Len(pending) \in 1 .. 2
      /\ Len(Tail(pending)) = Len(pending) - 1
      /\ \A i \in 1 .. Len(pending) - 1 : Tail(pending)[i] = pending[i + 1]
  BY <1>2, TakingTheHead
<1>5. /\ at \in 1 .. Len(entries) /\ home \in 1 .. Len(entries) /\ index \in Nat
      /\ restoring \in BOOLEAN
  BY <1>2 DEF InStep
<1>6. CASE at + d \notin 1 .. Len(entries)
  <2>1. pending' = Tail(pending) /\ UNCHANGED <<entries, at, route>>
    BY <1>3, <1>6 DEF Traverse
  <2>2. ~TwoBeside
    BY <1>3, <1>5, <1>6 DEF TwoBeside, Steps
  <2>3. CASE AtHome
    BY <1>2, <1>4, <2>1, <2>3 DEF InStep, AtHome, route
  <2>4. CASE OneBeside
    <3>1. PICK o \in Steps : /\ at = home + o /\ restoring
                             /\ \E i \in 1 .. Len(pending) : pending[i] = -o
      BY <2>4 DEF OneBeside
    <3>2. PICK i \in 1 .. Len(pending) : pending[i] = -o
      BY <3>1
    <3>3. d # -o
      BY <1>5, <1>6, <3>1 DEF Steps
    <3>4. i = 2 /\ Len(pending) = 2
      BY <1>3, <1>4, <3>2, <3>3
    <3>5. Len(pending') = 1 /\ pending'[1] = -o
      <4>1. Len(Tail(pending)) = 1 /\ 1 \in 1 .. Len(pending) - 1
        BY <1>4, <3>4
      <4>2. Tail(pending)[1] = pending[1 + 1]
        BY <1>4, <4>1
      <4>3. Tail(pending)[1] = -o
        BY <3>2, <3>4, <4>2
      <4> QED
        BY <2>1, <4>1, <4>3
    <3>6. OneBeside'
      <4>1. at' = home' + o /\ restoring'
        BY <2>1, <3>1 DEF route
      <4>2. 1 \in 1 .. Len(pending')
        BY <3>5
      <4> QED
        BY <3>5, <4>1, <4>2 DEF OneBeside
    <3> QED
      BY <1>2, <1>4, <2>1, <3>6 DEF InStep, route
  <2> QED
    BY <1>2, <2>2, <2>3, <2>4 DEF InStep
<1>7. CASE at + d \in 1 .. Len(entries) /\ ~restoring
  <2>1. PICK o \in Steps : at + d = home + o
    <3>1. AtHome \/ TwoBeside
      BY <1>2, <1>7 DEF InStep, OneBeside
    <3>2. CASE AtHome
      BY <1>3, <3>2 DEF AtHome
    <3>3. CASE TwoBeside
      <4>1. PICK o \in Steps : at = home + 2 * o /\ d = -o
        BY <1>3, <3>3 DEF TwoBeside
      <4>2. at + d = home + o
        BY <1>5, <4>1 DEF Steps
      <4> QED
        BY <4>1, <4>2
    <3> QED
      BY <3>1, <3>2, <3>3
  <2>2. PopState(at + d)
    BY <1>3, <1>7 DEF Traverse
  <2>3. CASE CanNavigate
    <3>1. AcceptTraversal(at + d)
      BY <1>7, <2>2, <2>3 DEF PopState
    <3> QED
      BY <1>2, <1>7, <3>1, AcceptKeepsHistory
  <2>4. CASE ~CanNavigate
    <3>1. RefuseTraversal(home + o)
      BY <1>7, <2>1, <2>2, <2>4 DEF PopState
    <3> QED
      BY <1>2, <1>7, <2>1, <3>1, RefuseKeepsHistory
  <2> QED
    BY <2>3, <2>4
<1>8. CASE at + d \in 1 .. Len(entries) /\ restoring
  <2>1. /\ restoring' = FALSE /\ at' = at + d /\ pending' = Tail(pending)
        /\ UNCHANGED <<entries, index, address, path, home, skewed>>
    BY <1>3, <1>8 DEF Traverse, PopState
  <2>2. PICK o \in Steps : /\ at = home + o
                           /\ \E i \in 1 .. Len(pending) : pending[i] = -o
    BY <1>2, <1>8 DEF InStep, AtHome, OneBeside, TwoBeside
  <2>3. PICK i \in 1 .. Len(pending) : pending[i] = -o
    BY <2>2
  <2>4. ASSUME AtHome' \/ TwoBeside' PROVE InStep'
    <3>1. pending' \in Seq(Steps) /\ Len(pending') <= 2
      <4>1. PICK n \in 1 .. 2 : n = Len(pending)
        BY <1>4
      <4>2. Len(Tail(pending)) = Len(pending) - 1
        BY <1>4
      <4>3. Len(Tail(pending)) = n - 1 /\ n - 1 <= 2
        BY <4>1, <4>2
      <4> QED
        BY <1>4, <2>1, <4>3
    <3>2. at' \in 1 .. Len(entries')
      BY <1>8, <2>1
    <3> QED
      BY <1>2, <2>1, <2>4, <3>1, <3>2 DEF InStep
  <2>5. CASE d = -o
    <3>1. AtHome'
      BY <1>5, <2>1, <2>2, <2>5 DEF AtHome, Steps
    <3> QED
      BY <2>4, <3>1
  <2>6. CASE d # -o
    <3>1. d = o /\ i = 2 /\ Len(pending) = 2
      BY <1>3, <1>4, <2>3, <2>6 DEF Steps
    <3>2. Len(pending') = 1 /\ pending'[1] = -o /\ pending' # <<>>
      <4>1. Len(Tail(pending)) = 1 /\ 1 \in 1 .. Len(pending) - 1
        BY <1>4, <3>1
      <4>2. Tail(pending)[1] = pending[1 + 1] /\ Tail(pending) # <<>>
        BY <1>4, <4>1, EmptySeq
      <4> QED
        BY <2>1, <2>3, <3>1, <4>1, <4>2
    <3>3. at' = home' + 2 * o
      BY <1>5, <2>1, <2>2, <3>1 DEF Steps
    <3>4. TwoBeside'
      BY <2>1, <3>2, <3>3 DEF TwoBeside
    <3> QED
      BY <2>4, <3>4
  <2> QED
    BY <2>5, <2>6
<1> QED
  BY <1>5, <1>6, <1>7, <1>8

\* A reload starts counting again, and is noted as skewed unless the entry is the only one.
LEMMA ReloadKeepsHistory ==
  ASSUME HistoryInv, Reloaded
  PROVE  HistoryInv'
<1>1. /\ index' = 0 /\ restoring' = FALSE /\ home' = at /\ pending' = <<>> /\ at' = at
      /\ address' = entries[at].url /\ path' = entries[at].url
      /\ entries' = [entries EXCEPT ![at].index = 0]
      /\ skewed' = (skewed \/ Len(entries) > 1)
  BY DEF Reloaded, Show
<1>2. skewed' \in BOOLEAN
  BY <1>1 DEF HistoryInv
<1>3. ASSUME ~skewed' PROVE InStep'
  <2>1. InStep /\ ~(Len(entries) > 1)
    BY <1>1, <1>3 DEF HistoryInv
  <2>2. entries \in Seq(Entries) /\ at \in 1 .. Len(entries)
    BY <2>1 DEF InStep
  <2>3. Len(entries) = 1 /\ at = 1
    <3>1. Len(entries) \in Nat
      BY <2>2, LenProperties
    <3>2. PICK n \in Nat : n = Len(entries)
      BY <3>1
    <3>3. n = 1 /\ at = 1
      BY <2>1, <2>2, <3>2
    <3> QED
      BY <3>2, <3>3
  <2> DEFINE first == [entries[1] EXCEPT !.index = 0]
  <2>4. entries[1] \in Entries
    BY <2>2, <2>3, ElementOfSeq
  <2>5. first \in Entries /\ first.index = 0 /\ first.url = entries[1].url
    BY <2>4 DEF Entries
  <2>6. entries' = [entries EXCEPT ![1] = first]
    BY <1>1, <2>3
  <2> HIDE DEF first
  <2>7. entries' \in Seq(Entries) /\ Len(entries') = 1 /\ entries'[1] = first
    <3>1. 1 \in 1 .. Len(entries)
      BY <2>3
    <3>2. /\ [entries EXCEPT ![1] = first] \in Seq(Entries)
          /\ Len([entries EXCEPT ![1] = first]) = Len(entries)
          /\ \A j \in 1 .. Len(entries) :
               [entries EXCEPT ![1] = first][j] = IF j = 1 THEN first ELSE entries[j]
      BY <2>2, <2>5, <3>1, ExceptSeq
    <3> QED
      BY <2>3, <2>6, <3>1, <3>2
  <2>8. pending' \in Seq(Steps) /\ Len(pending') <= 2
    BY <1>1, EmptySeq
  <2>9. at' = 1 /\ home' = 1 /\ AtHome'
    BY <1>1, <2>3 DEF AtHome
  <2>10. \A i \in 1 .. Len(entries') : entries'[i].index = index' + (i - home')
    <3> SUFFICES ASSUME NEW i \in 1 .. 1 PROVE entries'[i].index = index' + (i - home')
      BY <2>7
    <3>1. i = 1 /\ index' = 0 /\ home' = 1 /\ entries'[1].index = 0
      BY <1>1, <2>5, <2>7, <2>9
    <3> QED
      BY <3>1
  <2>11. entries'[home'].url = address' /\ path' = address'
    BY <1>1, <2>3, <2>5, <2>7, <2>9
  <2>12. at' \in 1 .. Len(entries') /\ home' \in 1 .. Len(entries')
    BY <2>7, <2>9
  <2>13. index' \in Nat /\ restoring' \in BOOLEAN
    BY <1>1
  <2> QED
    BY <2>7, <2>8, <2>9, <2>10, <2>11, <2>12, <2>13 DEF InStep
<1> QED
  BY <1>2, <1>3 DEF HistoryInv

\* An answer may lead to the home page.
LEMMA DeliverKeepsHistory ==
  ASSUME HistoryInv, NEW op \in Ops, Deliver(op)
  PROVE  HistoryInv'
<1>1. pending' = pending
  BY DEF Deliver
<1>2. Go(Home) \/ UNCHANGED <<entries, at, route>>
  BY DEF Deliver, SessionArrives, SignInArrives, LoggedIn, PasswordChanged, LogoutArrives,
         ListsArrive, Refused
<1> QED
  BY <1>1, <1>2, ShellAssumption, GoKeepsHistory, OthersKeepHistory DEF browser

(* Refusing to leave a page with unsaved work finds the way back to its    *)
(* entry (App.tsx, popstate and restoringHistory): with nothing queued the *)
(* page on screen is that of the browser's address, outside the three      *)
(* circumstances skewed records; ForgetsTheFlag would not do.              *)
THEOREM PageStaysAtItsEntry == Spec => []PageKeepsItsEntry
<1>1. Init => HistoryInv
  <2> SUFFICES ASSUME Init PROVE HistoryInv
    OBVIOUS
  <2>1. PICK url \in Paths : /\ entries = <<[url |-> url, index |-> 0]>>
                             /\ address = url /\ path = url
    BY DEF Init, InitHistory
  <2>2. /\ entries \in Seq(Entries) /\ Len(entries) = 1
        /\ entries[1].index = 0 /\ entries[1].url = url
    BY <2>1 DEF Entries
  <2>3. pending \in Seq(Steps) /\ Len(pending) = 0
    BY EmptySeq DEF Init, InitHistory
  <2>4. /\ at = 1 /\ index = 0 /\ restoring = FALSE /\ home = 1 /\ skewed = FALSE
    BY DEF Init, InitHistory
  <2>5. \A i \in 1 .. Len(entries) : entries[i].index = index + (i - home)
    BY <2>2, <2>4
  <2>6. InStep
    <3>1. Len(pending) <= 2
      BY <2>3
    <3>2. at \in 1 .. Len(entries) /\ home \in 1 .. Len(entries)
      BY <2>2, <2>4
    <3>3. entries[home].url = address /\ path = address
      BY <2>1, <2>2, <2>4
    <3> QED
      BY <2>2, <2>3, <2>4, <2>5, <3>1, <3>2, <3>3 DEF InStep, AtHome
  <2> QED
    BY <2>4, <2>6 DEF HistoryInv
<1>2. HistoryInv /\ [Next]_vars => HistoryInv'
  <2> SUFFICES ASSUME HistoryInv, [Next]_vars PROVE HistoryInv'
    OBVIOUS
  <2>1. CASE ClickLink \/ FinishAndLeave
    <3>1. pending' = pending /\ \E next \in Paths : Go(next)
      BY <2>1 DEF ClickLink, Navigate, FinishAndLeave
    <3> QED BY <3>1, GoKeepsHistory
  <2>2. CASE PressBackOrForward
    BY <2>2, PressKeepsHistory
  <2>3. CASE Traverse
    BY <2>3, TraverseKeepsHistory
  <2>4. CASE LoadDocument \/ LeaveArrives
    BY <2>4, ReloadKeepsHistory, OthersKeepHistory DEF LoadDocument, LeaveArrives
  <2>5. CASE ChangeGuard \/ SubmitLogin \/ SubmitPassword \/ ChangePassword \/ AskLogout
             \/ PageAsks \/ AskToLeave
    BY <2>5, OthersKeepHistory
       DEF ChangeGuard, SubmitLogin, SubmitPassword, ChangePassword, AskLogout, PageAsks,
           AskToLeave
  <2>6. CASE RetryLoading \/ SessionEnds \/ \E op \in Ops : Serve(op)
    BY <2>6, OthersKeepHistory DEF RetryLoading, SessionEnds, Serve
  <2>7. CASE \E op \in Ops : Deliver(op)
    BY <2>7, DeliverKeepsHistory
  <2>8. CASE UNCHANGED vars
    BY <2>8, OthersKeepHistory DEF vars
  <2> QED
    BY <2>1, <2>2, <2>3, <2>4, <2>5, <2>6, <2>7, <2>8 DEF Next
<1>3. HistoryInv => PageKeepsItsEntry
  <2> SUFFICES ASSUME HistoryInv, pending = <<>>, ~skewed
               PROVE  /\ at = home /\ ~restoring
                      /\ entries[at].url = address /\ path = address
                      /\ entries[at].index = index
    BY DEF PageKeepsItsEntry
  <2>1. InStep
    BY DEF HistoryInv
  <2>2. AtHome
    BY <2>1, EmptySeq DEF InStep, OneBeside, TwoBeside
  <2>3. entries[home].index = index + (home - home)
    BY <2>1 DEF InStep
  <2> QED
    BY <2>1, <2>2, <2>3 DEF InStep, AtHome
<1> QED
  BY <1>1, <1>2, <1>3, PTL DEF Spec

(***************************************************************************)
(* The queries of a concept                                                *)
(***************************************************************************)
ConceptScreen == {"inspecting", "usage", "selected", "section"}
ConceptSection == {"state", "ready", "saved", "preview"}
ConceptCall == {"op", "source", "gone", "stage"}

\* The section is of the source on screen: what was read of another is gone with it.
SectionIsOfTheScreen(u) ==
  u.inspecting =>
    /\ u.section.state = Concept!NoState \/ u.section.state.source = Concept!Shown(u)
    /\ u.section.ready \in {Concept!Nil, Concept!Shown(u)}
    /\ u.section.saved \in {Concept!Nil, Concept!Shown(u)}
    /\ u.section.preview \in {Concept!Nil, Concept!Shown(u)}

\* The reads in flight, and a link whose section is there, are of that source too.
AskedByTheSection(c, u) ==
  (c.op \in {"state", "ready"} \/ (c.op = "link" /\ c.gone = "no")) =>
    u.inspecting /\ c.source = Concept!Shown(u)

ConceptOf(u, asks) ==
  /\ ConceptScreen \subseteq DOMAIN u /\ ConceptSection \subseteq DOMAIN u.section
  /\ SectionIsOfTheScreen(u)
  /\ \A c \in asks : ConceptCall \subseteq DOMAIN c /\ AskedByTheSection(c, u)
ConceptInv == ConceptOf(ui, requests)

LEMMA ConceptReads ==
  \A op, source, catalog, r :
    r = Concept!Request(op, source, catalog) =>
      /\ ConceptCall \subseteq DOMAIN r /\ r.op = op /\ r.source = source
<1> SUFFICES ASSUME NEW op, NEW source, NEW catalog, NEW r,
                    r = Concept!Request(op, source, catalog)
             PROVE  ConceptCall \subseteq DOMAIN r /\ r.op = op /\ r.source = source
  OBVIOUS
<1>1. PICK answer :
        r = [op |-> op, source |-> source, catalog |-> catalog, gone |-> "no",
             answer |-> answer, stage |-> "sent"]
  BY DEF Concept!Request
<1> QED
  BY <1>1 DEF ConceptCall

\* Nothing is shown of a section that is new.
LEMMA NewSection ==
  /\ ConceptSection \subseteq DOMAIN Concept!NoSection
  /\ Concept!NoSection.state = Concept!NoState
  /\ Concept!NoSection.ready = Concept!Nil /\ Concept!NoSection.saved = Concept!Nil
  /\ Concept!NoSection.preview = Concept!Nil
  BY DEF Concept!NoSection, ConceptSection

\* The reads of a section are of its source.
LEMMA SectionReads ==
  ASSUME NEW source, NEW c \in Concept!Section(source)
  PROVE  ConceptCall \subseteq DOMAIN c /\ c.op \in {"state", "ready"} /\ c.source = source
<1>1. PICK op : op \in {"state", "ready"} /\ c = Concept!Request(op, source, Concept!NoCatalog)
  BY DEF Concept!Section, Concept!Read
<1> QED
  BY <1>1, ConceptReads

\* The source on screen is of the choice and the summary alone.
LEMMA ShownIsOf ==
  \A u, v : (u.selected = v.selected /\ u.usage = v.usage) => Concept!Shown(u) = Concept!Shown(v)
  BY DEF Concept!Shown

\* What is decided of a request leaves what it asks.
LEMMA ConceptAnswered ==
  ASSUME NEW c, ConceptCall \subseteq DOMAIN c, NEW stage, NEW answer,
         NEW d \in Concept!Answered(c, stage, answer)
  PROVE  ConceptCall \subseteq DOMAIN d /\ d.op = c.op /\ d.source = c.source /\ d.gone = c.gone
<1>1. PICK none : \/ d = [c EXCEPT !.stage = stage, !.answer = answer]
                  \/ d = [c EXCEPT !.stage = "failed", !.catalog = none]
  <2>1. CASE c.gone = "no"
    BY <2>1 DEF Concept!Answered
  <2>2. CASE c.gone = "section"
    BY <2>2 DEF Concept!Answered
  <2>3. CASE c.gone # "no" /\ c.gone # "section"
    BY <2>3 DEF Concept!Answered
  <2> QED
    BY <2>1, <2>2, <2>3
<1> QED
  BY <1>1 DEF ConceptCall

\* A link without its section asks nothing of the screen.
LEMMA OrphansAreLinks ==
  ASSUME ConceptInv, NEW gone \in {"section", "all"}, NEW d \in Concept!Orphans(gone)
  PROVE  ConceptCall \subseteq DOMAIN d /\ d.op = "link" /\ d.gone # "no"
<1>1. PICK c \in requests : c.op = "link" /\ d \in Concept!Orphan(c, gone)
  BY DEF Concept!Orphans
<1>2. PICK g, none, e : /\ g = (IF c.gone = "all" THEN c.gone ELSE gone)
                        /\ none = Concept!NoCatalog
                        /\ e = [c EXCEPT !.gone = g, !.answer = none]
                        /\ d = e \/ d \in Concept!Answered(e, "failed", none)
  BY <1>1 DEF Concept!Orphan
<1>3. g # "no"
  BY <1>2
<1>4. ConceptCall \subseteq DOMAIN e /\ e.op = "link" /\ e.gone = g
  BY <1>1, <1>2 DEF ConceptInv, ConceptOf, ConceptCall
<1>5. CASE d = e
  BY <1>3, <1>4, <1>5
<1>6. CASE d \in Concept!Answered(e, "failed", none)
  BY <1>3, <1>4, <1>6, ConceptAnswered
<1> QED
  BY <1>2, <1>5, <1>6

\* The screen stays, or its section is a new one.
LEMMA ConceptShows ==
  ASSUME ConceptInv, NEW u, NEW all, ConceptScreen \subseteq DOMAIN u, u.section = ui.section,
         \A c \in all : c \in requests, Concept!Shows(u, all)
  PROVE  ConceptInv'
<1>1. CASE Concept!Stays(u) /\ ui' = u /\ requests' = all
  <2>1. ui.inspecting /\ u.inspecting /\ Concept!Shown(u) = Concept!Shown(ui)
    BY <1>1 DEF Concept!Stays
  <2>2. SectionIsOfTheScreen(u)
    BY <2>1 DEF ConceptInv, ConceptOf, SectionIsOfTheScreen
  <2>3. \A c \in all : ConceptCall \subseteq DOMAIN c /\ AskedByTheSection(c, u)
    BY <2>1 DEF ConceptInv, ConceptOf, AskedByTheSection
  <2>4. ConceptOf(u, all)
    BY <2>2, <2>3 DEF ConceptInv, ConceptOf
  <2> QED
    BY <1>1, <2>4 DEF ConceptInv
<1>2. CASE ~Concept!Stays(u)
  <2>1. PICK none, gone :
          /\ none = Concept!NoSection /\ gone \in {"section", "all"}
          /\ ui' = [u EXCEPT !.section = none]
          /\ requests' = Concept!Orphans(gone) \union {c \in all : c.op = "usage"}
                \union (IF u.inspecting THEN Concept!Section(Concept!Shown(u)) ELSE {})
    BY <1>2 DEF Concept!Shows
  <2>2. /\ ConceptScreen \subseteq DOMAIN ui' /\ ui'.section = none
        /\ ui'.inspecting = u.inspecting /\ ui'.selected = u.selected /\ ui'.usage = u.usage
    BY <2>1 DEF ConceptScreen
  <2>3. Concept!Shown(ui') = Concept!Shown(u)
    BY <2>2, ShownIsOf
  <2>4. SectionIsOfTheScreen(ui') /\ ConceptSection \subseteq DOMAIN ui'.section
    BY <2>1, <2>2, NewSection DEF SectionIsOfTheScreen
  <2>5. ASSUME NEW c \in requests'
        PROVE  ConceptCall \subseteq DOMAIN c /\ AskedByTheSection(c, ui')
    <3>1. CASE c \in Concept!Orphans(gone)
      BY <2>1, <3>1, OrphansAreLinks DEF AskedByTheSection
    <3>2. CASE c \in all /\ c.op = "usage"
      BY <3>2 DEF ConceptInv, ConceptOf, AskedByTheSection
    <3>3. CASE u.inspecting /\ c \in Concept!Section(Concept!Shown(u))
      <4>1. ConceptCall \subseteq DOMAIN c /\ c.source = Concept!Shown(u)
        BY <3>3, SectionReads
      <4> QED
        BY <2>2, <2>3, <3>3, <4>1 DEF AskedByTheSection
    <3> QED
      BY <2>1, <3>1, <3>2, <3>3
  <2> QED
    BY <2>2, <2>4, <2>5 DEF ConceptInv, ConceptOf
<1> QED
  BY <1>1, <1>2 DEF Concept!Shows

\* A screen that shows the same source, and requests of it.
LEMMA ConceptStays ==
  ASSUME ConceptInv, ConceptScreen \subseteq DOMAIN ui', ConceptSection \subseteq DOMAIN ui'.section,
         ui'.inspecting = ui.inspecting, ui'.selected = ui.selected, ui'.usage = ui.usage,
         \A f \in {"ready", "saved", "preview"} :
           ui'.section[f] \in {ui.section[f], Concept!Nil, Concept!Shown(ui)},
         \/ ui'.section.state \in {ui.section.state, Concept!NoState}
         \/ ui'.section.state.source = Concept!Shown(ui),
         \A c \in requests' :
           \/ c \in requests
           \/ /\ ConceptCall \subseteq DOMAIN c
              /\ c.op = "usage" \/ (ui.inspecting /\ c.source = Concept!Shown(ui))
              
  PROVE  ConceptInv'
<1>1. Concept!Shown(ui') = Concept!Shown(ui)
  BY ShownIsOf
<1>2. SectionIsOfTheScreen(ui')
  BY <1>1 DEF ConceptInv, ConceptOf, SectionIsOfTheScreen
<1>3. \A c \in requests' : ConceptCall \subseteq DOMAIN c /\ AskedByTheSection(c, ui')
  BY <1>1 DEF ConceptInv, ConceptOf, AskedByTheSection
<1> QED
  BY <1>2, <1>3 DEF ConceptInv, ConceptOf

\* The inspector and the choice of the source.
LEMMA ConceptMoves ==
  ASSUME ConceptInv,
         \/ Concept!InspectQueries \/ Concept!CloseInspector \/ Concept!SelectSource
  PROVE  ConceptInv'
<1>1. PICK u, s : /\ Concept!Shows(u, requests)
                  /\ \/ u = [ui EXCEPT !.inspecting = TRUE, !.selected = s, !.busy = FALSE]
                     \/ u = [ui EXCEPT !.inspecting = FALSE, !.selected = s, !.busy = FALSE]
                     \/ u = [ui EXCEPT !.selected = s]
  BY DEF Concept!InspectQueries, Concept!CloseInspector, Concept!SelectSource
<1>2. ConceptScreen \subseteq DOMAIN u /\ u.section = ui.section
  BY <1>1 DEF ConceptInv, ConceptOf, ConceptScreen
<1> QED
  BY <1>1, <1>2, ConceptShows

LEMMA ConceptReloads ==
  ASSUME ConceptInv, Concept!OntologyReloaded
  PROVE  ConceptInv'
<1>1. PICK none, u :
        /\ none = Concept!NoSection /\ ui.inspecting
        /\ u = [ui EXCEPT !.usage = FALSE, !.selected = Concept!Nil, !.busy = FALSE,
                          !.section = none]
        /\ ui' = u
        /\ requests' = Concept!Orphans("all") \union {Concept!Read("usage", Concept!Nil)}
                         \union Concept!Section(Concept!Shown(u))
  BY DEF Concept!OntologyReloaded
<1>2. ConceptScreen \subseteq DOMAIN u /\ u.section = none /\ u.inspecting
  BY <1>1 DEF ConceptInv, ConceptOf, ConceptScreen
<1>3. SectionIsOfTheScreen(u) /\ ConceptSection \subseteq DOMAIN u.section
  BY <1>1, <1>2, NewSection DEF SectionIsOfTheScreen
<1>4. ASSUME NEW c \in requests'
      PROVE  ConceptCall \subseteq DOMAIN c /\ AskedByTheSection(c, u)
  <2>1. CASE c \in Concept!Orphans("all")
    BY <2>1, OrphansAreLinks DEF AskedByTheSection
  <2>2. CASE c = Concept!Read("usage", Concept!Nil)
    BY <2>2, ConceptReads DEF Concept!Read, AskedByTheSection
  <2>3. CASE c \in Concept!Section(Concept!Shown(u))
    <3>1. ConceptCall \subseteq DOMAIN c /\ c.source = Concept!Shown(u)
      BY <2>3, SectionReads
    <3> QED
      BY <1>2, <3>1 DEF AskedByTheSection
  <2> QED
    BY <1>1, <2>1, <2>2, <2>3
<1> QED
  BY <1>1, <1>2, <1>3, <1>4 DEF ConceptInv, ConceptOf

\* What is done in the section.
LEMMA ConceptActs ==
  ASSUME ConceptInv,
         \/ Concept!Refresh \/ Concept!StartLinking \/ Concept!PickQuery \/ Concept!Link
         \/ Concept!OpenPreview \/ Concept!ClosePreview \/ Concept!RetryUsage
  PROVE  ConceptInv'
<1>1. CASE Concept!RetryUsage
  <2>1. PICK r : /\ r = Concept!Request("usage", Concept!Nil, Concept!NoCatalog)
                 /\ requests' = requests \union {r} /\ ui' = ui
    BY <1>1 DEF Concept!RetryUsage, Concept!Read
  <2>2. ConceptCall \subseteq DOMAIN r /\ r.op = "usage"
    BY <2>1, ConceptReads
  <2> QED
    BY <2>1, <2>2, ConceptStays DEF ConceptInv, ConceptOf
<1>2. CASE Concept!Refresh
  <2>1. PICK none : /\ none = Concept!NoState
          /\ ui' = [ui EXCEPT !.section = [@ EXCEPT !.state = none, !.ready = Concept!Nil,
                                             !.failed = FALSE, !.conflict = FALSE,
                                             !.saved = Concept!Nil]]
          /\ ui.inspecting
          /\ \A c \in requests' : c \in requests \/ c \in Concept!Section(Concept!Shown(ui))
    BY <1>2 DEF Concept!Refresh, Concept!Usable
  <2>2. PICK s : /\ s = [ui.section EXCEPT !.state = none, !.ready = Concept!Nil,
                                             !.failed = FALSE, !.conflict = FALSE,
                                             !.saved = Concept!Nil]
                 /\ ui' = [ui EXCEPT !.section = s]
    BY <2>1
  <2>3. /\ ConceptSection \subseteq DOMAIN s /\ s.state = none /\ s.ready = Concept!Nil
        /\ s.saved = Concept!Nil /\ s.preview = ui.section.preview
    BY <2>2 DEF ConceptInv, ConceptOf, ConceptSection
  <2>4. /\ ConceptScreen \subseteq DOMAIN ui' /\ ui'.section = s
        /\ ui'.inspecting = ui.inspecting /\ ui'.selected = ui.selected /\ ui'.usage = ui.usage
    BY <2>2 DEF ConceptInv, ConceptOf, ConceptScreen
  <2>5. \A c \in requests' : \/ c \in requests
                             \/ /\ ConceptCall \subseteq DOMAIN c
                                /\ ui.inspecting /\ c.source = Concept!Shown(ui)
    BY <2>1, SectionReads
  <2> QED
    BY <2>1, <2>3, <2>4, <2>5, ConceptStays
<1>3. CASE Concept!StartLinking \/ Concept!PickQuery
  <2>1. PICK a, s : /\ s = [ui.section EXCEPT !.linking = a] \/ s = [ui.section EXCEPT !.picked = a]
                    /\ ui' = [ui EXCEPT !.section = s] /\ requests' = requests
    <3>1. CASE Concept!StartLinking
      <4>1. PICK a : a = ~ui.section.linking
        OBVIOUS
      <4>2. ui' = [ui EXCEPT !.section = [ui.section EXCEPT !.linking = a]]
        BY <3>1, <4>1 DEF Concept!StartLinking
      <4> QED
        BY <3>1, <4>2 DEF Concept!StartLinking
    <3>2. CASE Concept!PickQuery
      BY <3>2 DEF Concept!PickQuery
    <3> QED
      BY <1>3, <3>1, <3>2
  <2>2. /\ ConceptSection \subseteq DOMAIN s /\ s.state = ui.section.state
        /\ s.ready = ui.section.ready /\ s.saved = ui.section.saved
        /\ s.preview = ui.section.preview
    BY <2>1 DEF ConceptInv, ConceptOf, ConceptSection
  <2>3. /\ ConceptScreen \subseteq DOMAIN ui' /\ ui'.section = s
        /\ ui'.inspecting = ui.inspecting /\ ui'.selected = ui.selected /\ ui'.usage = ui.usage
    BY <2>1 DEF ConceptInv, ConceptOf, ConceptScreen
  <2> QED
    BY <2>1, <2>2, <2>3, ConceptStays
<1>4. CASE Concept!Link
  <2>1. PICK r, s, source : /\ source = ui.section.state.source
                    /\ r = Concept!Request("link", source, ui.section.state.catalog)
                    /\ requests' = requests \union {r}
                    /\ s = [ui.section EXCEPT !.busy = TRUE]
                    /\ ui' = [ui EXCEPT !.busy = TRUE, !.section = s]
    BY <1>4 DEF Concept!Link, Concept!Here
  <2>2. ui.inspecting /\ source = Concept!Shown(ui)
    BY <1>4, <2>1 DEF Concept!Link, Concept!Usable, ConceptInv, ConceptOf, SectionIsOfTheScreen
  <2>3. ConceptCall \subseteq DOMAIN r /\ r.source = source
    BY <2>1, ConceptReads
  <2>4. /\ ConceptSection \subseteq DOMAIN s /\ s.state = ui.section.state
        /\ s.ready = ui.section.ready /\ s.saved = ui.section.saved
        /\ s.preview = ui.section.preview
    BY <2>1 DEF ConceptInv, ConceptOf, ConceptSection
  <2>5. /\ ConceptScreen \subseteq DOMAIN ui' /\ ui'.section = s
        /\ ui'.inspecting = ui.inspecting /\ ui'.selected = ui.selected /\ ui'.usage = ui.usage
    BY <2>1 DEF ConceptInv, ConceptOf, ConceptScreen
  <2> QED
    BY <2>1, <2>2, <2>3, <2>4, <2>5, ConceptStays
<1>5. CASE Concept!OpenPreview \/ Concept!ClosePreview
  <2>1. PICK p, s : /\ p \in {Concept!Nil, Concept!Shown(ui)} /\ s = [ui.section EXCEPT !.preview = p]
                    /\ ui' = [ui EXCEPT !.section = s] /\ requests' = requests
    BY <1>5 DEF Concept!OpenPreview, Concept!ClosePreview, Concept!Usable, Concept!Here,
                ConceptInv, ConceptOf, SectionIsOfTheScreen
  <2>2. /\ ConceptSection \subseteq DOMAIN s /\ s.state = ui.section.state
        /\ s.ready = ui.section.ready /\ s.saved = ui.section.saved
        /\ s.preview = p
    BY <2>1 DEF ConceptInv, ConceptOf, ConceptSection
  <2>3. /\ ConceptScreen \subseteq DOMAIN ui' /\ ui'.section = s
        /\ ui'.inspecting = ui.inspecting /\ ui'.selected = ui.selected /\ ui'.usage = ui.usage
    BY <2>1 DEF ConceptInv, ConceptOf, ConceptScreen
  <2> QED
    BY <2>1, <2>2, <2>3, ConceptStays
<1> QED
  BY <1>1, <1>2, <1>3, <1>4, <1>5

LEMMA ConceptServes ==
  ASSUME ConceptInv, Concept!Serve
  PROVE  ConceptInv'
<1>0. PICK c \in requests : \E stage, answer : Concept!Answer(c, stage, answer) /\ ui' = ui
  BY DEF Concept!Serve, Concept!ServeLink, Concept!ServeRead
<1>1. PICK stage, answer : /\ requests' = (requests \ {c}) \union Concept!Answered(c, stage, answer)
                           /\ ui' = ui
  BY <1>0 DEF Concept!Answer
<1>2. ConceptCall \subseteq DOMAIN c
  BY DEF ConceptInv, ConceptOf
<1>3. \A d \in Concept!Answered(c, stage, answer) :
        ConceptCall \subseteq DOMAIN d /\ d.op = c.op /\ d.source = c.source /\ d.gone = c.gone
  BY <1>2, ConceptAnswered
<1>4. \A d \in requests' : ConceptCall \subseteq DOMAIN d /\ AskedByTheSection(d, ui)
  BY <1>1, <1>3 DEF ConceptInv, ConceptOf, AskedByTheSection
<1> QED
  BY <1>1, <1>4 DEF ConceptInv, ConceptOf

LEMMA ConceptHears ==
  ASSUME ConceptInv, Concept!Deliver
  PROVE  ConceptInv'
<1>0. PICK asked \in requests : \E c \in Concept!Heard(asked) :
        LET others == requests \ {asked} IN
          \/ Concept!UsageArrives(c, others) \/ Concept!SectionRead(c, others)
          \/ Concept!LinkArrives(c, others) \/ Concept!LateLinkArrives(c, others)
  BY DEF Concept!Deliver
<1>1. PICK c, others :
        /\ c \in Concept!Heard(asked) /\ others = requests \ {asked}
        /\ \/ Concept!UsageArrives(c, others) \/ Concept!SectionRead(c, others)
           \/ Concept!LinkArrives(c, others) \/ Concept!LateLinkArrives(c, others)
  BY <1>0
<1>2. c = asked \/ c = [asked EXCEPT !.stage = "failed"]
  BY <1>1 DEF Concept!Heard
<1>3. c.op = asked.op /\ c.source = asked.source /\ c.gone = asked.gone
  BY <1>2 DEF ConceptInv, ConceptOf, ConceptCall
<1>4. AskedByTheSection(c, ui)
  BY <1>3 DEF ConceptInv, ConceptOf, AskedByTheSection
<1>5. \A d \in others : d \in requests
  BY <1>1
<1>6. CASE Concept!UsageArrives(c, others)
  <2>1. PICK u : (u = ui \/ u = [ui EXCEPT !.usage = TRUE]) /\ Concept!Shows(u, others)
    BY <1>6 DEF Concept!UsageArrives
  <2>2. ConceptScreen \subseteq DOMAIN u /\ u.section = ui.section
    BY <2>1 DEF ConceptInv, ConceptOf, ConceptScreen
  <2> QED
    BY <1>5, <2>1, <2>2, ConceptShows
<1>7. CASE Concept!SectionRead(c, others)
  <2>1. ui.inspecting /\ c.source = Concept!Shown(ui)
    BY <1>4, <1>7 DEF Concept!SectionRead, AskedByTheSection
  <2>2. PICK st, s :
          /\ st.source = c.source
          /\ \/ s = [ui.section EXCEPT !.state = st]
             \/ s = [ui.section EXCEPT !.ready = c.source]
             \/ s = [ui.section EXCEPT !.ready = Concept!Nil, !.failed = TRUE]
             \/ s = [ui.section EXCEPT !.failed = TRUE]
          /\ ui' = [ui EXCEPT !.section = s]
    <3>0. PICK st : st = [source |-> c.source, catalog |-> c.answer]
      OBVIOUS
    <3>00. st.source = c.source
      BY <3>0
    <3>1. CASE c.op = "state" /\ c.stage = "ok"
      <4>1. ui' = [ui EXCEPT !.section.state = st]
        BY <1>7, <3>0, <3>1 DEF Concept!SectionRead
      <4> QED
        BY <3>00, <4>1
    <3>2. CASE c.op = "ready" /\ c.stage = "ok"
      <4>1. ui' = [ui EXCEPT !.section.ready = c.source]
        BY <1>7, <3>2 DEF Concept!SectionRead
      <4> QED
        BY <3>00, <4>1
    <3>3. CASE c.op = "ready" /\ c.stage # "ok"
      <4>1. ui' = [ui EXCEPT !.section.ready = Concept!Nil, !.section.failed = TRUE]
        BY <1>7, <3>3 DEF Concept!SectionRead
      <4>2. ui' = [ui EXCEPT !.section = [ui.section EXCEPT !.ready = Concept!Nil,
                                                            !.failed = TRUE]]
        BY <4>1 DEF ConceptInv, ConceptOf, ConceptScreen
      <4> QED
        BY <3>00, <4>2
    <3>4. CASE c.op = "state" /\ c.stage # "ok"
      <4>1. ui' = [ui EXCEPT !.section.failed = TRUE]
        BY <1>7, <3>4 DEF Concept!SectionRead
      <4> QED
        BY <3>00, <4>1
    <3> QED
      BY <1>7, <3>1, <3>2, <3>3, <3>4 DEF Concept!SectionRead
  <2>3. /\ ConceptSection \subseteq DOMAIN s
        /\ s.state \in {ui.section.state, st}
        /\ s.ready \in {ui.section.ready, c.source, Concept!Nil}
        /\ s.saved = ui.section.saved /\ s.preview = ui.section.preview
    BY <2>2 DEF ConceptInv, ConceptOf, ConceptSection
  <2>4. /\ ConceptScreen \subseteq DOMAIN ui' /\ ui'.section = s
        /\ ui'.inspecting = ui.inspecting /\ ui'.selected = ui.selected /\ ui'.usage = ui.usage
    BY <2>2 DEF ConceptInv, ConceptOf, ConceptScreen
  <2>5. requests' = others
    BY <1>7 DEF Concept!SectionRead
  <2> QED
    BY <1>5, <2>1, <2>2, <2>3, <2>4, <2>5, ConceptStays
<1>8. CASE Concept!LinkArrives(c, others)
  <2>1. ui.inspecting /\ c.source = Concept!Shown(ui)
    BY <1>4, <1>8 DEF Concept!LinkArrives, AskedByTheSection
  <2>2. PICK u, t : /\ t = [ui.section EXCEPT !.busy = FALSE]
                    /\ u = [ui EXCEPT !.busy = FALSE, !.section = t]
                    /\ u = [ui EXCEPT !.busy = FALSE, !.section.busy = FALSE]
    BY DEF ConceptInv, ConceptOf, ConceptScreen
  <2>3. /\ ConceptScreen \subseteq DOMAIN u /\ u.section = t
        /\ u.inspecting = ui.inspecting /\ u.selected = ui.selected /\ u.usage = ui.usage
    BY <2>2 DEF ConceptInv, ConceptOf, ConceptScreen
  <2>4. /\ ConceptSection \subseteq DOMAIN t /\ t.state = ui.section.state
        /\ t.ready = ui.section.ready /\ t.saved = ui.section.saved
        /\ t.preview = ui.section.preview
    BY <2>2 DEF ConceptInv, ConceptOf, ConceptSection
  <2>5. CASE c.stage = "ok"
    <3>1. PICK st : st = [source |-> c.source, catalog |-> c.answer]
      OBVIOUS
    <3>2. st.source = c.source
      BY <3>1
    <3>3. /\ ui' = [u EXCEPT !.section.state = st, !.section.saved = c.source,
                             !.section.linking = FALSE, !.section.picked = FALSE,
                             !.section.failed = FALSE]
          /\ requests' = (others \ Concept!Of("ready")) \union {Concept!Read("ready", c.source)}
      BY <1>8, <2>2, <2>5, <3>1 DEF Concept!LinkArrives
    <3>4. PICK s : /\ s = [t EXCEPT !.state = st, !.saved = c.source, !.linking = FALSE,
                                    !.picked = FALSE, !.failed = FALSE]
                   /\ ui' = [u EXCEPT !.section = s]
      BY <2>3, <3>3 DEF ConceptScreen
    <3>5. /\ ConceptSection \subseteq DOMAIN s /\ s.state = st /\ s.saved = c.source
          /\ s.ready = t.ready /\ s.preview = t.preview
      BY <2>4, <3>4 DEF ConceptSection
    <3>6. /\ ConceptScreen \subseteq DOMAIN ui' /\ ui'.section = s
          /\ ui'.inspecting = ui.inspecting /\ ui'.selected = ui.selected /\ ui'.usage = ui.usage
      BY <2>3, <3>4 DEF ConceptScreen
    <3>7. PICK r : r = Concept!Request("ready", c.source, Concept!NoCatalog) /\
                   \A d \in requests' : d \in others \/ d = r
      BY <3>3 DEF Concept!Read
    <3>8. ConceptCall \subseteq DOMAIN r /\ r.source = c.source
      BY <3>7, ConceptReads
    <3> QED
      BY <1>5, <2>1, <2>4, <3>2, <3>5, <3>6, <3>7, <3>8, ConceptStays
  <2>6. CASE c.stage # "ok"
    <3>1. PICK a, s : /\ s = [t EXCEPT !.conflict = a]
                      /\ ui' = [u EXCEPT !.section = s] /\ requests' = others
      <4>1. PICK a : a = (c.stage = "conflict")
        OBVIOUS
      <4>2. ui' = [u EXCEPT !.section.conflict = a] /\ requests' = others
        BY <1>8, <2>2, <2>6, <4>1 DEF Concept!LinkArrives
      <4> QED
        BY <2>3, <4>2
    <3>2. /\ ConceptSection \subseteq DOMAIN s /\ s.state = t.state /\ s.saved = t.saved
          /\ s.ready = t.ready /\ s.preview = t.preview
      BY <2>4, <3>1 DEF ConceptSection
    <3>3. /\ ConceptScreen \subseteq DOMAIN ui' /\ ui'.section = s
          /\ ui'.inspecting = ui.inspecting /\ ui'.selected = ui.selected /\ ui'.usage = ui.usage
      BY <2>3, <3>1 DEF ConceptScreen
    <3> QED
      BY <1>5, <2>4, <3>1, <3>2, <3>3, ConceptStays
  <2> QED
    BY <2>5, <2>6
<1>9. CASE Concept!LateLinkArrives(c, others)
  <2>1. (ui' = ui \/ ui' = [ui EXCEPT !.busy = FALSE]) /\ requests' = others
    BY <1>9 DEF Concept!LateLinkArrives
  <2>2. /\ ConceptScreen \subseteq DOMAIN ui' /\ ui'.section = ui.section
        /\ ui'.inspecting = ui.inspecting /\ ui'.selected = ui.selected /\ ui'.usage = ui.usage
    BY <2>1 DEF ConceptInv, ConceptOf, ConceptScreen
  <2>3. ConceptSection \subseteq DOMAIN ui'.section
    BY <2>2 DEF ConceptInv, ConceptOf
  <2> QED
    BY <1>5, <2>1, <2>2, <2>3, ConceptStays
<1> QED
  BY <1>1, <1>6, <1>7, <1>8, <1>9

LEMMA ConceptStarts == Concept!Init => ConceptInv
<1> SUFFICES ASSUME Concept!Init PROVE ConceptInv
  OBVIOUS
<1>1. PICK none, r :
        /\ none = Concept!NoSection
        /\ ui = [inspecting |-> FALSE, usage |-> FALSE, selected |-> Concept!Nil, busy |-> FALSE,
                 section |-> none]
        /\ r = Concept!Request("usage", Concept!Nil, Concept!NoCatalog) /\ requests = {r}
  BY DEF Concept!Init, Concept!Read
<1>2. ConceptCall \subseteq DOMAIN r /\ r.op = "usage"
  BY <1>1, ConceptReads
<1>3. ConceptScreen \subseteq DOMAIN ui /\ ui.section = none /\ ui.inspecting = FALSE
  BY <1>1 DEF ConceptScreen
<1> QED
  BY <1>1, <1>2, <1>3, NewSection DEF ConceptInv, ConceptOf, SectionIsOfTheScreen, AskedByTheSection

LEMMA ConceptKeeps ==
  ASSUME ConceptInv, Concept!Next \/ UNCHANGED <<ui, requests>>
  PROVE  ConceptInv'
<1>1. CASE UNCHANGED <<ui, requests>> \/ Concept!OtherAdministratorWrites
  <2>1. ui' = ui /\ requests' = requests
    BY <1>1 DEF Concept!OtherAdministratorWrites
  <2> QED
    BY <2>1 DEF ConceptInv, ConceptOf
<1>2. CASE Concept!Next
  BY <1>1, <1>2, ConceptMoves, ConceptReloads, ConceptActs, ConceptServes, ConceptHears
  DEF Concept!Next
<1> QED
  BY <1>1, <1>2

LEMMA ConceptMatches == ConceptInv => Concept!AnswersMatchTheScreen
<1>1. Concept!NoState.source = Concept!Nil
  BY DEF Concept!NoState
<1> QED
  BY <1>1 DEF ConceptInv, ConceptOf, SectionIsOfTheScreen, Concept!AnswersMatchTheScreen,
              Concept!Here

(***************************************************************************)
(* The catalog of queries                                                  *)
(***************************************************************************)
CatalogScreen == {"url", "data", "loading", "detail", "preview", "from"}
CatalogCall == {"op", "url", "row", "data", "answer", "stage"}

\* A list of the search and the page in an address, and of its revision if it has one.
ListOf(data, url) ==
  /\ data.filters = Catalog!FiltersOf(url) /\ data.offset = url.offset
  /\ url.revision \in {Catalog!NoRevision, data.revision}

\* What is shown, and the revision that the address was reached with.
CatalogShows(u) ==
  /\ CatalogScreen \subseteq DOMAIN u
  /\ u.data.shown => ListOf(u.data, u.url)
  /\ u.from \in {Catalog!NoRevision, u.url.revision}
  /\ u.detail.version = u.detail.row.version /\ u.preview.version = u.preview.row.version

\* An answer is of the question, and a list asked for is of the address on screen.
CatalogAnswers(c, url) ==
  /\ CatalogCall \subseteq DOMAIN c
  /\ c.op = "list" => c.url = url
  /\ c.stage \notin {"sent", "failed"} =>
       IF c.op = "list" THEN ListOf(c.data, c.url) ELSE c.answer.version = c.row.version

CatalogInv == CatalogShows(ui) /\ \A c \in requests : CatalogAnswers(c, ui.url)

LEMMA CatalogRequests ==
  \A op, url, row, r :
    r = Catalog!Request(op, url, row) =>
      /\ CatalogCall \subseteq DOMAIN r
      /\ r.op = op /\ r.url = url /\ r.row = row /\ r.stage = "sent"
<1> SUFFICES ASSUME NEW op, NEW url, NEW row, NEW r, r = Catalog!Request(op, url, row)
             PROVE  /\ CatalogCall \subseteq DOMAIN r
                    /\ r.op = op /\ r.url = url /\ r.row = row /\ r.stage = "sent"
  OBVIOUS
<1>1. PICK data, answer :
        r = [op |-> op, url |-> url, row |-> row, data |-> data, answer |-> answer,
             stage |-> "sent"]
  BY DEF Catalog!Request
<1> QED
  BY <1>1 DEF CatalogCall

\* A list that is asked for of an address.
LEMMA CatalogLoads ==
  \A url, r : r = Catalog!Load(url) => CatalogAnswers(r, url)
  BY CatalogRequests DEF Catalog!Load, CatalogAnswers

\* A page that is mounted shows nothing yet.
LEMMA CatalogPages ==
  ASSUME NEW url, NEW from \in {Catalog!NoRevision, url.revision}, NEW u,
         u = Catalog!Page(url, from)
  PROVE  CatalogShows(u) /\ u.url = url /\ u.from = from
<1>1. PICK filters, data, drawer :
        /\ data = Catalog!NoData /\ drawer = Catalog!NoDrawer
        /\ u = [place |-> "catalog", url |-> url, filters |-> filters, data |-> data,
                loading |-> TRUE, failed |-> FALSE, busy |-> FALSE, detail |-> drawer,
                preview |-> drawer, from |-> from]
  BY DEF Catalog!Page
<1>2. data.shown = FALSE
  BY <1>1 DEF Catalog!NoData
<1>3. drawer.version = drawer.row.version
  BY <1>1 DEF Catalog!NoDrawer, Catalog!NoRow
<1>4. /\ CatalogScreen \subseteq DOMAIN u /\ u.url = url /\ u.data = data /\ u.detail = drawer
      /\ u.preview = drawer /\ u.from = from
  BY <1>1 DEF CatalogScreen
<1> QED
  BY <1>2, <1>3, <1>4 DEF CatalogShows

LEMMA CatalogMounts ==
  ASSUME NEW url, NEW from \in {Catalog!NoRevision, url.revision}, Catalog!Mount(url, from)
  PROVE  CatalogInv'
<1>1. PICK r : ui' = Catalog!Page(url, from) /\ r = Catalog!Load(url) /\ requests' = {r}
  BY DEF Catalog!Mount
<1>2. CatalogShows(ui') /\ ui'.url = url
  BY <1>1, CatalogPages
<1>3. CatalogAnswers(r, url)
  BY <1>1, CatalogLoads
<1> QED
  BY <1>1, <1>2, <1>3 DEF CatalogInv

LEMMA CatalogLeaves ==
  ASSUME NEW url, NEW from \in {Catalog!NoRevision, url.revision}, Catalog!LeaveFor(url, from)
  PROVE  CatalogInv'
<1>1. PICK u : /\ u = Catalog!Page(url, from) /\ requests' = {}
               /\ ui' = [u EXCEPT !.place = "workspace", !.loading = FALSE]
  BY DEF Catalog!LeaveFor
<1>2. CatalogShows(u)
  BY <1>1, CatalogPages
<1>3. /\ CatalogScreen \subseteq DOMAIN ui' /\ ui'.url = u.url /\ ui'.data = u.data
      /\ ui'.detail = u.detail /\ ui'.preview = u.preview /\ ui'.from = u.from
  BY <1>1, <1>2 DEF CatalogShows, CatalogScreen
<1> QED
  BY <1>1, <1>2, <1>3 DEF CatalogInv, CatalogShows

\* A screen that shows the same list, and requests of the same address.
LEMMA CatalogStays ==
  ASSUME CatalogInv, CatalogScreen \subseteq DOMAIN ui', ui'.url = ui.url, ui'.data = ui.data,
         ui'.from = ui.from, ui'.detail = ui.detail, ui'.preview = ui.preview,
         \A c \in requests' : c \in requests \/ CatalogAnswers(c, ui.url)
  PROVE  CatalogInv'
  BY DEF CatalogInv, CatalogShows

LEMMA CatalogSearches ==
  ASSUME CatalogInv,
         Catalog!Search \/ Catalog!ChooseFilter \/ Catalog!Restart
  PROVE  CatalogInv'
<1>1. PICK filters : Catalog!SearchFor(filters)
  BY DEF Catalog!Search, Catalog!ChooseFilter, Catalog!Restart
<1>2. CASE Catalog!First(filters) = ui.url
  <2>1. PICK r : /\ r = Catalog!Load(ui.url)
                 /\ ui' = [ui EXCEPT !.loading = TRUE, !.failed = FALSE]
                 /\ requests' = {c \in requests : c.op # "list"} \union {r}
    BY <1>1, <1>2 DEF Catalog!SearchFor
  <2>2. CatalogAnswers(r, ui.url)
    BY <2>1, CatalogLoads
  <2>3. /\ CatalogScreen \subseteq DOMAIN ui' /\ ui'.url = ui.url /\ ui'.data = ui.data
        /\ ui'.from = ui.from /\ ui'.detail = ui.detail /\ ui'.preview = ui.preview
    BY <2>1 DEF CatalogInv, CatalogShows, CatalogScreen
  <2> QED
    BY <2>1, <2>2, <2>3, CatalogStays
<1>3. CASE Catalog!First(filters) # ui.url
  <2>1. Catalog!Mount(Catalog!First(filters), Catalog!NoRevision)
    BY <1>1, <1>3 DEF Catalog!SearchFor
  <2> QED
    BY <2>1, CatalogMounts
<1> QED
  BY <1>2, <1>3

\* Another page of the search, the workspace, and back.
LEMMA CatalogTurns ==
  ASSUME CatalogInv,
         \/ Catalog!TurnPage \/ Catalog!OpenWorkspace \/ Catalog!OpenSetup
         \/ Catalog!ReturnToSearch
  PROVE  CatalogInv'
<1>1. ASSUME NEW offset, NEW url, url = Catalog!PageURL(offset)
      PROVE  Catalog!ShownRevision \in {Catalog!NoRevision, url.revision}
  <2>1. PICK revision : revision = IF ui.data.shown THEN ui.data.revision ELSE ui.url.revision
    OBVIOUS
  <2>2. url.revision = revision
    BY <1>1, <2>1 DEF Catalog!PageURL
  <2> QED
    BY <2>1, <2>2 DEF Catalog!ShownRevision, CatalogInv, CatalogShows
<1>2. CASE Catalog!TurnPage
  BY <1>1, <1>2, CatalogMounts DEF Catalog!TurnPage
<1>3. CASE Catalog!OpenWorkspace
  BY <1>1, <1>3, CatalogLeaves DEF Catalog!OpenWorkspace
<1>4. CASE Catalog!OpenSetup
  BY <1>4, CatalogLeaves DEF Catalog!OpenSetup, CatalogInv, CatalogShows
<1>5. CASE Catalog!ReturnToSearch
  BY <1>5, CatalogMounts DEF Catalog!ReturnToSearch, CatalogInv, CatalogShows
<1> QED
  BY <1>2, <1>3, <1>4, <1>5

\* A row is opened, and what was opened closed.
LEMMA CatalogOpens ==
  ASSUME CatalogInv,
         \/ Catalog!OpenDefinition \/ Catalog!OpenPreview \/ Catalog!PreviewOfDefinition
         \/ Catalog!CloseDetail \/ Catalog!ClosePreview \/ Catalog!TypeFilter
  PROVE  CatalogInv'
<1>1. CASE Catalog!OpenDefinition \/ Catalog!OpenPreview \/ Catalog!PreviewOfDefinition
  <2>1. PICK op, row, r :
          /\ op \in {"detail", "preview"} /\ r = Catalog!Request(op, ui.url, row)
          /\ ui' = [ui EXCEPT !.busy = TRUE, !.failed = FALSE]
          /\ requests' = requests \union {r}
    BY <1>1
    DEF Catalog!OpenDefinition, Catalog!OpenPreview, Catalog!PreviewOfDefinition, Catalog!Open
  <2>2. CatalogAnswers(r, ui.url)
    BY <2>1, CatalogRequests DEF CatalogAnswers
  <2>3. /\ CatalogScreen \subseteq DOMAIN ui' /\ ui'.url = ui.url /\ ui'.data = ui.data
        /\ ui'.from = ui.from /\ ui'.detail = ui.detail /\ ui'.preview = ui.preview
    BY <2>1 DEF CatalogInv, CatalogShows, CatalogScreen
  <2> QED
    BY <2>1, <2>2, <2>3, CatalogStays
<1>2. CASE Catalog!CloseDetail \/ Catalog!ClosePreview
  <2>1. PICK drawer : drawer = Catalog!NoDrawer
    OBVIOUS
  <2>2. drawer.version = drawer.row.version
    BY <2>1 DEF Catalog!NoDrawer, Catalog!NoRow
  <2>3. /\ ui' = [ui EXCEPT !.detail = drawer] \/ ui' = [ui EXCEPT !.preview = drawer]
        /\ requests' = requests
    BY <1>2, <2>1 DEF Catalog!CloseDetail, Catalog!ClosePreview
  <2>4. /\ CatalogScreen \subseteq DOMAIN ui' /\ ui'.url = ui.url /\ ui'.data = ui.data
        /\ ui'.from = ui.from /\ ui'.detail \in {ui.detail, drawer}
        /\ ui'.preview \in {ui.preview, drawer}
    BY <2>3 DEF CatalogInv, CatalogShows, CatalogScreen
  <2> QED
    BY <2>2, <2>3, <2>4 DEF CatalogInv, CatalogShows
<1>3. CASE Catalog!TypeFilter
  <2>1. PICK filters : ui' = [ui EXCEPT !.filters = filters] /\ requests' = requests
    BY <1>3 DEF Catalog!TypeFilter
  <2>2. /\ CatalogScreen \subseteq DOMAIN ui' /\ ui'.url = ui.url /\ ui'.data = ui.data
        /\ ui'.from = ui.from /\ ui'.detail = ui.detail /\ ui'.preview = ui.preview
    BY <2>1 DEF CatalogInv, CatalogShows, CatalogScreen
  <2> QED
    BY <2>1, <2>2, CatalogStays
<1> QED
  BY <1>1, <1>2, <1>3

\* The server answers what it is asked, or not at all.
LEMMA CatalogServes ==
  ASSUME CatalogInv, Catalog!Serve
  PROVE  CatalogInv'
<1>1. PICK c \in requests : \E d \in {IF c.op = "list" THEN Catalog!ServeList(c)
                                      ELSE Catalog!ServeEntry(c), [c EXCEPT !.stage = "failed"]} :
        requests' = (requests \ {c}) \union {d}
  BY DEF Catalog!Serve
<1>2. PICK d : /\ requests' = (requests \ {c}) \union {d}
               /\ \/ c.op = "list" /\ d = Catalog!ServeList(c)
                  \/ c.op # "list" /\ d = Catalog!ServeEntry(c)
                  \/ d = [c EXCEPT !.stage = "failed"]
  BY <1>1
<1>3. CatalogAnswers(c, ui.url)
  BY DEF CatalogInv
<1>4. CASE d = [c EXCEPT !.stage = "failed"]
  <2>1. CatalogCall \subseteq DOMAIN d /\ d.op = c.op /\ d.url = c.url /\ d.stage = "failed"
    BY <1>3, <1>4 DEF CatalogAnswers, CatalogCall
  <2> QED
    BY <1>2, <1>3, <2>1, CatalogStays DEF CatalogAnswers, CatalogInv, Catalog!Serve, CatalogShows
<1>5. CASE c.op = "list" /\ d = Catalog!ServeList(c) /\ d # [c EXCEPT !.stage = "failed"]
  <2>1. PICK filters, revision, offset, data :
          /\ filters = Catalog!FiltersOf(c.url) /\ offset = c.url.offset
          /\ data = [shown |-> TRUE, filters |-> filters, offset |-> offset,
                     revision |-> revision, row |-> server.row]
          /\ d = [c EXCEPT !.stage = "ok", !.data = data]
          /\ c.url.revision \in {Catalog!NoRevision, revision}
    BY <1>5 DEF Catalog!ServeList
  <2>2. data.filters = filters /\ data.offset = offset /\ data.revision = revision
    BY <2>1
  <2>3. CatalogCall \subseteq DOMAIN d /\ d.op = c.op /\ d.url = c.url /\ d.data = data
    BY <1>3, <2>1 DEF CatalogAnswers, CatalogCall
  <2>4. CatalogAnswers(d, ui.url)
    BY <1>3, <1>5, <2>1, <2>2, <2>3 DEF CatalogAnswers, ListOf
  <2> QED
    BY <1>2, <2>4, CatalogStays DEF CatalogInv, Catalog!Serve, CatalogShows
<1>6. CASE c.op # "list" /\ d = Catalog!ServeEntry(c) /\ d # [c EXCEPT !.stage = "failed"]
  <2>1. PICK row : /\ d = [c EXCEPT !.stage = "ok", !.answer = row]
                   /\ row.version = c.row.version
    BY <1>6 DEF Catalog!ServeEntry
  <2>2. CatalogCall \subseteq DOMAIN d /\ d.op = c.op /\ d.row = c.row /\ d.answer = row
    BY <1>3, <2>1 DEF CatalogAnswers, CatalogCall
  <2>3. CatalogAnswers(d, ui.url)
    BY <1>6, <2>1, <2>2 DEF CatalogAnswers
  <2> QED
    BY <1>2, <2>3, CatalogStays DEF CatalogInv, Catalog!Serve, CatalogShows
<1> QED
  BY <1>2, <1>4, <1>5, <1>6

LEMMA CatalogHears ==
  ASSUME CatalogInv, Catalog!Deliver
  PROVE  CatalogInv'
<1>1. PICK c \in requests : /\ c.stage # "sent" /\ requests' = requests \ {c}
                            /\ Catalog!ListArrives(c) \/ Catalog!EntryArrives(c)
  BY DEF Catalog!Deliver
<1>2. CatalogAnswers(c, ui.url)
  BY DEF CatalogInv
<1>3. CASE Catalog!ListArrives(c)
  <2>1. CASE c.stage = "ok"
    <3>1. c.op = "list" /\ ui' = [ui EXCEPT !.data = c.data, !.loading = FALSE]
      BY <1>3, <2>1 DEF Catalog!ListArrives
    <3>2. /\ CatalogScreen \subseteq DOMAIN ui' /\ ui'.url = ui.url /\ ui'.data = c.data
          /\ ui'.from = ui.from /\ ui'.detail = ui.detail /\ ui'.preview = ui.preview
      BY <3>1 DEF CatalogInv, CatalogShows, CatalogScreen
    <3>3. ListOf(c.data, ui.url)
      BY <1>2, <2>1, <3>1 DEF CatalogAnswers
    <3> QED
      BY <1>1, <3>2, <3>3 DEF CatalogInv, CatalogShows
  <2>2. CASE c.stage # "ok"
    <3>1. PICK none : /\ none = Catalog!NoData
                      /\ ui' = [ui EXCEPT !.data = none, !.loading = FALSE, !.failed = TRUE]
      BY <1>3, <2>2 DEF Catalog!ListArrives
    <3>2. /\ CatalogScreen \subseteq DOMAIN ui' /\ ui'.url = ui.url /\ ui'.data = none
          /\ ui'.from = ui.from /\ ui'.detail = ui.detail /\ ui'.preview = ui.preview
      BY <3>1 DEF CatalogInv, CatalogShows, CatalogScreen
    <3>3. none.shown = FALSE
      BY <3>1 DEF Catalog!NoData
    <3> QED
      BY <1>1, <3>2, <3>3 DEF CatalogInv, CatalogShows
  <2> QED
    BY <2>1, <2>2
<1>4. CASE Catalog!EntryArrives(c)
  <2>1. PICK u, drawer :
          /\ u = [ui EXCEPT !.busy = FALSE]
          /\ drawer = [open |-> TRUE, row |-> c.row, version |-> c.answer.version]
          /\ \/ ui' = [u EXCEPT !.failed = TRUE]
             \/ c.stage # "failed" /\ ui' = [u EXCEPT !.detail = drawer]
             \/ c.stage # "failed" /\ ui' = [u EXCEPT !.preview = drawer]
    BY <1>4 DEF Catalog!EntryArrives
  <2>2. /\ CatalogScreen \subseteq DOMAIN u /\ u.url = ui.url /\ u.data = ui.data
        /\ u.from = ui.from /\ u.detail = ui.detail /\ u.preview = ui.preview
    BY <2>1 DEF CatalogInv, CatalogShows, CatalogScreen
  <2>3. /\ CatalogScreen \subseteq DOMAIN ui' /\ ui'.url = ui.url /\ ui'.data = ui.data
        /\ ui'.from = ui.from
        /\ ui'.detail = ui.detail \/ (c.stage # "failed" /\ ui'.detail = drawer)
        /\ ui'.preview = ui.preview \/ (c.stage # "failed" /\ ui'.preview = drawer)
    BY <2>1, <2>2 DEF CatalogScreen
  <2>4. drawer.row = c.row /\ drawer.version = c.answer.version
    BY <2>1
  <2>5. c.op # "list"
    BY <1>4 DEF Catalog!EntryArrives
  <2>6. c.stage # "failed" => drawer.version = drawer.row.version
    BY <1>1, <1>2, <2>4, <2>5 DEF CatalogAnswers
  <2> QED
    BY <1>1, <2>3, <2>6 DEF CatalogInv, CatalogShows
<1> QED
  BY <1>1, <1>3, <1>4

LEMMA CatalogStarts == Catalog!Init => CatalogInv
<1> SUFFICES ASSUME Catalog!Init PROVE CatalogInv
  OBVIOUS
<1>1. PICK url, r : /\ ui = Catalog!Page(url, Catalog!NoRevision)
                    /\ r = Catalog!Load(url) /\ requests = {r}
  BY DEF Catalog!Init
<1>2. CatalogShows(ui) /\ ui.url = url
  BY <1>1, CatalogPages
<1>3. CatalogAnswers(r, url)
  BY <1>1, CatalogLoads
<1> QED
  BY <1>1, <1>2, <1>3 DEF CatalogInv

LEMMA CatalogKeeps ==
  ASSUME CatalogInv, Catalog!Next \/ UNCHANGED <<ui, requests>>
  PROVE  CatalogInv'
<1>1. CASE \/ UNCHANGED <<ui, requests>> \/ Catalog!CatalogChanges \/ Catalog!EvidenceChanges
  <2>1. ui' = ui /\ requests' = requests
    BY <1>1 DEF Catalog!CatalogChanges, Catalog!EvidenceChanges
  <2> QED
    BY <2>1 DEF CatalogInv
<1>2. CASE Catalog!Next
  BY <1>1, <1>2, CatalogSearches, CatalogTurns, CatalogOpens, CatalogServes, CatalogHears
  DEF Catalog!Next
<1> QED
  BY <1>1, <1>2

LEMMA CatalogMatches == CatalogInv => Catalog!AnswersMatchTheScreen
<1> SUFFICES ASSUME CatalogInv PROVE Catalog!AnswersMatchTheScreen
  OBVIOUS
<1> QED
  BY DEF CatalogInv, CatalogShows, ListOf, Catalog!AnswersMatchTheScreen

(***************************************************************************)
(* The settings: the status and the form of the audit export               *)
(***************************************************************************)
ExportScreen == {"known", "view", "form"}
ExportCall == {"op", "record", "stage"}
ExportReads == {"load", "reload", "save", "poll"}

\* The status shown is of the form's settings or of later ones.
ExportShown(u) ==
  /\ ExportScreen \subseteq DOMAIN u
  /\ u.form \in Int /\ u.view.revision \in Int
  /\ "audit" \in u.known => u.view.revision >= u.form

ExportAnswer(c) ==
  /\ ExportCall \subseteq DOMAIN c
  /\ (c.op \in ExportReads /\ c.stage = "ok") => c.record.revision \in Int

ExportStored == "export" \in DOMAIN server /\ server.export.revision \in Int

ExportInv == ExportStored /\ ExportShown(ui) /\ \A c \in requests : ExportAnswer(c)

LEMMA SettingsRequests ==
  \A op, known, sent, r : r = Settings!Request(op, known, sent) => ExportAnswer(r)
<1> SUFFICES ASSUME NEW op, NEW known, NEW sent, NEW r, r = Settings!Request(op, known, sent)
             PROVE  ExportAnswer(r)
  OBVIOUS
<1>1. PICK record : r = [op |-> op, shown |-> known, record |-> record, gone |-> FALSE,
                         stage |-> "sent"]
  BY DEF Settings!Request
<1> QED
  BY <1>1 DEF ExportAnswer, ExportCall

LEMMA ExportPlain == \A op, r : r = Settings!Plain(op) => ExportAnswer(r)
  BY SettingsRequests DEF Settings!Plain

\* The effects of the section ask for a first load at most.
LEMMA ExportSettles ==
  ASSUME ExportInv, ExportStored', NEW u, NEW others, ExportShown(u),
         \A c \in others : ExportAnswer(c), Settings!Settle(u, others)
  PROVE  ExportInv'
<1>1. PICK r : /\ r = Settings!Plain("load")
               /\ \A c \in requests' : c \in others \/ c = r
               /\ ui' = u \/ ui' = [u EXCEPT !.failed = @ \ {"audit"}]
  BY DEF Settings!Settle
<1>2. ExportAnswer(r)
  BY <1>1, ExportPlain
<1>3. /\ ExportScreen \subseteq DOMAIN ui' /\ ui'.known = u.known /\ ui'.view = u.view
      /\ ui'.form = u.form
  BY <1>1 DEF ExportShown, ExportScreen
<1> QED
  BY <1>1, <1>2, <1>3 DEF ExportInv, ExportShown

\* The status and the form stay, and what is new in flight has no answer.
LEMMA ExportStays ==
  ASSUME ExportInv, ExportStored', ExportScreen \subseteq DOMAIN ui', ui'.view = ui.view,
         ui'.form = ui.form, "audit" \in ui'.known => "audit" \in ui.known,
         \A c \in requests' : c \in requests \/ ExportAnswer(c)
  PROVE  ExportInv'
  BY DEF ExportInv, ExportShown

LEMMA SettingsVisits ==
  ASSUME ExportInv, Settings!SelectSection \/ Settings!Hide \/ Settings!Leave
  PROVE  ExportInv'
<1>0. ExportStored'
  BY DEF Settings!SelectSection, Settings!Hide, Settings!Leave, ExportInv, ExportStored
<1>1. CASE Settings!SelectSection
  <2>1. PICK s, m, u, others, r1, r2 :
          /\ r1 = Settings!Plain("access") /\ r2 = Settings!Plain("people")
          /\ u = [ui EXCEPT !.section = s, !.mounted = m]
          /\ \A c \in others : c \in requests \/ c = r1 \/ c = r2
          /\ Settings!Settle(u, others)
    <3>1. PICK s \in Settings!Sections \ {ui.section} :
            Settings!Settle([ui EXCEPT !.section = s,
                                       !.mounted = @ \union ({s} \intersect Settings!Loaded)],
                 requests \union
                 (IF s \in ui.mounted THEN {}
                  ELSE CASE s = "configuration" -> {Settings!Plain("access")}
                         [] s = "administrators" -> {Settings!Plain("people")}
                         [] OTHER -> {}))
      BY <1>1 DEF Settings!SelectSection
    <3>2. PICK new : new = (IF s \in ui.mounted THEN {}
                            ELSE CASE s = "configuration" -> {Settings!Plain("access")}
                                   [] s = "administrators" -> {Settings!Plain("people")}
                                   [] OTHER -> {})
      OBVIOUS
    <3>3. new \in {{}, {Settings!Plain("access")}, {Settings!Plain("people")}}
      <4>1. CASE s = "configuration"
        BY <3>2, <4>1
      <4>2. CASE s = "administrators"
        BY <3>2, <4>2
      <4>3. CASE s # "configuration" /\ s # "administrators"
        BY <3>2, <4>3
      <4> QED
        BY <4>1, <4>2, <4>3
    <3>4. PICK u, m, others :
            /\ m = ui.mounted \union ({s} \intersect Settings!Loaded)
            /\ u = [ui EXCEPT !.section = s, !.mounted = m] /\ others = requests \union new
      OBVIOUS
    <3>5. u = [ui EXCEPT !.section = s,
                         !.mounted = @ \union ({s} \intersect Settings!Loaded)]
      BY <3>4
    <3>6. Settings!Settle(u, others)
      BY <3>1, <3>2, <3>4, <3>5
    <3> QED
      BY <3>3, <3>4, <3>6
  <2>2. ExportShown(u)
    <3>1. /\ ExportScreen \subseteq DOMAIN u /\ u.known = ui.known /\ u.view = ui.view
          /\ u.form = ui.form
      BY <2>1 DEF ExportInv, ExportShown, ExportScreen
    <3> QED
      BY <3>1 DEF ExportInv, ExportShown
  <2>3. \A c \in others : ExportAnswer(c)
    BY <2>1, ExportPlain DEF ExportInv
  <2> QED
    BY <1>0, <2>1, <2>2, <2>3, ExportSettles
<1>2. CASE Settings!Hide
  <2>1. PICK v, u : u = [ui EXCEPT !.visible = v] /\ Settings!Settle(u, requests)
    <3>1. PICK v : v = ~ui.visible
      OBVIOUS
    <3>2. Settings!Settle([ui EXCEPT !.visible = v], requests)
      BY <1>2, <3>1 DEF Settings!Hide
    <3> QED
      BY <3>2
  <2>2. /\ ExportScreen \subseteq DOMAIN u /\ u.known = ui.known /\ u.view = ui.view
        /\ u.form = ui.form
    BY <2>1 DEF ExportInv, ExportShown, ExportScreen
  <2>3. ExportShown(u)
    BY <2>2 DEF ExportInv, ExportShown
  <2> QED
    BY <1>0, <2>1, <2>3, ExportSettles DEF ExportInv
<1>3. CASE Settings!Leave
  <2>1. /\ ui' = Settings!Fresh
        /\ \A c \in requests' : \E d \in requests : c = [d EXCEPT !.gone = TRUE]
    BY <1>3 DEF Settings!Leave
  <2>2. ASSUME NEW c \in requests' PROVE ExportAnswer(c)
    <3>1. PICK d \in requests : c = [d EXCEPT !.gone = TRUE]
      BY <2>1, <2>2
    <3>2. /\ ExportCall \subseteq DOMAIN c /\ c.op = d.op /\ c.record = d.record
          /\ c.stage = d.stage
      BY <3>1 DEF ExportInv, ExportAnswer, ExportCall
    <3> QED
      BY <3>2 DEF ExportInv, ExportAnswer
  <2>3. PICK none : none = Settings!NoRecord
    OBVIOUS
  <2>4. none.revision = 0
    BY <2>3 DEF Settings!NoRecord
  <2>5. /\ ExportScreen \subseteq DOMAIN ui' /\ ui'.known = {} /\ ui'.view = none
        /\ ui'.form = 0
    BY <2>1, <2>3 DEF Settings!Fresh, ExportScreen
  <2> QED
    BY <1>0, <2>2, <2>4, <2>5 DEF ExportInv, ExportShown
<1> QED
  BY <1>1, <1>2, <1>3

\* Steps at which the status and the form stay.
LEMMA SettingsActs ==
  ASSUME ExportInv,
         \/ Settings!Retry \/ Settings!OpenIssue \/ Settings!OpenRevoke
         \/ Settings!AddAdministrator \/ Settings!OpenPerson \/ Settings!ConfirmSaved
         \/ Settings!ClosePanel \/ Settings!SubmitIssue \/ Settings!ConfirmRevoke
         \/ Settings!SubmitPerson \/ Settings!EditExport \/ Settings!SendTest
         \/ Settings!SaveExport \/ Settings!ReloadExport \/ Settings!Poll
         \/ Settings!TypePassword \/ Settings!ChangePassword
  PROVE  ExportInv'
<1>1. server' = server
  BY DEF Settings!Retry, Settings!OpenIssue, Settings!OpenRevoke, Settings!AddAdministrator,
         Settings!OpenPerson, Settings!ConfirmSaved, Settings!ClosePanel,
         Settings!SubmitIssue, Settings!ConfirmRevoke, Settings!SubmitPerson,
         Settings!EditExport, Settings!SendTest, Settings!SaveExport, Settings!ReloadExport,
         Settings!Poll, Settings!TypePassword, Settings!ChangePassword, Settings!Open
<1>2. \/ requests' = requests
      \/ \E op, known, sent : requests' = requests \union {Settings!Request(op, known, sent)}
  <2>1. CASE \/ Settings!OpenIssue \/ Settings!OpenRevoke \/ Settings!AddAdministrator
             \/ Settings!OpenPerson \/ Settings!ConfirmSaved \/ Settings!ClosePanel
             \/ Settings!EditExport \/ Settings!TypePassword
    BY <2>1 DEF Settings!OpenIssue, Settings!OpenRevoke, Settings!AddAdministrator,
         Settings!OpenPerson, Settings!ConfirmSaved, Settings!ClosePanel,
         Settings!EditExport, Settings!TypePassword, Settings!Open
  <2>2. CASE \/ Settings!SubmitIssue \/ Settings!SendTest \/ Settings!SaveExport
    BY <2>2 DEF Settings!SubmitIssue, Settings!SendTest, Settings!SaveExport, Settings!Ask
  <2>3. CASE \/ Settings!Retry \/ Settings!ConfirmRevoke \/ Settings!ReloadExport
             \/ Settings!Poll \/ Settings!ChangePassword
    <3>1. PICK op : requests' = requests \union {Settings!Plain(op)}
      BY <2>3 DEF Settings!Retry, Settings!ConfirmRevoke, Settings!ReloadExport,
                  Settings!Poll, Settings!ChangePassword, Settings!Ask
    <3> QED
      BY <3>1 DEF Settings!Plain
  <2>4. CASE Settings!SubmitPerson
    <3>1. CASE ui.panel \in {"edit", "reset"}
      BY <2>4, <3>1 DEF Settings!SubmitPerson, Settings!Ask
    <3>2. CASE ui.panel \notin {"edit", "reset"}
      <4>1. requests' = requests \union {Settings!Plain(ui.panel)}
        BY <2>4, <3>2 DEF Settings!SubmitPerson, Settings!Ask
      <4> QED
        BY <4>1 DEF Settings!Plain
    <3> QED
      BY <3>1, <3>2
  <2> QED
    BY <2>1, <2>2, <2>3, <2>4
<1>3. PICK a, b :
        \/ ui' = ui \/ ui' = [ui EXCEPT !.failed = a] \/ ui' = [ui EXCEPT !.panel = a]
        \/ ui' = [ui EXCEPT !.panel = a, !.picked = b] \/ ui' = [ui EXCEPT !.busy = a]
        \/ ui' = [ui EXCEPT !.busy = a, !.failed = b]
        \/ ui' = [ui EXCEPT !.edited = a] \/ ui' = [ui EXCEPT !.typed = a]
  <2>1. CASE \/ Settings!OpenIssue \/ Settings!OpenRevoke \/ Settings!AddAdministrator
             \/ Settings!OpenPerson \/ Settings!ConfirmSaved \/ Settings!ClosePanel
    BY <2>1 DEF Settings!OpenIssue, Settings!OpenRevoke, Settings!AddAdministrator,
         Settings!OpenPerson, Settings!ConfirmSaved, Settings!ClosePanel, Settings!Open
  <2>2. CASE \/ Settings!SubmitIssue \/ Settings!SendTest \/ Settings!SaveExport
             \/ Settings!ConfirmRevoke \/ Settings!SubmitPerson \/ Settings!ChangePassword
    BY <2>2 DEF Settings!SubmitIssue, Settings!SendTest, Settings!SaveExport,
         Settings!ConfirmRevoke, Settings!SubmitPerson, Settings!ChangePassword, Settings!Busy
  <2>3. CASE Settings!Retry \/ Settings!Poll \/ Settings!EditExport
    BY <2>3 DEF Settings!Retry, Settings!Poll, Settings!EditExport
  <2>4. CASE Settings!ReloadExport
    <3>1. PICK busy, failed, u :
            /\ busy = ui.busy \union {"audit"} /\ failed = ui.failed \ {"audit"}
            /\ u = Settings!Busy(ui, "audit") /\ ui' = [u EXCEPT !.failed = @ \ {"audit"}]
      BY <2>4 DEF Settings!ReloadExport
    <3>2. u = [ui EXCEPT !.busy = busy]
      BY <3>1 DEF Settings!Busy
    <3>3. ui' = [ui EXCEPT !.busy = busy, !.failed = failed]
      BY <3>1, <3>2
    <3> QED
      BY <3>3
  <2>5. CASE Settings!TypePassword
    <3>1. PICK typed : typed = ~ui.typed
      OBVIOUS
    <3>2. ui' = [ui EXCEPT !.typed = typed]
      BY <2>5, <3>1 DEF Settings!TypePassword
    <3> QED
      BY <3>2
  <2> QED
    BY <2>1, <2>2, <2>3, <2>4, <2>5
<1>4. /\ ExportScreen \subseteq DOMAIN ui' /\ ui'.known = ui.known /\ ui'.view = ui.view
      /\ ui'.form = ui.form
  BY <1>3 DEF ExportInv, ExportShown, ExportScreen
<1>5. \A c \in requests' : c \in requests \/ ExportAnswer(c)
  BY <1>2, SettingsRequests
<1>6. ExportStored'
  BY <1>1 DEF ExportInv, ExportStored
<1> QED
  BY <1>4, <1>5, <1>6, ExportStays

\* The record an answer holds is the server's.
LEMMA SettingsServes ==
  ASSUME ExportInv, Settings!Serve \/ Settings!SomeoneElseWrites
  PROVE  ExportInv'
<1>0. \A record, on, r : r = Settings!After(record, on) =>
        (record.revision \in Int => r.revision \in Int)
  <2> SUFFICES ASSUME NEW record, NEW on, NEW r, r = Settings!After(record, on),
                      record.revision \in Int
               PROVE  r.revision \in Int
    OBVIOUS
  <2>1. PICK n : n = record.revision + 1 /\ r = [revision |-> n, on |-> on]
    BY DEF Settings!After
  <2> QED
    BY <2>1
<1>1. ASSUME NEW c \in requests, NEW stage, NEW record, Settings!Answer(c, stage, record),
             (c.op \in ExportReads /\ stage = "ok") => record.revision \in Int, ui' = ui,
             ExportStored'
      PROVE  ExportInv'
  <2>1. PICK d : /\ d = [c EXCEPT !.stage = stage, !.record = record, !.shown = 0]
                 /\ requests' = (requests \ {c}) \union {d}
    BY <1>1 DEF Settings!Answer
  <2>2. /\ ExportCall \subseteq DOMAIN d /\ d.op = c.op /\ d.record = record
        /\ d.stage = stage
    BY <2>1 DEF ExportInv, ExportAnswer, ExportCall
  <2>3. ExportAnswer(d)
    BY <1>1, <2>2 DEF ExportAnswer
  <2>4. \A e \in requests' : e \in requests \/ ExportAnswer(e)
    BY <2>1, <2>3
  <2> QED
    BY <1>1, <2>4, ExportStays DEF ExportInv, ExportShown
<1>2. \/ UNCHANGED server
      \/ \E a, b : \/ server' = [server EXCEPT !.access = a, !.careless = b]
                   \/ server' = [server EXCEPT !.access = a]
                   \/ server' = [server EXCEPT !.person = a, !.careless = b]
                   \/ server' = [server EXCEPT !.person = a]
      \/ \E r, on, b : /\ r = Settings!After(server.export, on)
                       /\ \/ server' = [server EXCEPT !.export = r]
                          \/ server' = [server EXCEPT !.export = r, !.careless = b]
  <2>1. CASE Settings!SomeoneElseWrites
    <3>1. PICK on \in BOOLEAN :
            \/ server' = [server EXCEPT !.access = Settings!After(server.access, on)]
            \/ server' = [server EXCEPT !.person = Settings!After(server.person, on)]
            \/ server' = [server EXCEPT !.export = Settings!After(server.export, on)]
      BY <2>1 DEF Settings!SomeoneElseWrites
    <3> QED
      BY <3>1
  <2>2. CASE Settings!Serve
    <3>1. PICK c \in requests :
            \/ Settings!ServeRead(c) \/ Settings!ServeIdentity(c) \/ Settings!ServePerson(c)
            \/ Settings!ServeExport(c) \/ UNCHANGED server
      BY <2>2 DEF Settings!Serve
    <3>2. CASE Settings!ServeRead(c) \/ UNCHANGED server
      BY <3>2 DEF Settings!ServeRead
    <3>3. CASE Settings!ServeIdentity(c)
      <4>1. PICK a, b : \/ server' = [server EXCEPT !.access = a, !.careless = b]
                        \/ server' = [server EXCEPT !.access = a]
        <5>1. PICK b : b = (server.careless \/ c.shown # server.access.revision)
          OBVIOUS
        <5>2. \/ server' = [server EXCEPT !.access = Settings!After(server.access, TRUE),
                                          !.careless = b]
              \/ server' = [server EXCEPT !.access = Settings!After(server.access, FALSE)]
          BY <3>3, <5>1 DEF Settings!ServeIdentity
        <5> QED
          BY <5>2
      <4> QED
        BY <4>1
    <3>4. CASE Settings!ServePerson(c)
      <4>1. PICK a, b : \/ server' = [server EXCEPT !.person = a, !.careless = b]
                        \/ server' = [server EXCEPT !.person = a]
                        \/ server' = server
        <5>1. PICK b : b = (server.careless \/ c.shown # server.person.revision)
          OBVIOUS
        <5>2. CASE \E on \in (IF c.op = "edit" THEN {server.person.on, FALSE} ELSE {FALSE}) :
                     server' = [server EXCEPT !.person = Settings!After(@, on),
                                   !.careless = @ \/ c.shown # server.person.revision]
          <6>1. PICK on : server' = [server EXCEPT !.person = Settings!After(server.person, on),
                                                   !.careless = b]
            BY <5>1, <5>2
          <6> QED
            BY <6>1
        <5>3. CASE server' = [server EXCEPT !.person.on = FALSE]
          <6>1. PICK a : server' = [server EXCEPT !.person = a]
            BY <5>3
          <6> QED
            BY <6>1
        <5> QED
          BY <3>4, <5>2, <5>3 DEF Settings!ServePerson
      <4> QED
        BY <4>1
    <3>5. CASE Settings!ServeExport(c)
      <4>1. PICK b : b = (server.careless \/ c.shown # server.export.revision)
        OBVIOUS
      <4>2. \E on \in BOOLEAN :
              server' = [server EXCEPT !.export = Settings!After(server.export, on),
                                       !.careless = b]
        BY <3>5, <4>1 DEF Settings!ServeExport
      <4> QED
        BY <4>2
    <3> QED
      BY <3>1, <3>2, <3>3, <3>4, <3>5
  <2> QED
    BY <2>1, <2>2
<1>3. ExportStored'
  <2>1. CASE UNCHANGED server
    BY <2>1 DEF ExportInv, ExportStored
  <2>2. ASSUME NEW a, NEW b,
               \/ server' = [server EXCEPT !.access = a, !.careless = b]
               \/ server' = [server EXCEPT !.access = a]
               \/ server' = [server EXCEPT !.person = a, !.careless = b]
               \/ server' = [server EXCEPT !.person = a]
        PROVE  ExportStored'
    <3>1. "export" \in DOMAIN server' /\ server'.export = server.export
      BY <2>2 DEF ExportInv, ExportStored
    <3> QED
      BY <3>1 DEF ExportInv, ExportStored
  <2>3. ASSUME NEW r, NEW on, NEW b, r = Settings!After(server.export, on),
               \/ server' = [server EXCEPT !.export = r]
               \/ server' = [server EXCEPT !.export = r, !.careless = b]
        PROVE  ExportStored'
    <3>1. r.revision \in Int
      BY <1>0, <2>3 DEF ExportInv, ExportStored
    <3>2. "export" \in DOMAIN server' /\ server'.export = r
      BY <2>3 DEF ExportInv, ExportStored
    <3> QED
      BY <3>1, <3>2 DEF ExportStored
  <2> QED
    BY <1>2, <2>1, <2>2, <2>3
<1>4. CASE Settings!SomeoneElseWrites
  BY <1>3, <1>4, ExportStays DEF Settings!SomeoneElseWrites, ExportInv, ExportShown
<1>5. CASE Settings!Serve
  <2>1. PICK c \in requests :
          \/ Settings!ServeRead(c) \/ Settings!ServeIdentity(c) \/ Settings!ServePerson(c)
          \/ Settings!ServeExport(c) \/ Settings!Answer(c, "ok", server.export)
    BY <1>5 DEF Settings!Serve
  <2>2. ui' = ui
    BY <1>5 DEF Settings!Serve
  <2>3. CASE Settings!Answer(c, "ok", server.export)
    BY <1>1, <1>3, <2>2, <2>3 DEF ExportInv, ExportStored
  <2>4. CASE Settings!ServeRead(c)
    <3>1. CASE c.op \in {"access", "accessAfter"}
      <4>1. Settings!Answer(c, "ok", server.access)
        BY <2>4, <3>1 DEF Settings!ServeRead
      <4> QED
        BY <1>1, <1>3, <2>2, <3>1, <4>1 DEF ExportReads
    <3>2. CASE c.op \in {"people", "peopleAfter"}
      <4>1. Settings!Answer(c, "ok", server.person)
        BY <2>4, <3>2 DEF Settings!ServeRead
      <4> QED
        BY <1>1, <1>3, <2>2, <3>2, <4>1 DEF ExportReads
    <3>3. CASE c.op \notin {"access", "accessAfter", "people", "peopleAfter"}
      <4>1. Settings!Answer(c, "ok", server.export)
        BY <2>4, <3>3 DEF Settings!ServeRead
      <4> QED
        BY <2>3, <4>1
    <3> QED
      BY <3>1, <3>2, <3>3
  <2>5. CASE Settings!ServeExport(c)
    <3>1. Settings!Answer(c, "written", Settings!NoRecord)
      BY <2>5 DEF Settings!ServeExport
    <3> QED
      BY <1>1, <1>3, <2>2, <3>1
  <2>6. CASE Settings!ServeIdentity(c) \/ Settings!ServePerson(c)
    <3>1. Settings!Answer(c, "ok", Settings!NoRecord) /\ c.op \notin ExportReads
      BY <2>6 DEF Settings!ServeIdentity, Settings!ServePerson, ExportReads
    <3> QED
      BY <1>1, <1>3, <2>2, <3>1
  <2> QED
    BY <2>1, <2>3, <2>4, <2>5, <2>6
<1> QED
  BY <1>4, <1>5

\* What a section's flags are, the status and the form stay.
LEMMA ExportFlags ==
  ASSUME NEW u, ExportScreen \subseteq DOMAIN u, NEW s
  PROVE  /\ \A v \in {Settings!Done(u, s), Settings!Failed(u, s)} :
              /\ ExportScreen \subseteq DOMAIN v /\ v.known = u.known /\ v.view = u.view
              /\ v.form = u.form
         /\ \A v \in {Settings!Known(u, s)} :
              /\ ExportScreen \subseteq DOMAIN v /\ v.known = u.known \union {s}
              /\ v.view = u.view /\ v.form = u.form
<1>1. PICK a, b, d, v, w, x :
        /\ a = u.busy \ {s} /\ b = u.failed \union {s} /\ d = u.failed \ {s}
        /\ v = [u EXCEPT !.busy = a] /\ w = [u EXCEPT !.failed = b]
        /\ x = [u EXCEPT !.known = u.known \union {s}, !.failed = d]
  OBVIOUS
<1>2. /\ v = Settings!Done(u, s) /\ w = Settings!Failed(u, s) /\ x = Settings!Known(u, s)
  BY <1>1 DEF Settings!Done, Settings!Failed, Settings!Known
<1>3. /\ ExportScreen \subseteq DOMAIN v /\ v.known = u.known /\ v.view = u.view
      /\ v.form = u.form
      /\ ExportScreen \subseteq DOMAIN w /\ w.known = u.known /\ w.view = u.view
      /\ w.form = u.form
      /\ ExportScreen \subseteq DOMAIN x /\ x.known = u.known \union {s} /\ x.view = u.view
      /\ x.form = u.form
  BY <1>1 DEF ExportScreen
<1> QED
  BY <1>2, <1>3

\* The answers of the other sections, and those nobody hears.
LEMMA SettingsHears ==
  ASSUME ExportInv, ExportStored', NEW c, NEW others, \A d \in others : d \in requests,
         \/ Settings!NobodyListens(c, others) \/ Settings!AccessArrives(c, others)
         \/ Settings!PeopleArrive(c, others) \/ Settings!TokenEnds(c, others)
         \/ Settings!PersonEnds(c, others) \/ Settings!TestArrives(c, others)
         \/ Settings!PasswordChanged(c, others)
  PROVE  ExportInv'
<1>0. ExportScreen \subseteq DOMAIN ui
  BY DEF ExportInv, ExportShown
<1>1. \A d \in requests' : d \in requests \/ ExportAnswer(d)
  <2>1. PICK a, b : /\ a = Settings!Plain("accessAfter") /\ b = Settings!Plain("peopleAfter")
                    /\ \A d \in requests' : d \in others \/ d = a \/ d = b
    BY DEF Settings!NobodyListens, Settings!AccessArrives, Settings!PeopleArrive,
           Settings!TokenEnds, Settings!PersonEnds, Settings!TestArrives,
           Settings!PasswordChanged
  <2> QED
    BY <2>1, ExportPlain
<1>2. ASSUME NEW u, ExportScreen \subseteq DOMAIN u, "audit" \in u.known => "audit" \in ui.known,
             u.view = ui.view, u.form = ui.form, ui' = u
      PROVE  ExportInv'
  BY <1>1, <1>2, ExportStays
<1>3. CASE Settings!NobodyListens(c, others)
  <2>1. PICK lost : lost = (ui.lost \/ c.stage = "ok")
    OBVIOUS
  <2>2. ui' = [ui EXCEPT !.lost = lost]
    BY <1>3, <2>1 DEF Settings!NobodyListens
  <2>3. /\ ExportScreen \subseteq DOMAIN ui' /\ ui'.known = ui.known /\ ui'.view = ui.view
        /\ ui'.form = ui.form
    BY <1>0, <2>2 DEF ExportScreen
  <2> QED
    BY <1>2, <2>3
<1>4. CASE Settings!AccessArrives(c, others)
  <2>1. PICK u : /\ u = ui \/ u = Settings!Done(ui, "configuration")
                 /\ \/ ui' = Settings!Failed(u, "configuration")
                    \/ \E k : /\ k = u.known \union {"configuration"}
                              /\ ui' = [u EXCEPT !.access = c.record, !.known = k]
    BY <1>4 DEF Settings!AccessArrives
  <2>2. /\ ExportScreen \subseteq DOMAIN u /\ u.known = ui.known /\ u.view = ui.view
        /\ u.form = ui.form
    <3>1. CASE u = ui
      BY <1>0, <3>1
    <3>2. CASE u = Settings!Done(ui, "configuration")
      BY <1>0, <3>2, ExportFlags
    <3> QED
      BY <2>1, <3>1, <3>2
  <2>3. CASE ui' = Settings!Failed(u, "configuration")
    <3>1. /\ ExportScreen \subseteq DOMAIN ui' /\ ui'.known = u.known /\ ui'.view = u.view
          /\ ui'.form = u.form
      BY <2>2, <2>3, ExportFlags
    <3> QED
      BY <1>2, <2>2, <3>1
  <2>4. CASE \E k : /\ k = u.known \union {"configuration"}
                    /\ ui' = [u EXCEPT !.access = c.record, !.known = k]
    <3>1. PICK k : /\ k = u.known \union {"configuration"}
                   /\ ui' = [u EXCEPT !.access = c.record, !.known = k]
      BY <2>4
    <3>2. /\ ExportScreen \subseteq DOMAIN ui' /\ ui'.known = k /\ ui'.view = u.view
          /\ ui'.form = u.form
      BY <2>2, <3>1 DEF ExportScreen
    <3> QED
      BY <1>2, <2>2, <3>1, <3>2
  <2> QED
    BY <2>1, <2>3, <2>4
<1>5. CASE Settings!PeopleArrive(c, others)
  <2>1. PICK u, k : /\ u = ui \/ u = Settings!Done(ui, "administrators")
                    /\ k = Settings!Known(u, "administrators")
                    /\ \/ ui' = Settings!Failed(u, "administrators")
                       \/ ui' = [k EXCEPT !.person = c.record]
    BY <1>5 DEF Settings!PeopleArrive
  <2>2. /\ ExportScreen \subseteq DOMAIN u /\ u.known = ui.known /\ u.view = ui.view
        /\ u.form = ui.form
    <3>1. CASE u = ui
      BY <1>0, <3>1
    <3>2. CASE u = Settings!Done(ui, "administrators")
      BY <1>0, <3>2, ExportFlags
    <3> QED
      BY <2>1, <3>1, <3>2
  <2>3. CASE ui' = Settings!Failed(u, "administrators")
    <3>1. /\ ExportScreen \subseteq DOMAIN ui' /\ ui'.known = u.known /\ ui'.view = u.view
          /\ ui'.form = u.form
      BY <2>2, <2>3, ExportFlags
    <3> QED
      BY <1>2, <2>2, <3>1
  <2>4. CASE ui' = [k EXCEPT !.person = c.record]
    <3>1. /\ ExportScreen \subseteq DOMAIN k /\ k.known = u.known \union {"administrators"}
          /\ k.view = u.view /\ k.form = u.form
      BY <2>1, <2>2, ExportFlags
    <3>2. /\ ExportScreen \subseteq DOMAIN ui' /\ ui'.known = k.known /\ ui'.view = k.view
          /\ ui'.form = k.form
      BY <2>4, <3>1 DEF ExportScreen
    <3> QED
      BY <1>2, <2>2, <3>1, <3>2
  <2> QED
    BY <2>1, <2>3, <2>4
<1>6. CASE Settings!TokenEnds(c, others) \/ Settings!PersonEnds(c, others)
  <2>1. PICK a, b, s :
          \/ ui' = [ui EXCEPT !.panel = a, !.failed = b]
          \/ ui' = [ui EXCEPT !.panel = a, !.picked = 0]
          \/ ui' = Settings!Done(ui, s)
    <3>1. PICK a1, a2, b : /\ a1 = (IF c.op = "issue" THEN "token" ELSE "")
                      /\ b = ui.failed \ {"configuration"}
                      /\ a2 = (IF c.op \in Settings!Secret THEN "password" ELSE "")
      OBVIOUS
    <3>2. \/ ui' = [ui EXCEPT !.panel = a1, !.failed = b]
          \/ ui' = [ui EXCEPT !.panel = a2, !.picked = 0]
          \/ ui' = Settings!Done(ui, "configuration") \/ ui' = Settings!Done(ui, "administrators")
      BY <1>6, <3>1 DEF Settings!TokenEnds, Settings!PersonEnds
    <3> QED
      BY <3>2
  <2>2. CASE ui' = Settings!Done(ui, s)
    <3>1. /\ ExportScreen \subseteq DOMAIN ui' /\ ui'.known = ui.known /\ ui'.view = ui.view
          /\ ui'.form = ui.form
      BY <1>0, <2>2, ExportFlags
    <3> QED
      BY <1>2, <3>1
  <2>3. CASE \/ ui' = [ui EXCEPT !.panel = a, !.failed = b]
             \/ ui' = [ui EXCEPT !.panel = a, !.picked = 0]
    <3>1. /\ ExportScreen \subseteq DOMAIN ui' /\ ui'.known = ui.known /\ ui'.view = ui.view
          /\ ui'.form = ui.form
      BY <1>0, <2>3 DEF ExportScreen
    <3> QED
      BY <1>2, <3>1
  <2> QED
    BY <2>1, <2>2, <2>3
<1>7. CASE Settings!TestArrives(c, others)
  <2>1. ui' = Settings!Done(ui, "audit")
    BY <1>7 DEF Settings!TestArrives
  <2>2. /\ ExportScreen \subseteq DOMAIN ui' /\ ui'.known = ui.known /\ ui'.view = ui.view
        /\ ui'.form = ui.form
    BY <1>0, <2>1, ExportFlags
  <2> QED
    BY <1>2, <2>2
<1>8. CASE Settings!PasswordChanged(c, others)
  <2>1. PICK u, typed : /\ u = Settings!Done(ui, "security")
                        /\ typed = (u.typed /\ c.stage # "ok")
    OBVIOUS
  <2>2. ui' = [u EXCEPT !.typed = typed]
    BY <1>8, <2>1 DEF Settings!PasswordChanged
  <2>3. /\ ExportScreen \subseteq DOMAIN u /\ u.known = ui.known /\ u.view = ui.view
        /\ u.form = ui.form
    BY <1>0, <2>1, ExportFlags
  <2>4. /\ ExportScreen \subseteq DOMAIN ui' /\ ui'.known = u.known /\ ui'.view = u.view
        /\ ui'.form = u.form
    BY <2>2, <2>3 DEF ExportScreen
  <2> QED
    BY <1>2, <2>3, <2>4
<1> QED
  BY <1>3, <1>4, <1>5, <1>6, <1>7, <1>8

\* Settings that were loaded or saved are adopted whole; a status only if it is not older.
LEMMA ExportHears ==
  ASSUME ExportInv, ExportStored', NEW c, ExportAnswer(c), NEW others,
         \A d \in others : d \in requests,
         Settings!ExportArrives(c, others) \/ Settings!PollArrives(c, others)
  PROVE  ExportInv'
<1>0. /\ ExportScreen \subseteq DOMAIN ui /\ \A d \in others : ExportAnswer(d)
  BY DEF ExportInv, ExportShown
<1>1. CASE Settings!ExportArrives(c, others)
  <2>1. PICK u : /\ u = ui \/ u = Settings!Done(ui, "audit")
                 /\ IF c.stage = "ok" THEN Settings!Settle(Settings!Adopt(u, c.record), others)
                    ELSE Settings!Settle(IF "audit" \in u.known THEN u
                                         ELSE Settings!Failed(u, "audit"), others)
    BY <1>1 DEF Settings!ExportArrives
  <2>2. /\ ExportScreen \subseteq DOMAIN u /\ u.known = ui.known /\ u.view = ui.view
        /\ u.form = ui.form
    BY <1>0, <2>1, ExportFlags
  <2>3. CASE c.stage = "ok"
    <3>1. PICK record, k, v :
            /\ record = c.record /\ k = Settings!Known(u, "audit")
            /\ v = [k EXCEPT !.view = record, !.form = record.revision, !.edited = FALSE]
      OBVIOUS
    <3>2. Settings!Settle(v, others)
      BY <2>1, <2>3, <3>1 DEF Settings!Adopt
    <3>3. ExportScreen \subseteq DOMAIN k
      BY <2>2, <3>1, ExportFlags
    <3>4. ExportScreen \subseteq DOMAIN v /\ v.view = record /\ v.form = record.revision
      BY <3>1, <3>3 DEF ExportScreen
    <3>5. record.revision \in Int
      BY <1>1, <2>3, <3>1 DEF Settings!ExportArrives, ExportAnswer, ExportReads
    <3>6. ExportShown(v)
      BY <3>4, <3>5 DEF ExportShown
    <3> QED
      BY <1>0, <3>2, <3>6, ExportSettles
  <2>4. CASE c.stage # "ok"
    <3>1. PICK v : /\ v = u \/ v = Settings!Failed(u, "audit")
                   /\ Settings!Settle(v, others)
      BY <2>1, <2>4
    <3>2. /\ ExportScreen \subseteq DOMAIN v /\ v.known = u.known /\ v.view = u.view
          /\ v.form = u.form
      BY <2>2, <3>1, ExportFlags
    <3>3. ExportShown(v)
      BY <2>2, <3>2 DEF ExportInv, ExportShown
    <3> QED
      BY <1>0, <3>1, <3>3, ExportSettles
  <2> QED
    BY <2>3, <2>4
<1>2. CASE Settings!PollArrives(c, others)
  <2>1. CASE c.stage = "ok" /\ c.record.revision >= ui.view.revision
    <3>1. PICK record, v : /\ record = c.record /\ v = [ui EXCEPT !.view = record]
                           /\ Settings!Settle(v, others)
      BY <1>2, <2>1 DEF Settings!PollArrives
    <3>2. /\ ExportScreen \subseteq DOMAIN v /\ v.known = ui.known /\ v.view = record
          /\ v.form = ui.form
      BY <1>0, <3>1 DEF ExportScreen
    <3>3. record.revision \in Int /\ record.revision >= ui.view.revision
      BY <1>2, <2>1, <3>1 DEF Settings!PollArrives, ExportAnswer, ExportReads
    <3>4. ExportShown(v)
      BY <3>2, <3>3 DEF ExportInv, ExportShown
    <3> QED
      BY <1>0, <3>1, <3>4, ExportSettles
  <2>2. CASE ~(c.stage = "ok" /\ c.record.revision >= ui.view.revision)
    <3>1. Settings!Settle(ui, others)
      BY <1>2, <2>2 DEF Settings!PollArrives
    <3> QED
      BY <1>0, <3>1, ExportSettles DEF ExportInv
  <2> QED
    BY <2>1, <2>2
<1> QED
  BY <1>1, <1>2

\* The end of the session leaves nothing known of the page.
LEMMA ExportExpires ==
  ASSUME ExportInv, ExportStored', NEW asked \in requests, Settings!SessionExpired(asked)
  PROVE  ExportInv'
<1>1. PICK none, fresh : none = Settings!NoRecord /\ fresh = Settings!Fresh
  OBVIOUS
<1>2. none.revision = 0
  BY <1>1 DEF Settings!NoRecord
<1>3. /\ ExportScreen \subseteq DOMAIN fresh /\ fresh.known = {} /\ fresh.view = none
      /\ fresh.form = 0
  <2>1. ASSUME NEW closed, NEW f,
               f = [section |-> "other", visible |-> TRUE, mounted |-> {}, known |-> {},
                    failed |-> {}, busy |-> {}, panel |-> closed, picked |-> 0,
                    access |-> none, person |-> none, view |-> none, form |-> 0,
                    edited |-> FALSE, typed |-> FALSE, lost |-> FALSE]
        PROVE  /\ ExportScreen \subseteq DOMAIN f /\ f.known = {} /\ f.view = none
               /\ f.form = 0
    BY <2>1 DEF ExportScreen
  <2> QED
    BY <1>1, <2>1 DEF Settings!Fresh
<1>4. PICK section, b : ui' = [fresh EXCEPT !.section = section, !.visible = FALSE, !.lost = b]
  <2>1. PICK section, b : /\ section = Settings!SignedOut
                          /\ b = (ui.lost \/ ui.panel \in {"token", "password"})
    OBVIOUS
  <2>2. ui' = [fresh EXCEPT !.section = section, !.visible = FALSE, !.lost = b]
    BY <1>1, <2>1 DEF Settings!SessionExpired
  <2> QED
    BY <2>2
<1>5. /\ ExportScreen \subseteq DOMAIN ui' /\ ui'.known = {} /\ ui'.view = none
      /\ ui'.form = 0
  BY <1>3, <1>4 DEF ExportScreen
<1>6. ASSUME NEW c \in requests' PROVE ExportAnswer(c)
  <2>1. PICK d \in requests : c = [d EXCEPT !.gone = TRUE]
    BY DEF Settings!SessionExpired
  <2>2. ExportCall \subseteq DOMAIN d
    BY DEF ExportInv, ExportAnswer
  <2>3. /\ ExportCall \subseteq DOMAIN c /\ c.op = d.op /\ c.stage = d.stage
        /\ c.record = d.record
    BY <2>1, <2>2 DEF ExportCall
  <2> QED
    BY <2>3 DEF ExportInv, ExportAnswer
<1> QED
  BY <1>2, <1>5, <1>6 DEF ExportInv, ExportShown

LEMMA SettingsDelivers ==
  ASSUME ExportInv, Settings!Deliver
  PROVE  ExportInv'
<1>0. ExportStored'
  BY DEF Settings!Deliver, ExportInv, ExportStored
<1> SUFFICES ASSUME NEW asked \in requests, ~Settings!SessionExpired(asked),
                    \E c \in Settings!Heard(asked) :
                      LET others == requests \ {asked} IN
                        \/ Settings!NobodyListens(c, others) \/ Settings!AccessArrives(c, others)
                        \/ Settings!PeopleArrive(c, others) \/ Settings!TokenEnds(c, others)
                        \/ Settings!PersonEnds(c, others) \/ Settings!ExportArrives(c, others)
                        \/ Settings!TestArrives(c, others) \/ Settings!PollArrives(c, others)
                        \/ Settings!PasswordChanged(c, others)
             PROVE  ExportInv'
  BY <1>0, ExportExpires DEF Settings!Deliver
<1>2. PICK c, others :
        /\ c \in Settings!Heard(asked) /\ others = requests \ {asked}
        /\ \/ Settings!NobodyListens(c, others) \/ Settings!AccessArrives(c, others)
           \/ Settings!PeopleArrive(c, others) \/ Settings!TokenEnds(c, others)
           \/ Settings!PersonEnds(c, others) \/ Settings!ExportArrives(c, others)
           \/ Settings!TestArrives(c, others) \/ Settings!PollArrives(c, others)
           \/ Settings!PasswordChanged(c, others)
  OBVIOUS
<1>3. c = asked \/ c = [asked EXCEPT !.stage = "failed"]
  BY <1>2 DEF Settings!Heard
<1>4. ExportAnswer(c)
  <2>1. CASE c = asked
    BY <2>1 DEF ExportInv
  <2>2. CASE c = [asked EXCEPT !.stage = "failed"]
    <3>1. ExportCall \subseteq DOMAIN c /\ c.stage = "failed"
      BY <2>2 DEF ExportInv, ExportAnswer, ExportCall
    <3> QED
      BY <3>1 DEF ExportAnswer
  <2> QED
    BY <1>3, <2>1, <2>2
<1>5. \A d \in others : d \in requests
  BY <1>2
<1> QED
  BY <1>0, <1>2, <1>4, <1>5, SettingsHears, ExportHears

LEMMA ExportStarts == Settings!Init => ExportInv
<1> SUFFICES ASSUME Settings!Init PROVE ExportInv
  OBVIOUS
<1>1. PICK none, person, record :
        /\ none = Settings!NoRecord /\ record = [revision |-> 0, on |-> TRUE]
        /\ server = [access |-> none, person |-> person, export |-> record, careless |-> FALSE]
  BY DEF Settings!Init
<1>2. ExportStored
  BY <1>1 DEF ExportStored
<1>3. none.revision = 0
  BY <1>1 DEF Settings!NoRecord
<1>4. ui = Settings!Fresh /\ requests = {}
  BY DEF Settings!Init
<1>5. ExportScreen \subseteq DOMAIN ui /\ ui.known = {} /\ ui.view = none /\ ui.form = 0
  BY <1>1, <1>4 DEF Settings!Fresh, ExportScreen
<1> QED
  BY <1>2, <1>3, <1>4, <1>5 DEF ExportInv, ExportShown

LEMMA ExportKeeps ==
  ASSUME ExportInv, Settings!Next \/ UNCHANGED <<server, ui, requests>>
  PROVE  ExportInv'
<1>1. CASE UNCHANGED <<server, ui, requests>>
  BY <1>1 DEF ExportInv, ExportStored
<1>2. CASE Settings!Next
  BY <1>2, SettingsVisits, SettingsActs, SettingsServes, SettingsDelivers DEF Settings!Next
<1> QED
  BY <1>1, <1>2

LEMMA ExportMatches == ExportInv => Settings!AnswersMatchTheScreen
  BY DEF ExportInv, ExportShown, Settings!AnswersMatchTheScreen

(***************************************************************************)
(* The home page                                                           *)
(***************************************************************************)
HomeScreen == {"home", "journeys", "sources", "selected", "health", "failed", "checking",
               "fresh", "overview", "recent"}
HomeCall == {"op", "source", "check", "stage", "stored"}
Ahead == {"check", "reload"}     \* of a check that was asked for here

\* Of the domains and the last checks known of.
HomeShown ==
  /\ HomeScreen \subseteq DOMAIN ui /\ ui.fresh \in Nat /\ ui.fresh <= server.check
  /\ {"check", "stored"} \subseteq DOMAIN server /\ server.check \in Nat

HomeAnswer(c) == HomeCall \subseteq DOMAIN c /\ c.check \in Nat /\ c.check <= server.check

\* One check runs at a time, and says so.
HomeAhead ==
  \A c \in requests : c.op \in Ahead =>
    ui.checking /\ \A d \in requests : d.op \in Ahead => d = c

\* When none runs, the health there is, and the one that is read, know of the last.
HomeFresh ==
  (~ui.failed /\ ~ui.checking) =>
    /\ \A c \in requests : (c.op = "health" /\ c.stage = "ok") => c.check >= ui.fresh
    /\ \/ \E c \in requests : c.op = "health"
       \/ ui.health = -1 \/ ui.health >= ui.fresh

HomePanels ==
  ui.home =>
    /\ (ui.health = -1 /\ ~ui.failed) => \E c \in requests : c.op = "health"
    /\ (ui.overview = "unread" /\ HomePage!Source(ui) # HomePage!Nil) =>
         \E c \in requests : c.op = "overview"
    /\ (ui.recent = "unread" /\ HomePage!Recent(ui) # HomePage!Nil) =>
         \E c \in requests : c.op = "recent"
    /\ \A c \in requests : /\ c.op = "overview" => c.source = HomePage!Source(ui)
                           /\ c.op = "recent" => c.source = HomePage!Recent(ui)

HomeInv ==
  /\ HomeShown
  /\ \A c \in requests : HomeAnswer(c)
  /\ HomeAhead
  /\ HomeFresh
  /\ HomePanels

\* The panels are of the sources there are, the one selected and the queries remembered.
LEMMA HomeSame ==
  ASSUME NEW u, NEW v, u.journeys = v.journeys, u.sources = v.sources
  PROVE  /\ HomePage!Recent(u) = HomePage!Recent(v)
         /\ u.selected = v.selected => HomePage!Source(u) = HomePage!Source(v)
<1>1. HomePage!Journeys(u) = HomePage!Journeys(v)
  BY DEF HomePage!Journeys
<1>2. HomePage!Recent(u) = HomePage!Recent(v)
  BY <1>1 DEF HomePage!Recent
<1>3. ASSUME u.selected = v.selected
      PROVE  HomePage!Source(u) = HomePage!Source(v)
  BY <1>3 DEF HomePage!Source
<1> QED
  BY <1>2, <1>3

LEMMA HomeReads ==
  \A op, s, r : r = HomePage!Read(op, s) =>
    /\ HomeCall \subseteq DOMAIN r
    /\ r.op = op /\ r.source = s /\ r.check = 0 /\ r.stage = "sent"
<1> SUFFICES ASSUME NEW op, NEW s, NEW r, r = HomePage!Read(op, s)
             PROVE  /\ HomeCall \subseteq DOMAIN r
                    /\ r.op = op /\ r.source = s /\ r.check = 0 /\ r.stage = "sent"
  OBVIOUS
<1>1. r = [op |-> op, source |-> s, check |-> 0, stored |-> {}, stage |-> "sent"]
  BY DEF HomePage!Read
<1> QED
  BY <1>1 DEF HomeCall

LEMMA HomeBegins ==
  ASSUME NEW op, NEW s
  PROVE  /\ s # HomePage!Nil => \E c \in HomePage!Begin(op, s) : c.op = op
         /\ \A c \in HomePage!Begin(op, s) :
              /\ HomeCall \subseteq DOMAIN c
              /\ c.op = op /\ c.source = s /\ c.check = 0 /\ c.stage = "sent"
<1>1. PICK r : r = HomePage!Read(op, s)
  OBVIOUS
<1>2. /\ HomeCall \subseteq DOMAIN r
      /\ r.op = op /\ r.source = s /\ r.check = 0 /\ r.stage = "sent"
  BY <1>1, HomeReads
<1> QED
  BY <1>1, <1>2 DEF HomePage!Begin

\* A page that is mounted reads everything it shows.
HomeOpen == ui.home

HomeBegun ==
  /\ \E v, u : /\ HomeScreen \subseteq DOMAIN v /\ u = HomePage!Mount(v)
               /\ ui = u /\ requests = HomePage!FirstReads(u)
  /\ {"check", "stored"} \subseteq DOMAIN server /\ server.check \in Nat

LEMMA HomeBegunHolds == HomeBegun => HomeInv /\ HomeOpen
<1> SUFFICES ASSUME HomeBegun PROVE HomeInv /\ HomeOpen
  OBVIOUS
<1>0. PICK v, u : /\ HomeScreen \subseteq DOMAIN v /\ u = HomePage!Mount(v)
                  /\ ui = u /\ requests = HomePage!FirstReads(u)
  BY DEF HomeBegun
<1>1. PICK s : u = [v EXCEPT !.home = TRUE, !.selected = s, !.health = -1, !.failed = FALSE,
                             !.fresh = 0, !.overview = "unread", !.recent = "unread"]
  BY <1>0 DEF HomePage!Mount
<1>2. /\ HomeScreen \subseteq DOMAIN u /\ u.fresh = 0 /\ u.health = -1 /\ u.home
  BY <1>0, <1>1 DEF HomeScreen
<1>3. PICK a, b, h : /\ a = HomePage!Begin("recent", HomePage!Recent(u))
                     /\ b = HomePage!Begin("overview", HomePage!Source(u))
                     /\ h = HomePage!Read("health", HomePage!Nil)
                     /\ requests = {h} \union a \union b
  BY <1>0 DEF HomePage!FirstReads
<1>4. /\ \A c \in a : /\ HomeCall \subseteq DOMAIN c /\ c.op = "recent"
                      /\ c.source = HomePage!Recent(u) /\ c.check = 0 /\ c.stage = "sent"
      /\ HomePage!Recent(u) # HomePage!Nil => \E c \in a : c.op = "recent"
  BY <1>3, HomeBegins
<1>5. /\ \A c \in b : /\ HomeCall \subseteq DOMAIN c /\ c.op = "overview"
                      /\ c.source = HomePage!Source(u) /\ c.check = 0 /\ c.stage = "sent"
      /\ HomePage!Source(u) # HomePage!Nil => \E c \in b : c.op = "overview"
  BY <1>3, HomeBegins
<1>6. HomeCall \subseteq DOMAIN h /\ h.op = "health" /\ h.check = 0 /\ h.stage = "sent"
  BY <1>3, HomeReads
<1>7. HomeShown /\ \A c \in requests : HomeAnswer(c)
  BY <1>0, <1>2, <1>3, <1>4, <1>5, <1>6 DEF HomeBegun, HomeShown, HomeAnswer
<1>8. HomeAhead
  BY <1>0, <1>3, <1>4, <1>5, <1>6 DEF HomeBegun, HomeAhead, Ahead
<1>9. HomeFresh
  BY <1>0, <1>2, <1>3, <1>4, <1>5, <1>6 DEF HomeBegun, HomeFresh
<1>10. HomePanels
  <2>1. ui = u
    BY <1>0
  <2> QED
    BY <2>1, <1>3, <1>4, <1>5, <1>6 DEF HomeBegun, HomePanels
<1> QED
  BY <1>0, <1>2, <1>7, <1>8, <1>9, <1>10 DEF HomeInv, HomeOpen

LEMMA HomeMounted == HomeBegun' => HomeInv' /\ HomeOpen'
  BY HomeBegunHolds, PTL

\* What is known of health and checks, where the panels are read anew: as Shows makes
\* it of a page u and the requests of the rest.
LEMMA HomeShows ==
  ASSUME HomeInv, NEW u, NEW rest, UNCHANGED server, HomePage!Shows(u, rest), ui.home,
         HomeScreen \subseteq DOMAIN u, u.home = ui.home, u.journeys = ui.journeys,
         u.overview = ui.overview, u.recent = ui.recent, u.fresh = ui.fresh,
         \A c \in rest : HomeAnswer(c) /\ (c.op \in {"overview", "recent"} => c \in requests),
         \A c \in requests : c.op \in {"overview", "recent"} => c \in rest,
         \A c \in rest : c.op \in Ahead =>
           u.checking /\ \A d \in rest : d.op \in Ahead => d = c,
         (~u.failed /\ ~u.checking) =>
           /\ \A c \in rest : (c.op = "health" /\ c.stage = "ok") => c.check >= u.fresh
           /\ \/ \E c \in rest : c.op = "health"
              \/ u.health = -1 \/ u.health >= u.fresh,
         (u.health = -1 /\ ~u.failed) => \E c \in rest : c.op = "health"
  PROVE  HomeInv' /\ ui'.home = ui.home
<1> PICK moved :
      moved = (IF HomePage!Recent(u) # HomePage!Recent(ui) THEN {"recent"} ELSE {})
              \union (IF HomePage!Source(u) # HomePage!Source(ui) THEN {"overview"} ELSE {})
  OBVIOUS
<1> PICK r, o : /\ r = HomePage!Begin("recent", HomePage!Recent(u))
                /\ o = HomePage!Begin("overview", HomePage!Source(u))
  OBVIOUS
<1> PICK a, b : /\ a = (IF "recent" \in moved THEN "unread" ELSE u.recent)
                /\ b = (IF "overview" \in moved THEN "unread" ELSE u.overview)
  OBVIOUS
<1>0. /\ ui' = [u EXCEPT !.recent = a, !.overview = b]
      /\ requests' = {c \in rest : c.op \notin moved}
                     \union {c \in r \union o : c.op \in moved}
  BY DEF HomePage!Shows
<1>1. /\ "recent" \in moved <=> HomePage!Recent(u) # HomePage!Recent(ui)
      /\ "overview" \in moved <=> HomePage!Source(u) # HomePage!Source(ui)
      /\ \A x \in moved : x \in {"recent", "overview"}
  OBVIOUS
<1>2. /\ HomeScreen \subseteq DOMAIN ui' /\ ui'.home = u.home /\ ui'.journeys = u.journeys
      /\ ui'.sources = u.sources /\ ui'.selected = u.selected /\ ui'.health = u.health
      /\ ui'.failed = u.failed /\ ui'.checking = u.checking /\ ui'.fresh = u.fresh
      /\ ui'.recent = (IF "recent" \in moved THEN "unread" ELSE u.recent)
      /\ ui'.overview = (IF "overview" \in moved THEN "unread" ELSE u.overview)
  BY <1>0 DEF HomeScreen
<1>3. HomePage!Source(ui)' = HomePage!Source(u) /\ HomePage!Recent(ui)' = HomePage!Recent(u)
  BY <1>2, HomeSame
<1>4. /\ \A c \in r : /\ HomeCall \subseteq DOMAIN c /\ c.op = "recent"
                      /\ c.source = HomePage!Recent(u) /\ c.check = 0 /\ c.stage = "sent"
      /\ HomePage!Recent(u) # HomePage!Nil => \E c \in r : c.op = "recent"
  BY HomeBegins
<1>5. /\ \A c \in o : /\ HomeCall \subseteq DOMAIN c /\ c.op = "overview"
                      /\ c.source = HomePage!Source(u) /\ c.check = 0 /\ c.stage = "sent"
      /\ HomePage!Source(u) # HomePage!Nil => \E c \in o : c.op = "overview"
  BY HomeBegins
<1>6. \A c \in requests' : \/ c \in rest /\ c.op \notin moved
                           \/ c \in r /\ c.op \in moved
                           \/ c \in o /\ c.op \in moved
  BY <1>0
<1>7. \A c \in rest : c.op \notin moved => c \in requests'
  BY <1>0
<1>8. HomeShown' /\ \A c \in requests' : HomeAnswer(c)'
  BY <1>2, <1>4, <1>5, <1>6 DEF HomeInv, HomeShown, HomeAnswer
<1>9. HomeAhead'
  BY <1>2, <1>4, <1>5, <1>6 DEF HomeAhead, Ahead
<1>10. "health" \notin moved
  BY <1>1
<1>11. HomeFresh'
  BY <1>2, <1>4, <1>5, <1>6, <1>7, <1>10 DEF HomeFresh
<1>12. \A c \in requests' : c.op = "overview" => c.source = HomePage!Source(ui)'
  BY <1>1, <1>3, <1>4, <1>5, <1>6 DEF HomeInv, HomePanels
<1>13. \A c \in requests' : c.op = "recent" => c.source = HomePage!Recent(ui)'
  BY <1>1, <1>3, <1>4, <1>5, <1>6 DEF HomeInv, HomePanels
<1>14. (ui'.overview = "unread" /\ HomePage!Source(ui)' # HomePage!Nil)
          => \E c \in requests' : c.op = "overview"
  <2>1. CASE "overview" \in moved
    BY <1>0, <1>1, <1>3, <1>5, <2>1
  <2>2. CASE "overview" \notin moved
    BY <1>1, <1>2, <1>3, <1>7, <2>2 DEF HomeInv, HomePanels
  <2> QED
    BY <2>1, <2>2
<1>15. (ui'.recent = "unread" /\ HomePage!Recent(ui)' # HomePage!Nil)
          => \E c \in requests' : c.op = "recent"
  <2>1. CASE "recent" \in moved
    BY <1>0, <1>1, <1>3, <1>4, <2>1
  <2>2. CASE "recent" \notin moved
    BY <1>1, <1>2, <1>3, <1>7, <2>2 DEF HomeInv, HomePanels
  <2> QED
    BY <2>1, <2>2
<1>16. (ui'.health = -1 /\ ~ui'.failed) => \E c \in requests' : c.op = "health"
  BY <1>2, <1>7, <1>10
<1>17. HomePanels'
  BY <1>12, <1>13, <1>14, <1>15, <1>16 DEF HomePanels
<1> QED
  BY <1>2, <1>8, <1>9, <1>11, <1>17 DEF HomeInv

\* Where the panels and what they are of stay: each that is read stays read, but those
\* that are over.
LEMMA HomeStays ==
  ASSUME HomeInv, HomeScreen \subseteq DOMAIN ui',
         ui'.home = ui.home, ui'.journeys = ui.journeys, ui'.sources = ui.sources,
         ui'.selected = ui.selected, NEW over,
         \A c \in requests : c.op \in {"overview", "recent"} \ over => c \in requests',
         \A c \in requests' :
           /\ c.op = "overview" => c.source = HomePage!Source(ui)
           /\ c.op = "recent" => c.source = HomePage!Recent(ui),
         \/ ui'.overview = ui.overview /\ "overview" \notin over
         \/ ui'.overview # "unread"
         \/ \E c \in requests' : c.op = "overview",
         \/ ui'.recent = ui.recent /\ "recent" \notin over
         \/ ui'.recent # "unread"
         \/ \E c \in requests' : c.op = "recent",
         (ui'.home /\ ui'.health = -1 /\ ~ui'.failed) => \E c \in requests' : c.op = "health"
  PROVE  HomePanels'
<1>1. HomePage!Source(ui)' = HomePage!Source(ui) /\ HomePage!Recent(ui)' = HomePage!Recent(ui)
  BY HomeSame
<1>2. (ui'.home /\ ui'.overview = "unread" /\ HomePage!Source(ui)' # HomePage!Nil)
          => \E c \in requests' : c.op = "overview"
  BY <1>1 DEF HomeInv, HomePanels
<1>3. (ui'.home /\ ui'.recent = "unread" /\ HomePage!Recent(ui)' # HomePage!Nil)
          => \E c \in requests' : c.op = "recent"
  BY <1>1 DEF HomeInv, HomePanels
<1> QED
  BY <1>1, <1>2, <1>3 DEF HomePanels

LEMMA HomeActs ==
  ASSUME HomeInv, \/ HomePage!Refresh \/ HomePage!CheckNow \/ HomePage!RetryOverview
                  \/ HomePage!RetryRecent
  PROVE  HomeInv' /\ ui'.home = ui.home
<1>0. HomeScreen \subseteq DOMAIN ui
  BY DEF HomeInv, HomeShown
<1>1. CASE HomePage!Refresh
  <2>1. PICK r : r = HomePage!Read("health", HomePage!Nil)
    OBVIOUS
  <2>2. /\ ui' = [ui EXCEPT !.failed = FALSE] /\ UNCHANGED server
        /\ requests' = {c \in requests : c.op # "health"} \union {r}
    BY <1>1, <2>1 DEF HomePage!Refresh, HomePage!ReadHealth, HomePage!Of
  <2>3. HomeCall \subseteq DOMAIN r /\ r.op = "health" /\ r.check = 0 /\ r.stage = "sent"
    BY <2>1, HomeReads
  <2>4. /\ HomeScreen \subseteq DOMAIN ui' /\ ui'.fresh = ui.fresh /\ ui'.health = ui.health
        /\ ui'.home = ui.home /\ ui'.journeys = ui.journeys /\ ui'.sources = ui.sources
        /\ ui'.selected = ui.selected /\ ui'.checking = ui.checking
        /\ ui'.overview = ui.overview /\ ui'.recent = ui.recent
    BY <1>0, <2>2 DEF HomeScreen
  <2>5. HomeShown' /\ \A c \in requests' : HomeAnswer(c)'
    BY <2>2, <2>3, <2>4 DEF HomeInv, HomeShown, HomeAnswer
  <2>6. HomeAhead'
    BY <2>2, <2>3, <2>4 DEF HomeInv, HomeAhead, Ahead
  <2>7. HomeFresh'
    BY <2>2, <2>3, <2>4 DEF HomeFresh
  <2>8. /\ \A c \in requests : c.op \in {"overview", "recent"} => c \in requests'
        /\ \E c \in requests' : c.op = "health"
        /\ \A c \in requests' : /\ c.op = "overview" => c.source = HomePage!Source(ui)
                                /\ c.op = "recent" => c.source = HomePage!Recent(ui)
    BY <1>1, <2>2, <2>3 DEF HomeInv, HomePanels, HomePage!Refresh
  <2>9. HomePanels'
    <3>1. PICK over : over = {}
      OBVIOUS
    <3> QED
      BY <2>4, <2>8, <3>1, HomeStays
  <2> QED
    BY <2>4, <2>5, <2>6, <2>7, <2>9 DEF HomeInv
<1>2. CASE HomePage!CheckNow
  <2>1. PICK s, r : /\ r = HomePage!Read("check", s)
                    /\ ui' = [ui EXCEPT !.checking = TRUE, !.failed = FALSE]
                    /\ requests' = requests \union {r} /\ UNCHANGED server
    BY <1>2 DEF HomePage!CheckNow
  <2>2. HomeCall \subseteq DOMAIN r /\ r.op = "check" /\ r.check = 0 /\ r.stage = "sent"
    BY <2>1, HomeReads
  <2>3. /\ HomeScreen \subseteq DOMAIN ui' /\ ui'.fresh = ui.fresh /\ ui'.health = ui.health
        /\ ui'.home = ui.home /\ ui'.journeys = ui.journeys /\ ui'.sources = ui.sources
        /\ ui'.selected = ui.selected /\ ui'.checking
        /\ ui'.overview = ui.overview /\ ui'.recent = ui.recent
    BY <1>0, <2>1 DEF HomeScreen
  <2>4. HomeShown' /\ \A c \in requests' : HomeAnswer(c)'
    BY <2>1, <2>2, <2>3 DEF HomeInv, HomeShown, HomeAnswer
  <2>5. HomeAhead'
    BY <1>2, <2>1, <2>2, <2>3 DEF HomeInv, HomeAhead, Ahead, HomePage!CheckNow
  <2>6. HomeFresh'
    BY <2>3 DEF HomeFresh
  <2>7. /\ ui.home /\ ui.health # -1
        /\ \A c \in requests : c \in requests'
        /\ \A c \in requests' : /\ c.op = "overview" => c.source = HomePage!Source(ui)
                                /\ c.op = "recent" => c.source = HomePage!Recent(ui)
    BY <1>2, <2>1, <2>2 DEF HomeInv, HomePanels, HomePage!CheckNow
  <2>8. PICK over : over = {}
    OBVIOUS
  <2>9. HomePanels'
    BY <2>3, <2>7, <2>8, HomeStays
  <2> QED
    BY <2>3, <2>4, <2>5, <2>6, <2>9 DEF HomeInv
<1>3. CASE HomePage!RetryOverview \/ HomePage!RetryRecent
  <2>1. PICK op, s, b :
          /\ \/ op = "overview" /\ s = HomePage!Source(ui) /\ ui' = [ui EXCEPT !.overview = "unread"]
             \/ op = "recent" /\ s = HomePage!Recent(ui) /\ ui' = [ui EXCEPT !.recent = "unread"]
          /\ b = HomePage!Begin(op, s) /\ requests' = requests \union b /\ UNCHANGED server
    BY <1>3 DEF HomePage!RetryOverview, HomePage!RetryRecent
  <2>2. /\ s # HomePage!Nil => \E c \in b : c.op = op
        /\ \A c \in b : /\ HomeCall \subseteq DOMAIN c
                        /\ c.op = op /\ c.source = s /\ c.check = 0 /\ c.stage = "sent"
    BY <2>1, HomeBegins
  <2>3. /\ HomeScreen \subseteq DOMAIN ui' /\ ui'.fresh = ui.fresh /\ ui'.health = ui.health
        /\ ui'.home = ui.home /\ ui'.journeys = ui.journeys /\ ui'.sources = ui.sources
        /\ ui'.selected = ui.selected /\ ui'.checking = ui.checking /\ ui'.failed = ui.failed
        /\ op = "overview" => ui'.recent = ui.recent
        /\ op = "recent" => ui'.overview = ui.overview
    BY <1>0, <2>1 DEF HomeScreen
  <2>4. HomeShown' /\ \A c \in requests' : HomeAnswer(c)'
    BY <2>1, <2>2, <2>3 DEF HomeInv, HomeShown, HomeAnswer
  <2>5. HomeAhead'
    BY <2>1, <2>2, <2>3 DEF HomeInv, HomeAhead, Ahead
  <2>6. HomeFresh'
    BY <2>1, <2>2, <2>3 DEF HomeInv, HomeFresh
  <2>7. HomePage!Source(ui)' = HomePage!Source(ui) /\ HomePage!Recent(ui)' = HomePage!Recent(ui)
    BY <2>3, HomeSame
  <2>8. HomePanels'
    BY <2>1, <2>2, <2>3, <2>7 DEF HomeInv, HomePanels
  <2> QED
    BY <2>3, <2>4, <2>5, <2>6, <2>8 DEF HomeInv
<1> QED
  BY <1>1, <1>2, <1>3

LEMMA HomeMoves ==
  ASSUME HomeInv, \/ HomePage!SelectSource \/ HomePage!OpenQuery \/ HomePage!ReturnHome
                  \/ HomePage!SourceDeleted
  PROVE  HomeInv' /\ (ui'.home \/ requests' = {} \/ UNCHANGED <<ui, requests>>)
<1>0. HomeScreen \subseteq DOMAIN ui
  BY DEF HomeInv, HomeShown
<1>1. CASE HomePage!SelectSource
  <2>1. PICK s, u, rest : /\ u = [ui EXCEPT !.selected = s] /\ rest = requests
                          /\ HomePage!Shows(u, rest) /\ ui.home /\ UNCHANGED server
    BY <1>1 DEF HomePage!SelectSource
  <2>2. /\ HomeScreen \subseteq DOMAIN u /\ u.home = ui.home /\ u.journeys = ui.journeys
        /\ u.overview = ui.overview /\ u.recent = ui.recent /\ u.fresh = ui.fresh
        /\ u.checking = ui.checking /\ u.failed = ui.failed /\ u.health = ui.health
    BY <1>0, <2>1 DEF HomeScreen
  <2>3. /\ \A c \in rest : HomeAnswer(c) /\ (c.op \in {"overview", "recent"} => c \in requests)
        /\ \A c \in requests : c.op \in {"overview", "recent"} => c \in rest
        /\ \A c \in rest : c.op \in Ahead =>
             u.checking /\ \A d \in rest : d.op \in Ahead => d = c
        /\ (~u.failed /\ ~u.checking) =>
             /\ \A c \in rest : (c.op = "health" /\ c.stage = "ok") => c.check >= u.fresh
             /\ \/ \E c \in rest : c.op = "health"
                \/ u.health = -1 \/ u.health >= u.fresh
        /\ (u.health = -1 /\ ~u.failed) => \E c \in rest : c.op = "health"
    BY <2>1, <2>2 DEF HomeInv, HomeAhead, HomeFresh, HomePanels
  <2> QED
    BY <2>1, <2>2, <2>3, HomeShows, ZenonT(40)
<1>2. CASE HomePage!OpenQuery
  <2>1. PICK v, j : /\ v = HomePage!Mount(ui)
                    /\ ui' = [v EXCEPT !.home = FALSE, !.journeys = j,
                                       !.selected = HomePage!Nil]
    <3>1. PICK s : ui' = [HomePage!Mount(ui) EXCEPT !.home = FALSE,
                            !.journeys = HomePage!Remember(@, s), !.selected = HomePage!Nil]
      BY <1>2 DEF HomePage!OpenQuery
    <3>2. PICK v : v = HomePage!Mount(ui)
      OBVIOUS
    <3>3. PICK j : j = HomePage!Remember(v.journeys, s)
      OBVIOUS
    <3> QED
      BY <3>1, <3>2, <3>3
  <2>2. PICK s : v = [ui EXCEPT !.home = TRUE, !.selected = s, !.health = -1, !.failed = FALSE,
                                !.fresh = 0, !.overview = "unread", !.recent = "unread"]
    BY <2>1 DEF HomePage!Mount
  <2>3. /\ HomeScreen \subseteq DOMAIN ui' /\ ui'.fresh = 0 /\ ui'.health = -1
        /\ ui'.home = FALSE
    BY <1>0, <2>1, <2>2 DEF HomeScreen
  <2>4. requests' = {} /\ UNCHANGED server
    BY <1>2 DEF HomePage!OpenQuery
  <2>5. HomeShown' /\ \A c \in requests' : HomeAnswer(c)'
    BY <2>3, <2>4 DEF HomeInv, HomeShown
  <2>6. HomeAhead' /\ HomeFresh' /\ HomePanels'
    BY <2>3, <2>4 DEF HomeAhead, HomeFresh, HomePanels
  <2> QED
    BY <2>4, <2>5, <2>6 DEF HomeInv
<1>3. CASE HomePage!ReturnHome
  <2>1. PICK s, w, u : /\ w = [ui EXCEPT !.sources = s] /\ u = HomePage!Mount(w)
                       /\ ui' = u /\ requests' = HomePage!FirstReads(u) /\ UNCHANGED server
    BY <1>3 DEF HomePage!ReturnHome
  <2>2. HomeScreen \subseteq DOMAIN w
    BY <1>0, <2>1 DEF HomeScreen
  <2>3. {"check", "stored"} \subseteq DOMAIN server' /\ server'.check \in Nat
    BY <2>1 DEF HomeInv, HomeShown
  <2> QED
    <3>1. HomeBegun'
      BY <2>1, <2>2, <2>3 DEF HomeBegun
    <3> QED
      BY <3>1, HomeMounted DEF HomeOpen
<1>4. CASE HomePage!SourceDeleted
  <2>1. PICK s, stored : /\ stored = server.stored \ {s}
                         /\ server' = [server EXCEPT !.stored = stored]
                         /\ UNCHANGED <<ui, requests>>
    BY <1>4 DEF HomePage!SourceDeleted
  <2>2. {"check", "stored"} \subseteq DOMAIN server' /\ server'.check = server.check
    BY <2>1 DEF HomeInv, HomeShown
  <2>3. HomeShown' /\ \A c \in requests' : HomeAnswer(c)'
    BY <2>1, <2>2 DEF HomeInv, HomeShown, HomeAnswer
  <2>4. HomeAhead' /\ HomeFresh' /\ HomePanels'
    BY <2>1 DEF HomeInv, HomeAhead, HomeFresh, HomePanels
  <2> QED
    BY <2>1, <2>3, <2>4 DEF HomeInv
<1> QED
  BY <1>1, <1>2, <1>3, <1>4

LEMMA HomeServes ==
  ASSUME HomeInv, HomePage!Serve
  PROVE  HomeInv' /\ ui'.home = ui.home /\ requests # {}
<1>1. PICK c \in requests : /\ c.stage = "sent" /\ UNCHANGED ui
                            /\ (HomePage!ServeRead(c) \/ HomePage!ServeCheck(c))
  BY DEF HomePage!Serve
<1>2. /\ HomeCall \subseteq DOMAIN c /\ c.check \in Nat /\ c.check <= server.check
      /\ {"check", "stored"} \subseteq DOMAIN server /\ server.check \in Nat
  BY <1>1 DEF HomeInv, HomeAnswer, HomeShown
<1>3. PICK d : /\ requests' = (requests \ {c}) \union {d}
               /\ HomeCall \subseteq DOMAIN d /\ d.op = c.op /\ d.source = c.source
               /\ d.check \in Nat /\ d.check <= server'.check
               /\ c.op = "health" => d.check = server.check
               /\ {"check", "stored"} \subseteq DOMAIN server'
               /\ server'.check \in Nat /\ server'.check >= server.check
  <2>1. CASE HomePage!ServeRead(c)
    <3>1. PICK check, stored : /\ check = (IF c.op = "health" THEN server.check ELSE 0)
                               /\ stored = (IF c.op = "reload" THEN server.stored ELSE {})
      OBVIOUS
    <3>2. PICK d : d = [c EXCEPT !.stage = "ok", !.check = check, !.stored = stored]
      OBVIOUS
    <3>3. requests' = (requests \ {c}) \union {d} /\ UNCHANGED server
      BY <2>1, <3>1, <3>2 DEF HomePage!ServeRead
    <3>4. /\ HomeCall \subseteq DOMAIN d /\ d.op = c.op /\ d.source = c.source
          /\ d.check = check
      BY <1>2, <3>2 DEF HomeCall
    <3> QED
      BY <1>2, <3>1, <3>3, <3>4
  <2>2. CASE HomePage!ServeCheck(c)
    <3>1. PICK n : n = server.check + 1
      OBVIOUS
    <3>2. PICK stage, d : /\ d = [c EXCEPT !.stage = stage, !.check = n]
                          /\ requests' = (requests \ {c}) \union {d}
                          /\ server' = [server EXCEPT !.check = n]
      BY <2>2, <3>1 DEF HomePage!ServeCheck
    <3>3. /\ HomeCall \subseteq DOMAIN d /\ d.op = c.op /\ d.source = c.source
          /\ d.check = n
      BY <1>2, <3>2 DEF HomeCall
    <3>4. server'.check = n /\ {"check", "stored"} \subseteq DOMAIN server'
      BY <1>2, <3>2
    <3>5. c.op = "check"
      BY <2>2 DEF HomePage!ServeCheck
    <3>6. n \in Nat /\ n >= server.check
      BY <1>2, <3>1
    <3>7. d.check \in Nat /\ d.check <= server'.check
      BY <3>3, <3>4, <3>6
    <3>8. server'.check \in Nat /\ server'.check >= server.check
      BY <3>4, <3>6
    <3> QED
      BY <3>2, <3>3, <3>4, <3>5, <3>7, <3>8
  <2> QED
    BY <1>1, <2>1, <2>2
<1>4. HomeShown' /\ \A e \in requests' : HomeAnswer(e)'
  BY <1>1, <1>3 DEF HomeInv, HomeShown, HomeAnswer
<1>5. HomeAhead'
  BY <1>1, <1>3 DEF HomeInv, HomeAhead
<1>6. HomeFresh'
  <2>1. ui.fresh \in Nat /\ ui.fresh <= server.check
    BY DEF HomeInv, HomeShown
  <2>2. d.op = "health" => d.check >= ui.fresh
    BY <1>2, <1>3, <2>1
  <2> QED
    BY <1>1, <1>3, <2>2 DEF HomeInv, HomeFresh
<1>7. HomePanels'
  BY <1>1, <1>3 DEF HomeInv, HomePanels
<1> QED
  BY <1>1, <1>4, <1>5, <1>6, <1>7 DEF HomeInv

\* The parts of a page that an answer which is not of a panel leaves as they are.
LEMMA HomeHears ==
  ASSUME HomeInv, NEW asked \in requests, NEW c, NEW others, others = requests \ {asked},
         c.op = asked.op, c.stage = "ok" => c = asked, UNCHANGED server,
         \/ HomePage!HealthArrives(c, others) \/ HomePage!CheckFails(c, others)
         \/ HomePage!CheckArrives(c, others) \/ HomePage!PanelArrives(c, others)
  PROVE  HomeInv' /\ ui'.home = ui.home
<1>0. HomeScreen \subseteq DOMAIN ui /\ HomeAnswer(asked)
  BY DEF HomeInv, HomeShown
<1>1. CASE HomePage!HealthArrives(c, others)
  <2>1. /\ c.op = "health" /\ requests' = others
        /\ \/ c.stage = "ok" /\ ui' = [ui EXCEPT !.health = c.check]
           \/ c.stage # "ok" /\ ui' = [ui EXCEPT !.health = -1, !.failed = TRUE]
    BY <1>1 DEF HomePage!HealthArrives
  <2>2. /\ HomeScreen \subseteq DOMAIN ui' /\ ui'.fresh = ui.fresh
        /\ ui'.home = ui.home /\ ui'.journeys = ui.journeys /\ ui'.sources = ui.sources
        /\ ui'.selected = ui.selected /\ ui'.checking = ui.checking
        /\ ui'.overview = ui.overview /\ ui'.recent = ui.recent
        /\ c.stage = "ok" => ui'.health = c.check /\ ui'.failed = ui.failed
        /\ c.stage # "ok" => ui'.failed
    BY <1>0, <2>1 DEF HomeScreen
  <2>3. HomeShown' /\ \A d \in requests' : HomeAnswer(d)'
    BY <2>1, <2>2 DEF HomeInv, HomeShown, HomeAnswer
  <2>4. HomeAhead'
    BY <2>1, <2>2 DEF HomeInv, HomeAhead
  <2>5. HomeFresh'
    BY <2>1, <2>2 DEF HomeInv, HomeFresh
  <2>7. c.stage = "ok" => ui'.health # -1
    BY <1>0, <2>2 DEF HomeAnswer
  <2>8. ~(ui'.health = -1 /\ ~ui'.failed)
    BY <2>2, <2>7
  <2>9. \A d \in requests : d.op \in {"overview", "recent"} => d \in requests'
    BY <2>1
  <2>10. HomePage!Source(ui)' = HomePage!Source(ui) /\ HomePage!Recent(ui)' = HomePage!Recent(ui)
    BY <2>2, HomeSame
  <2>11. HomePanels'
    BY <2>1, <2>2, <2>8, <2>9, <2>10 DEF HomeInv, HomePanels
  <2> QED
    BY <2>2, <2>3, <2>4, <2>5, <2>11 DEF HomeInv
<1>2. CASE HomePage!CheckFails(c, others)
  <2>1. /\ c.op \in Ahead /\ requests' = others
        /\ ui' = [ui EXCEPT !.failed = TRUE, !.checking = FALSE]
    BY <1>2 DEF HomePage!CheckFails, Ahead
  <2>2. /\ HomeScreen \subseteq DOMAIN ui' /\ ui'.fresh = ui.fresh /\ ui'.health = ui.health
        /\ ui'.home = ui.home /\ ui'.journeys = ui.journeys /\ ui'.sources = ui.sources
        /\ ui'.selected = ui.selected /\ ui'.failed
        /\ ui'.overview = ui.overview /\ ui'.recent = ui.recent
    BY <1>0, <2>1 DEF HomeScreen
  <2>3. HomeShown' /\ \A d \in requests' : HomeAnswer(d)'
    BY <2>1, <2>2 DEF HomeInv, HomeShown, HomeAnswer
  <2>4. HomeAhead'
    BY <2>1, <2>2 DEF HomeInv, HomeAhead
  <2>5. HomeFresh'
    BY <2>2 DEF HomeFresh
  <2>9. \A d \in requests : d.op \in {"overview", "recent"} => d \in requests'
    BY <2>1 DEF Ahead
  <2>10. HomePage!Source(ui)' = HomePage!Source(ui) /\ HomePage!Recent(ui)' = HomePage!Recent(ui)
    BY <2>2, HomeSame
  <2>11. HomePanels'
    BY <2>1, <2>2, <2>9, <2>10 DEF HomeInv, HomePanels
  <2> QED
    BY <2>2, <2>3, <2>4, <2>5, <2>11 DEF HomeInv
<1>3. CASE HomePage!CheckArrives(c, others)
  <2>1. PICK r : /\ r = HomePage!Read("reload", HomePage!Nil) /\ requests' = others \union {r}
                 /\ ui' = [ui EXCEPT !.fresh = c.check] /\ c.op = "check" /\ c = asked
    BY <1>3 DEF HomePage!CheckArrives
  <2>2. HomeCall \subseteq DOMAIN r /\ r.op = "reload" /\ r.check = 0 /\ r.stage = "sent"
    BY <2>1, HomeReads
  <2>3. /\ HomeScreen \subseteq DOMAIN ui' /\ ui'.fresh = asked.check /\ ui'.health = ui.health
        /\ ui'.home = ui.home /\ ui'.journeys = ui.journeys /\ ui'.sources = ui.sources
        /\ ui'.selected = ui.selected /\ ui'.failed = ui.failed /\ ui'.checking = ui.checking
        /\ ui'.overview = ui.overview /\ ui'.recent = ui.recent
    BY <1>0, <2>1 DEF HomeScreen
  <2>4. ui.checking /\ \A d \in others : d.op \notin Ahead
    BY <2>1 DEF HomeInv, HomeAhead, Ahead
  <2>5. HomeShown' /\ \A d \in requests' : HomeAnswer(d)'
    BY <1>0, <2>1, <2>2, <2>3 DEF HomeInv, HomeShown, HomeAnswer
  <2>6. HomeAhead'
    BY <2>1, <2>2, <2>3, <2>4 DEF HomeAhead
  <2>7. HomeFresh'
    BY <2>3, <2>4 DEF HomeFresh
  <2>8. HomePage!Source(ui)' = HomePage!Source(ui) /\ HomePage!Recent(ui)' = HomePage!Recent(ui)
    BY <2>3, HomeSame
  <2>9. \A d \in requests : d.op # "check" => d \in requests'
    BY <2>1
  <2>10. HomePanels'
    BY <2>1, <2>2, <2>3, <2>8, <2>9 DEF HomeInv, HomePanels
  <2> QED
    BY <2>3, <2>5, <2>6, <2>7, <2>10 DEF HomeInv
<1>4. CASE HomePage!PanelArrives(c, others)
  <2>1. PICK panel : panel = (IF c.stage = "ok" THEN "shown" ELSE "failed")
    OBVIOUS
  <2>2. /\ requests' = others
        /\ \/ c.op = "overview" /\ ui' = [ui EXCEPT !.overview = panel]
           \/ c.op = "recent" /\ ui' = [ui EXCEPT !.recent = panel]
    BY <1>4, <2>1 DEF HomePage!PanelArrives
  <2>3. /\ HomeScreen \subseteq DOMAIN ui' /\ ui'.fresh = ui.fresh /\ ui'.health = ui.health
        /\ ui'.home = ui.home /\ ui'.journeys = ui.journeys /\ ui'.sources = ui.sources
        /\ ui'.selected = ui.selected /\ ui'.failed = ui.failed /\ ui'.checking = ui.checking
        /\ c.op = "overview" => ui'.overview = panel /\ ui'.recent = ui.recent
        /\ c.op = "recent" => ui'.recent = panel /\ ui'.overview = ui.overview
    BY <1>0, <2>2 DEF HomeScreen
  <2>4. HomeShown' /\ \A d \in requests' : HomeAnswer(d)'
    BY <2>2, <2>3 DEF HomeInv, HomeShown, HomeAnswer
  <2>5. HomeAhead'
    BY <2>2, <2>3 DEF HomeInv, HomeAhead
  <2>6. \A d \in requests : d.op # c.op => d \in requests'
    BY <2>2
  <2>7. HomeFresh'
    BY <2>2, <2>3, <2>6 DEF HomeInv, HomeFresh
  <2>8. HomePage!Source(ui)' = HomePage!Source(ui) /\ HomePage!Recent(ui)' = HomePage!Recent(ui)
    BY <2>3, HomeSame
  <2>9. panel # "unread"
    BY <2>1
  <2>10. HomePanels'
    BY <2>2, <2>3, <2>6, <2>8, <2>9 DEF HomeInv, HomePanels
  <2> QED
    BY <2>3, <2>4, <2>5, <2>7, <2>10 DEF HomeInv
<1> QED
  BY <1>1, <1>2, <1>3, <1>4

\* The sources after a check: the health is read anew, of after the check.
LEMMA HomeReloads ==
  ASSUME HomeInv, NEW asked \in requests, NEW c, NEW others, others = requests \ {asked},
         c.op = asked.op, UNCHANGED server, HomePage!ReloadArrives(c, others), ui.home
  PROVE  HomeInv' /\ ui'.home = ui.home
<1>0. HomeScreen \subseteq DOMAIN ui
  BY DEF HomeInv, HomeShown
<1>1. PICK u, r, rest : /\ u = [ui EXCEPT !.sources = c.stored, !.failed = FALSE, !.checking = FALSE]
                        /\ r = HomePage!Read("health", HomePage!Nil)
                        /\ rest = {d \in others : d.op # "health"} \union {r}
  OBVIOUS
<1>2. c.op = "reload" /\ HomePage!Shows(u, (others \ HomePage!Of("health")) \union {r})
  BY <1>1 DEF HomePage!ReloadArrives, HomePage!ReadHealth
<1>3. (others \ HomePage!Of("health")) \union {r} = rest
  BY <1>1 DEF HomePage!Of
<1>4. HomePage!Shows(u, rest)
  BY <1>2, <1>3
<1>5. HomeCall \subseteq DOMAIN r /\ r.op = "health" /\ r.check = 0 /\ r.stage = "sent"
  BY <1>1, HomeReads
<1>6. /\ HomeScreen \subseteq DOMAIN u /\ u.home = ui.home /\ u.journeys = ui.journeys
      /\ u.overview = ui.overview /\ u.recent = ui.recent /\ u.fresh = ui.fresh
  BY <1>0, <1>1 DEF HomeScreen
<1>7. server.check \in Nat
  BY DEF HomeInv, HomeShown
<1>8. \A d \in rest : HomeAnswer(d) /\ (d.op \in {"overview", "recent"} => d \in requests)
  BY <1>1, <1>5, <1>7 DEF HomeInv, HomeAnswer
<1>9. \A d \in requests : d.op \in {"overview", "recent"} => d \in rest
  BY <1>1, <1>2
<1>10. \A d \in rest : d.op \notin Ahead
  BY <1>1, <1>2, <1>5 DEF HomeInv, HomeAhead, Ahead
<1>11. /\ \A d \in rest : (d.op = "health" /\ d.stage = "ok") => d.check >= u.fresh
       /\ \E d \in rest : d.op = "health"
  BY <1>1, <1>5
<1> QED
  BY <1>4, <1>6, <1>8, <1>9, <1>10, <1>11, HomeShows

\* Away from the page no request of it runs.
HomeAway == ~ui.home => requests = {}

LEMMA HomeStarts == HomePage!Init => HomeInv /\ HomeAway
<1> SUFFICES ASSUME HomePage!Init PROVE HomeInv /\ HomeAway
  OBVIOUS
<1>1. PICK j \in {<<>>, <<1, 2>>} :
        \E u : /\ u = HomePage!Mount([home |-> TRUE, journeys |-> j, sources |-> HomePage!Sources,
                        selected |-> HomePage!Nil, health |-> -1, failed |-> FALSE,
                        checking |-> FALSE, fresh |-> 0, overview |-> "unread",
                        recent |-> "unread"])
              /\ ui = u /\ requests = HomePage!FirstReads(u)
  BY DEF HomePage!Init
<1>2. PICK w : w = [home |-> TRUE, journeys |-> j, sources |-> HomePage!Sources,
                    selected |-> HomePage!Nil, health |-> -1, failed |-> FALSE,
                    checking |-> FALSE, fresh |-> 0, overview |-> "unread",
                    recent |-> "unread"]
  OBVIOUS
<1>3. PICK u : u = HomePage!Mount(w) /\ ui = u /\ requests = HomePage!FirstReads(u)
  BY <1>1, <1>2
<1>4. HomeScreen \subseteq DOMAIN w
  BY <1>2 DEF HomeScreen
<1>5. {"check", "stored"} \subseteq DOMAIN server /\ server.check \in Nat
  BY DEF HomePage!Init
<1>6. HomeBegun
  BY <1>3, <1>4, <1>5 DEF HomeBegun
<1> QED
  BY <1>6, HomeBegunHolds DEF HomeAway, HomeOpen

LEMMA HomeKeeps ==
  ASSUME HomeInv, HomeAway, HomePage!Next \/ UNCHANGED <<server, ui, requests>>
  PROVE  HomeInv' /\ HomeAway'
<1>1. CASE UNCHANGED <<server, ui, requests>>
  <2>1. HomeShown' /\ \A c \in requests' : HomeAnswer(c)'
    BY <1>1 DEF HomeInv, HomeShown, HomeAnswer
  <2>2. HomeAhead' /\ HomeFresh' /\ HomePanels'
    BY <1>1 DEF HomeInv, HomeAhead, HomeFresh, HomePanels
  <2> QED
    BY <1>1, <2>1, <2>2 DEF HomeInv, HomeAway
<1>2. CASE HomePage!Refresh \/ HomePage!CheckNow \/ HomePage!RetryOverview \/ HomePage!RetryRecent
  <2>1. ui.home
    BY <1>2 DEF HomePage!Refresh, HomePage!CheckNow, HomePage!RetryOverview, HomePage!RetryRecent
  <2> QED
    BY <1>2, <2>1, HomeActs DEF HomeAway
<1>3. CASE \/ HomePage!SelectSource \/ HomePage!OpenQuery \/ HomePage!ReturnHome
           \/ HomePage!SourceDeleted
  BY <1>3, HomeMoves DEF HomeAway
<1>4. CASE HomePage!Serve
  BY <1>4, HomeServes DEF HomeAway
<1>5. CASE HomePage!Deliver
  <2>1. PICK asked \in requests : \E c \in HomePage!Heard(asked) : \E others :
          /\ others = requests \ {asked}
          /\ \/ HomePage!HealthArrives(c, others) \/ HomePage!CheckFails(c, others)
             \/ HomePage!CheckArrives(c, others) \/ HomePage!ReloadArrives(c, others)
             \/ HomePage!PanelArrives(c, others)
    BY <1>5 DEF HomePage!Deliver
  <2>2. PICK c, others :
          /\ c \in HomePage!Heard(asked) /\ others = requests \ {asked}
          /\ \/ HomePage!HealthArrives(c, others) \/ HomePage!CheckFails(c, others)
             \/ HomePage!CheckArrives(c, others) \/ HomePage!ReloadArrives(c, others)
             \/ HomePage!PanelArrives(c, others)
    BY <2>1
  <2>3. c.op = asked.op /\ (c.stage = "ok" => c = asked)
    <3>1. HomeCall \subseteq DOMAIN asked
      BY <2>1 DEF HomeInv, HomeAnswer
    <3>2. PICK d : d = [asked EXCEPT !.stage = "failed"]
      OBVIOUS
    <3>3. d.op = asked.op /\ d.stage = "failed"
      BY <3>1, <3>2 DEF HomeCall
    <3>4. c = d \/ c = asked
      BY <2>2, <3>2 DEF HomePage!Heard
    <3> QED
      BY <3>3, <3>4
  <2>4. ui.home /\ UNCHANGED server
    BY <1>5, <2>1 DEF HomeAway, HomePage!Deliver
  <2> QED
    BY <2>1, <2>2, <2>3, <2>4, HomeHears, HomeReloads DEF HomeAway
<1> QED
  BY <1>1, <1>2, <1>3, <1>4, <1>5 DEF HomePage!Next

LEMMA HomeMatches == HomeInv => HomePage!AnswersMatchTheScreen
<1>1. \A op, c : c \in HomePage!Of(op) <=> c \in requests /\ c.op = op
  BY DEF HomePage!Of
<1>2. \A op : HomePage!Reading(op) <=> \E c \in requests : c.op = op
  BY <1>1 DEF HomePage!Reading
<1> QED
  BY <1>1, <1>2 DEF HomeInv, HomeFresh, HomePanels, HomePage!AnswersMatchTheScreen

(***************************************************************************)
(* The library of evaluations                                              *)
(***************************************************************************)
LibraryScreen == {"tab", "places", "of", "loading", "failed", "busy", "deleting", "rows",
                  "record", "form"}
LibraryCall == {"op", "place", "stage"}
LibraryMore == {"do", "question", "case", "kind", "item"}
IsPlace(to, tab) == {"tab", "page"} \subseteq DOMAIN to /\ to.tab = tab
LibraryTabs == Evaluation!Libraries

\* The tabs keep places of their own; what is deleted was picked in the library.
LibraryShown(u) ==
  /\ LibraryScreen \subseteq DOMAIN u
  /\ \A tab \in LibraryTabs : tab \in DOMAIN u.places /\ IsPlace(u.places[tab], tab)
  /\ u.deleting.revision # 0 => u.tab \in LibraryTabs

\* Lists are of the place on screen, and the one other request is of a page that is busy.
LibraryAsked(c, u) ==
  /\ LibraryCall \subseteq DOMAIN c
  /\ c.op = "list" => u.tab \in LibraryTabs /\ c.place = u.places[u.tab]
  /\ c.op # "list" => u.busy = TRUE
  /\ c.op = "remove" => u.tab \in LibraryTabs

LibraryInv ==
  /\ LibraryShown(ui)
  /\ \A c \in requests : LibraryAsked(c, ui)
  /\ \A c, d \in requests : c.op # "list" /\ d.op # "list" => c = d
  /\ Evaluation!AnswersMatchTheScreen

LEMMA LibraryPlaces ==
  \A u : LibraryShown(u) /\ u.tab \in LibraryTabs => IsPlace(u.places[u.tab], u.tab)
  BY DEF LibraryShown

LEMMA LibraryNothing == Evaluation!Nothing.revision = 0
<1>1. PICK runs, n : /\ n = Evaluation!Nothing
                     /\ n = [revision |-> 0, text |-> "a", review |-> "a", runs |-> runs]
  BY DEF Evaluation!Nothing
<1> QED
  BY <1>1

LEMMA LibraryRequest ==
  \A op, r : r = Evaluation!Request(op) =>
    /\ LibraryCall \subseteq DOMAIN r /\ LibraryMore \subseteq DOMAIN r
    /\ r.op = op /\ r.stage = "sent"
<1> SUFFICES ASSUME NEW op, NEW r, r = Evaluation!Request(op)
             PROVE  /\ LibraryCall \subseteq DOMAIN r /\ LibraryMore \subseteq DOMAIN r
                    /\ r.op = op /\ r.stage = "sent"
  OBVIOUS
<1>1. PICK to, none : to = Evaluation!FirstPlace("history") /\ none = Evaluation!Nothing
  OBVIOUS
<1>2. ASSUME NEW q, q = [op |-> op, do |-> "", place |-> to, question |-> 0, case |-> 0,
                         kind |-> "guided", item |-> none, stage |-> "sent"]
      PROVE  /\ LibraryCall \subseteq DOMAIN q /\ LibraryMore \subseteq DOMAIN q
             /\ q.op = op /\ q.stage = "sent"
  BY <1>2 DEF LibraryCall, LibraryMore
<1>3. r = [op |-> op, do |-> "", place |-> to, question |-> 0, case |-> 0,
           kind |-> "guided", item |-> none, stage |-> "sent"]
  BY <1>1 DEF Evaluation!Request
<1> QED
  BY <1>2, <1>3

LEMMA LibraryList ==
  \A to, r : r = [Evaluation!Request("list") EXCEPT !.place = to] =>
    LibraryCall \subseteq DOMAIN r /\ r.op = "list" /\ r.place = to
<1> SUFFICES ASSUME NEW to, NEW r, r = [Evaluation!Request("list") EXCEPT !.place = to]
             PROVE  LibraryCall \subseteq DOMAIN r /\ r.op = "list" /\ r.place = to
  OBVIOUS
<1>1. PICK q : /\ q = Evaluation!Request("list") /\ LibraryCall \subseteq DOMAIN q
               /\ q.op = "list"
  BY LibraryRequest
<1> QED
  BY <1>1 DEF LibraryCall

\* A page that is not busy has no request but lists.
LEMMA LibraryIdle ==
  ASSUME LibraryInv, ~ui.busy
  PROVE  \A c \in requests : c.op = "list"
  BY DEF LibraryInv, LibraryAsked

LEMMA LibraryLeaves ==
  ASSUME LibraryInv, ~ui.busy, NEW next, LibraryShown(next), next.tab = "evaluation",
         Evaluation!Leave(next)
  PROVE  LibraryInv'
<1>1. ui' = next /\ requests' = {}
  BY LibraryIdle DEF Evaluation!Leave, Evaluation!Lists
<1>2. ~(ui'.tab \in LibraryTabs)
  BY <1>1 DEF LibraryTabs, Evaluation!Libraries
<1> QED
  BY <1>1, <1>2
  DEF LibraryInv, Evaluation!AnswersMatchTheScreen, Evaluation!InLibrary, LibraryTabs

LEMMA LibraryLoads ==
  ASSUME LibraryInv, ~ui.busy, NEW next, NEW to, LibraryShown(next),
         next.tab \in LibraryTabs, IsPlace(to, next.tab), Evaluation!Load(to, next)
  PROVE  LibraryInv'
<1>1. PICK none, first : none = Evaluation!Nothing /\ first = Evaluation!FirstPlace("history")
  OBVIOUS
<1>2. PICK r : /\ r = [Evaluation!Request("list") EXCEPT !.place = to]
               /\ LibraryCall \subseteq DOMAIN r /\ r.op = "list" /\ r.place = to
  BY LibraryList
<1>3. PICK places : places = [next.places EXCEPT ![to.tab] = to]
  OBVIOUS
<1>4. /\ ui' = [next EXCEPT !.places = places, !.loading = TRUE, !.failed = FALSE,
                            !.rows = none, !.of = first]
      /\ requests' = (requests \ Evaluation!Lists) \union {r}
  BY <1>1, <1>2, <1>3 DEF Evaluation!Load
<1>5. requests' = {r}
  BY <1>4, LibraryIdle DEF Evaluation!Lists
<1>6. /\ LibraryScreen \subseteq DOMAIN ui' /\ ui'.tab = next.tab /\ ui'.places = places
      /\ ui'.deleting = next.deleting /\ ui'.loading
  BY <1>4 DEF LibraryShown, LibraryScreen
<1>7. /\ \A tab \in LibraryTabs : tab \in DOMAIN places /\ IsPlace(places[tab], tab)
      /\ places[next.tab] = to
  BY <1>3 DEF LibraryShown, IsPlace
<1>8. LibraryShown(ui')
  BY <1>6, <1>7 DEF LibraryShown
<1>9. \A c \in requests' : LibraryAsked(c, ui')
  BY <1>2, <1>5, <1>6, <1>7 DEF LibraryAsked
<1>10. \A c, d \in requests' : c = d
  BY <1>5
<1>11. Evaluation!AnswersMatchTheScreen'
  BY <1>6 DEF Evaluation!AnswersMatchTheScreen
<1> QED
  BY <1>8, <1>9, <1>10, <1>11 DEF LibraryInv

\* A step that leaves the library on screen as it is.
LEMMA LibraryStays ==
  ASSUME LibraryInv, LibraryScreen \subseteq DOMAIN ui', ui'.tab = ui.tab,
         ui'.places = ui.places, ui'.of = ui.of, ui'.loading = ui.loading,
         ui'.failed = ui.failed,
         ui'.deleting.revision # 0 => ui.deleting.revision # 0 \/ ui.tab \in LibraryTabs,
         \A c \in requests' : LibraryAsked(c, ui'),
         \A c, d \in requests' : c.op # "list" /\ d.op # "list" => c = d
  PROVE  LibraryInv'
<1>1. LibraryShown(ui')
  BY DEF LibraryInv, LibraryShown
<1>2. Evaluation!AnswersMatchTheScreen'
  BY DEF LibraryInv, Evaluation!AnswersMatchTheScreen, Evaluation!InLibrary, Evaluation!Here
<1> QED
  BY <1>1, <1>2 DEF LibraryInv

LEMMA LibrarySubmits ==
  ASSUME LibraryInv, NEW r, Evaluation!Submit(r), LibraryCall \subseteq DOMAIN r,
         r.op # "list", r.op = "remove" => ui.tab \in LibraryTabs
  PROVE  LibraryInv'
<1>1. /\ ~ui.busy /\ ui' = [ui EXCEPT !.busy = TRUE] /\ requests' = requests \union {r}
  BY DEF Evaluation!Submit
<1>2. /\ LibraryScreen \subseteq DOMAIN ui' /\ ui'.tab = ui.tab
      /\ ui'.places = ui.places /\ ui'.of = ui.of /\ ui'.loading = ui.loading
      /\ ui'.failed = ui.failed /\ ui'.deleting = ui.deleting /\ ui'.busy = TRUE
  BY <1>1 DEF LibraryInv, LibraryShown, LibraryScreen
<1>3. \A c \in requests : c.op = "list"
  BY <1>1, LibraryIdle
<1>4. \A c \in requests' : LibraryAsked(c, ui')
  BY <1>1, <1>2, <1>3 DEF LibraryInv, LibraryAsked
<1>5. \A c, d \in requests' : c.op # "list" /\ d.op # "list" => c = d
  BY <1>1, <1>3
<1> QED
  BY <1>2, <1>4, <1>5, LibraryStays

\* What leaving the library leaves of the page, and an emptied page.
LEMMA LibraryCleared ==
  ASSUME LibraryInv
  PROVE  \A v : v = Evaluation!Cleared(ui) =>
           /\ LibraryShown(v) /\ v.deleting.revision = 0 /\ v.places = ui.places
           /\ v.tab = ui.tab
<1> SUFFICES ASSUME NEW v, v = Evaluation!Cleared(ui)
             PROVE  /\ LibraryShown(v) /\ v.deleting.revision = 0 /\ v.places = ui.places
                    /\ v.tab = ui.tab
  OBVIOUS
<1>1. PICK none, to, first :
        /\ none = Evaluation!Nothing
        /\ v = [ui EXCEPT !.rows = none, !.of = to, !.deleting = none, !.target = first,
                          !.loading = FALSE, !.failed = FALSE]
  BY DEF Evaluation!Cleared
<1>2. none.revision = 0
  BY <1>1, LibraryNothing
<1>3. /\ LibraryScreen \subseteq DOMAIN v /\ v.places = ui.places /\ v.deleting = none
      /\ v.tab = ui.tab
  BY <1>1 DEF LibraryInv, LibraryShown, LibraryScreen
<1> QED
  BY <1>2, <1>3 DEF LibraryInv, LibraryShown

LEMMA LibraryEmptied ==
  ASSUME LibraryInv
  PROVE  \A v : v = Evaluation!Emptied => LibraryShown(v) /\ v.tab = "evaluation"
<1> SUFFICES ASSUME NEW v, v = Evaluation!Emptied
             PROVE  LibraryShown(v) /\ v.tab = "evaluation"
  OBVIOUS
<1>1. PICK u : u = Evaluation!Cleared(ui)
  OBVIOUS
<1>2. LibraryShown(u) /\ u.deleting.revision = 0
  BY <1>1, LibraryCleared
<1>3. PICK none, first :
        v = [u EXCEPT !.tab = "evaluation", !.form = "a", !.dirty = FALSE, !.record = none,
                      !.saved = none, !.question = first, !.edited = FALSE, !.confirm = ""]
  BY <1>1 DEF Evaluation!Emptied
<1>4. /\ LibraryScreen \subseteq DOMAIN v /\ v.places = u.places /\ v.deleting = u.deleting
      /\ v.tab = "evaluation"
  BY <1>2, <1>3 DEF LibraryShown, LibraryScreen
<1> QED
  BY <1>2, <1>4 DEF LibraryShown

LEMMA LibraryAsks ==
  ASSUME LibraryInv,
         \/ Evaluation!SaveQuestion \/ Evaluation!StartCapture \/ Evaluation!EndCapture
         \/ Evaluation!SaveReview \/ Evaluation!OpenEvaluation \/ Evaluation!OpenRow
         \/ Evaluation!Remove
  PROVE  LibraryInv'
<1>1. PICK q1, q2, q3, q4, q5 :
        /\ q1 = Evaluation!Request("question") /\ q2 = Evaluation!Request("capture")
        /\ q3 = Evaluation!Request("review") /\ q4 = Evaluation!Request("open")
        /\ q5 = Evaluation!Request("remove")
  OBVIOUS
<1>2. /\ LibraryCall \subseteq DOMAIN q1
      /\ q1.op = "question"
      /\ LibraryCall \subseteq DOMAIN q2
      /\ q2.op = "capture"
      /\ LibraryCall \subseteq DOMAIN q3
      /\ q3.op = "review"
      /\ LibraryCall \subseteq DOMAIN q4
      /\ q4.op = "open"
      /\ LibraryCall \subseteq DOMAIN q5
      /\ q5.op = "remove"
  BY <1>1, LibraryRequest
<1>3. CASE Evaluation!SaveQuestion
  <2>1. PICK a, b : Evaluation!Submit([q1 EXCEPT !.question = a, !.item = b])
    BY <1>1, <1>3 DEF Evaluation!SaveQuestion
  <2>2. PICK r : r = [q1 EXCEPT !.question = a, !.item = b]
    OBVIOUS
  <2>3. LibraryCall \subseteq DOMAIN r /\ r.op = "question"
    BY <1>2, <2>2 DEF LibraryCall
  <2> QED
    BY <2>1, <2>2, <2>3, LibrarySubmits
<1>4. CASE Evaluation!StartCapture
  <2>1. PICK a, b, d, e :
          Evaluation!Submit([q2 EXCEPT !.do = "start", !.kind = a, !.question = b, !.case = d,
                                       !.item = e])
    BY <1>1, <1>4, ZenonT(30) DEF Evaluation!StartCapture
  <2>2. PICK r : r = [q2 EXCEPT !.do = "start", !.kind = a, !.question = b, !.case = d, !.item = e]
    OBVIOUS
  <2>3. LibraryCall \subseteq DOMAIN r /\ r.op = "capture"
    BY <1>2, <2>2 DEF LibraryCall
  <2> QED
    BY <2>1, <2>2, <2>3, LibrarySubmits
<1>5. CASE Evaluation!EndCapture
  <2>1. PICK a, b, d : Evaluation!Submit([q2 EXCEPT !.do = a, !.kind = b, !.item = d])
    BY <1>1, <1>5 DEF Evaluation!EndCapture
  <2>2. PICK r : r = [q2 EXCEPT !.do = a, !.kind = b, !.item = d]
    OBVIOUS
  <2>3. LibraryCall \subseteq DOMAIN r /\ r.op = "capture"
    BY <1>2, <2>2 DEF LibraryCall
  <2> QED
    BY <2>1, <2>2, <2>3, LibrarySubmits
<1>6. CASE Evaluation!SaveReview
  <2>1. PICK a, r : /\ r = [q3 EXCEPT !.item = a] /\ Evaluation!Submit(r)
    BY <1>1, <1>6 DEF Evaluation!SaveReview
  <2>2. LibraryCall \subseteq DOMAIN r /\ r.op = "review"
    BY <1>2, <2>1 DEF LibraryCall
  <2> QED
    BY <2>1, <2>2, LibrarySubmits
<1>7. CASE Evaluation!OpenEvaluation \/ Evaluation!OpenRow
  <2>1. Evaluation!Submit(q4)
    BY <1>1, <1>7 DEF Evaluation!OpenEvaluation, Evaluation!OpenRow
  <2> QED
    BY <1>2, <2>1, LibrarySubmits
<1>8. CASE Evaluation!Remove
  <2>1. PICK a, b : Evaluation!Submit([q5 EXCEPT !.do = "remove", !.item = a, !.question = b])
    BY <1>1, <1>8 DEF Evaluation!Remove
  <2>2. PICK r : r = [q5 EXCEPT !.do = "remove", !.item = a, !.question = b]
    OBVIOUS
  <2>3. LibraryCall \subseteq DOMAIN r /\ r.op = "remove"
    BY <1>2, <2>2 DEF LibraryCall
  <2>4. ui.tab \in LibraryTabs
    BY <1>8 DEF Evaluation!Remove, LibraryInv, LibraryShown
  <2> QED
    BY <2>1, <2>2, <2>3, <2>4, LibrarySubmits
<1> QED
  BY <1>3, <1>4, <1>5, <1>6, <1>7, <1>8

LEMMA LibraryTypes ==
  ASSUME LibraryInv,
         \/ Evaluation!Change \/ Evaluation!EditReview \/ Evaluation!AskDiscard
         \/ Evaluation!KeepEditing \/ Evaluation!AskRemove \/ Evaluation!KeepRecord
  PROVE  LibraryInv'
<1>1. requests' = requests
  BY DEF Evaluation!Change, Evaluation!EditReview, Evaluation!AskDiscard,
    Evaluation!KeepEditing, Evaluation!AskRemove, Evaluation!KeepRecord
<1>2. PICK none, first : none = Evaluation!Nothing /\ first = Evaluation!First
  OBVIOUS
<1>3. none.revision = 0
  BY <1>2, LibraryNothing
<1>4. PICK a, b, record :
        \/ ui' = [ui EXCEPT !.form = a, !.dirty = TRUE]
        \/ ui' = [ui EXCEPT !.record = record, !.edited = TRUE]
        \/ ui' = [ui EXCEPT !.confirm = a]
        \/ ui' = [ui EXCEPT !.deleting = a, !.target = b] /\ Evaluation!AskRemove
        \/ ui' = [ui EXCEPT !.deleting = none, !.target = first]
  <2>1. CASE Evaluation!Change
    BY <2>1 DEF Evaluation!Change
  <2>2. CASE Evaluation!EditReview
    <3>1. PICK text : ui' = [ui EXCEPT !.record.review = text, !.edited = TRUE]
      BY <2>2 DEF Evaluation!EditReview
    <3>2. PICK record : record = [ui.record EXCEPT !.review = text]
      OBVIOUS
    <3>3. ui' = [ui EXCEPT !.record = record, !.edited = TRUE]
      BY <3>1, <3>2
    <3> QED
      BY <3>3
  <2>3. CASE Evaluation!AskDiscard \/ Evaluation!KeepEditing
    <3>1. PICK a : ui' = [ui EXCEPT !.confirm = a]
      BY <2>3 DEF Evaluation!AskDiscard, Evaluation!KeepEditing
    <3> QED
      BY <3>1
  <2>4. CASE Evaluation!AskRemove
    <3>1. PICK a, b : /\ a = Evaluation!Named(ui.rows) /\ b = ui.of.page
                      /\ ui' = [ui EXCEPT !.deleting = a, !.target = b]
      BY <2>4 DEF Evaluation!AskRemove
    <3> QED
      BY <2>4, <3>1
  <2>5. CASE Evaluation!KeepRecord
    BY <1>2, <2>5 DEF Evaluation!KeepRecord
  <2> QED
    BY <2>1, <2>2, <2>3, <2>4, <2>5
<1>5. Evaluation!AskRemove => ui.tab \in LibraryTabs
  BY DEF Evaluation!AskRemove, Evaluation!RowShown, Evaluation!InLibrary, LibraryTabs
<1>6. /\ LibraryScreen \subseteq DOMAIN ui' /\ ui'.tab = ui.tab
      /\ ui'.places = ui.places /\ ui'.of = ui.of /\ ui'.loading = ui.loading
      /\ ui'.failed = ui.failed /\ ui'.busy = ui.busy
      /\ \/ ui'.deleting = ui.deleting \/ ui'.deleting = none \/ Evaluation!AskRemove
  BY <1>4 DEF LibraryInv, LibraryShown, LibraryScreen
<1>7. \A c \in requests' : LibraryAsked(c, ui')
  BY <1>1, <1>6 DEF LibraryInv, LibraryAsked
<1>8. \A c, d \in requests' : c.op # "list" /\ d.op # "list" => c = d
  BY <1>1 DEF LibraryInv
<1> QED
  BY <1>3, <1>5, <1>6, <1>7, <1>8, LibraryStays

LEMMA LibraryTurns ==
  ASSUME LibraryInv,
         \/ Evaluation!SelectTab \/ Evaluation!Reset \/ Evaluation!RefreshList
         \/ Evaluation!ApplyFilters \/ Evaluation!TurnPage \/ Evaluation!UseQuestion
  PROVE  LibraryInv'
<1>1. ~ui.busy
  BY DEF Evaluation!SelectTab, Evaluation!Reset, Evaluation!RefreshList,
    Evaluation!ApplyFilters, Evaluation!TurnPage, Evaluation!Turned, Evaluation!UseQuestion
<1>2. LibraryShown(ui)
  BY DEF LibraryInv
<1>3. PICK emptied : /\ emptied = Evaluation!Emptied /\ LibraryShown(emptied)
                     /\ emptied.tab = "evaluation"
  BY LibraryEmptied
<1>4. CASE Evaluation!SelectTab
  <2>1. PICK u : u = Evaluation!Cleared(ui)
    OBVIOUS
  <2>2. LibraryShown(u) /\ u.deleting.revision = 0 /\ u.places = ui.places
    BY <2>1, LibraryCleared
  <2>3. PICK tab : /\ tab \in LibraryTabs \union {"evaluation"}
                   /\ IF tab = "evaluation" THEN Evaluation!Leave([u EXCEPT !.tab = tab])
                      ELSE Evaluation!Load(ui.places[tab], [u EXCEPT !.tab = tab])
    BY <1>4, <2>1 DEF Evaluation!SelectTab, LibraryTabs
  <2>4. PICK v, to : v = [u EXCEPT !.tab = tab] /\ to = ui.places[tab]
    OBVIOUS
  <2>5. /\ LibraryScreen \subseteq DOMAIN v /\ v.places = u.places
        /\ v.deleting = u.deleting /\ v.tab = tab
    BY <2>2, <2>4 DEF LibraryShown, LibraryScreen
  <2>6. LibraryShown(v)
    BY <2>2, <2>5 DEF LibraryShown
  <2>7. CASE tab = "evaluation"
    BY <1>1, <2>3, <2>4, <2>5, <2>6, <2>7, LibraryLeaves
  <2>8. CASE tab # "evaluation"
    <3>1. IsPlace(to, tab) /\ tab \in LibraryTabs
      BY <1>2, <2>3, <2>4, <2>8 DEF LibraryShown
    <3>2. Evaluation!Load(to, v)
      BY <2>3, <2>4, <2>8
    <3> QED
      BY <1>1, <2>5, <2>6, <3>1, <3>2, LibraryLoads
  <2> QED
    BY <2>7, <2>8
<1>5. CASE Evaluation!Reset
  <2>1. PICK text, v : /\ v = emptied \/ v = [emptied EXCEPT !.form = text, !.dirty = TRUE]
                       /\ Evaluation!Leave(v)
    BY <1>3, <1>5 DEF Evaluation!Reset
  <2>2. /\ LibraryScreen \subseteq DOMAIN v /\ v.places = emptied.places
        /\ v.deleting = emptied.deleting /\ v.tab = emptied.tab
    BY <1>3, <2>1 DEF LibraryShown, LibraryScreen
  <2>3. LibraryShown(v)
    BY <1>3, <2>2 DEF LibraryShown
  <2> QED
    BY <1>1, <1>3, <2>1, <2>2, <2>3, LibraryLeaves
<1>6. CASE Evaluation!RefreshList \/ Evaluation!TurnPage
  <2>1. ui.tab \in LibraryTabs
    BY <1>6 DEF Evaluation!RefreshList, Evaluation!TurnPage, Evaluation!Turned,
       Evaluation!InLibrary, LibraryTabs, Evaluation!Libraries
  <2>2. PICK p, h, to : /\ h = ui.places[ui.tab]
                        /\ to = h \/ to = [h EXCEPT !.page = p]
                        /\ Evaluation!Load(to, ui)
    BY <1>6 DEF Evaluation!RefreshList, Evaluation!TurnPage, Evaluation!Here
  <2>3. IsPlace(to, ui.tab)
    BY <1>2, <2>1, <2>2 DEF LibraryShown, IsPlace
  <2> QED
    BY <1>1, <1>2, <2>1, <2>2, <2>3, LibraryLoads
<1>7. CASE Evaluation!ApplyFilters
  <2>1. PICK none, first, f : /\ none = Evaluation!Nothing /\ first = Evaluation!First
                              /\ f = Evaluation!FirstPlace(ui.tab)
    OBVIOUS
  <2>2. PICK a : Evaluation!Load([f EXCEPT !.applied = a],
                                 [ui EXCEPT !.deleting = none, !.target = first])
    BY <1>7, <2>1 DEF Evaluation!ApplyFilters
  <2>3. PICK to, v : /\ to = [f EXCEPT !.applied = a]
                     /\ v = [ui EXCEPT !.deleting = none, !.target = first]
    OBVIOUS
  <2>4. IsPlace(to, ui.tab)
    <3>1. f = [tab |-> ui.tab, page |-> first, applied |-> ""]
      BY <2>1 DEF Evaluation!FirstPlace
    <3> QED
      BY <2>3, <3>1 DEF IsPlace
  <2>5. /\ LibraryScreen \subseteq DOMAIN v /\ v.places = ui.places
        /\ v.deleting = none /\ v.tab = ui.tab
    BY <1>2, <2>3 DEF LibraryShown, LibraryScreen
  <2>6. LibraryShown(v)
    BY <1>2, <2>1, <2>5, LibraryNothing DEF LibraryShown
  <2>7. ui.tab \in LibraryTabs
    BY <1>7 DEF Evaluation!ApplyFilters, Evaluation!InLibrary, LibraryTabs
  <2> QED
    BY <1>1, <2>2, <2>3, <2>4, <2>5, <2>6, <2>7, LibraryLoads
<1>8. CASE Evaluation!UseQuestion
  <2>1. PICK a, b, d, e, v : /\ v = [emptied EXCEPT !.form = a, !.saved = b, !.question = d,
                                                    !.confirm = e]
                             /\ Evaluation!Leave(v)
    <3>1. PICK a, b, d, e : a = ui.rows.text /\ b = ui.rows /\ d = ui.of.page /\ e = ui.confirm
      OBVIOUS
    <3>2. Evaluation!Leave([emptied EXCEPT !.form = a, !.saved = b, !.question = d,
                                           !.confirm = e])
      BY <1>3, <1>8, <3>1 DEF Evaluation!UseQuestion
    <3> QED
      BY <3>2
  <2>2. /\ LibraryScreen \subseteq DOMAIN v /\ v.places = emptied.places
        /\ v.deleting = emptied.deleting /\ v.tab = emptied.tab
    BY <1>3, <2>1 DEF LibraryShown, LibraryScreen
  <2>3. LibraryShown(v)
    BY <1>3, <2>2 DEF LibraryShown
  <2> QED
    BY <1>1, <1>3, <2>1, <2>2, <2>3, LibraryLeaves
<1> QED
  BY <1>4, <1>5, <1>6, <1>7, <1>8

\* The server answers a request, which stays what it is of.
LEMMA LibraryServes ==
  ASSUME LibraryInv, Evaluation!Serve
  PROVE  LibraryInv'
<1>1. PICK c \in requests :
        /\ \/ Evaluation!ServeRead(c) \/ Evaluation!ServeQuestion(c)
           \/ Evaluation!ServeCreate(c) \/ Evaluation!ServeCapture(c)
           \/ Evaluation!ServeReview(c) \/ Evaluation!ServeRemove(c)
        /\ ui' = ui
  BY DEF Evaluation!Serve
<1>2. LibraryAsked(c, ui)
  BY <1>1 DEF LibraryInv
<1>3. PICK d : /\ requests' = (requests \ {c}) \union {d}
               /\ LibraryCall \subseteq DOMAIN d /\ d.op = c.op /\ d.place = c.place
  <2>1. CASE Evaluation!ServeQuestion(c)
    <3>1. PICK n \in LibraryQuestions :
            /\ requests' = (requests \ {c}) \union
                 {[c EXCEPT !.stage = "ok",
                            !.item = [c.item EXCEPT !.revision = server.questions[n].revision + 1],
                            !.question = n]}
      BY <2>1 DEF Evaluation!ServeQuestion
    <3>2. PICK item : item = [c.item EXCEPT !.revision = server.questions[n].revision + 1]
      OBVIOUS
    <3>3. PICK d : d = [c EXCEPT !.stage = "ok", !.item = item, !.question = n]
      OBVIOUS
    <3>4. requests' = (requests \ {c}) \union {d}
      BY <3>1, <3>2, <3>3
    <3>5. LibraryCall \subseteq DOMAIN d /\ d.op = c.op /\ d.place = c.place
      BY <1>2, <3>3 DEF LibraryAsked, LibraryCall
    <3> QED
      BY <3>4, <3>5
  <2>2. CASE \/ Evaluation!ServeRead(c) \/ Evaluation!ServeCreate(c)
             \/ Evaluation!ServeCapture(c) \/ Evaluation!ServeReview(c)
             \/ Evaluation!ServeRemove(c)
    <3>1. PICK item : Evaluation!Answered(c, item)
      BY <2>2 DEF Evaluation!ServeRead, Evaluation!ServeCreate, Evaluation!ServeCapture,
         Evaluation!ServeReview, Evaluation!ServeRemove
    <3>2. PICK d : /\ d = [c EXCEPT !.stage = "ok", !.item = item, !.case = 0]
                   /\ requests' = (requests \ {c}) \union {d}
      BY <3>1 DEF Evaluation!Answered
    <3>3. LibraryCall \subseteq DOMAIN d /\ d.op = c.op /\ d.place = c.place
      BY <1>2, <3>2 DEF LibraryAsked, LibraryCall
    <3> QED
      BY <3>2, <3>3
  <2> QED
    BY <1>1, <2>1, <2>2
<1>4. \A e \in requests' : LibraryAsked(e, ui')
  BY <1>1, <1>2, <1>3 DEF LibraryInv, LibraryAsked
<1>5. \A e, f \in requests' : e.op # "list" /\ f.op # "list" => e = f
  BY <1>1, <1>3 DEF LibraryInv
<1>6. LibraryScreen \subseteq DOMAIN ui
  BY DEF LibraryInv, LibraryShown
<1> QED
  BY <1>1, <1>4, <1>5, <1>6, LibraryStays

\* An answer that is not of a list ends what the page waits for.
LEMMA LibraryHears ==
  ASSUME LibraryInv, NEW asked \in requests, NEW c, NEW others, others = requests \ {asked},
         c.op = asked.op, c.place = asked.place,
         \/ Evaluation!ListArrives(c, others) \/ Evaluation!OpenArrives(c, others)
         \/ Evaluation!QuestionSaved(c, others) \/ Evaluation!CaptureArrives(c, others)
         \/ Evaluation!ReviewSaved(c, others) \/ Evaluation!RecordRemoved(c, others)
  PROVE  LibraryInv'
<1>0. LibraryShown(ui) /\ LibraryAsked(asked, ui) /\ LibraryScreen \subseteq DOMAIN ui
  BY DEF LibraryInv, LibraryShown
<1>1. PICK freed : freed = Evaluation!Freed /\ freed = [ui EXCEPT !.busy = FALSE]
  BY DEF Evaluation!Freed
<1>2. /\ LibraryScreen \subseteq DOMAIN freed /\ freed.tab = ui.tab
      /\ freed.places = ui.places /\ freed.of = ui.of /\ freed.loading = ui.loading
      /\ freed.failed = ui.failed /\ freed.deleting = ui.deleting
  BY <1>0, <1>1 DEF LibraryScreen
<1>3. \A d \in others : asked.op # "list" => d.op = "list"
  BY DEF LibraryInv
<1>4. ASSUME asked.op # "list", requests' = others, NEW u, ui' = u,
             LibraryScreen \subseteq DOMAIN u, u.tab = freed.tab,
             u.places = freed.places, u.of = freed.of, u.loading = freed.loading,
             u.failed = freed.failed, u.deleting = freed.deleting
      PROVE  LibraryInv'
  <2>1. \A d \in requests' : LibraryAsked(d, ui')
    BY <1>2, <1>3, <1>4 DEF LibraryInv, LibraryAsked
  <2>2. \A d, e \in requests' : d.op # "list" /\ e.op # "list" => d = e
    BY <1>3, <1>4
  <2> QED
    BY <1>2, <1>4, <2>1, <2>2, LibraryStays
<1>5. CASE Evaluation!ListArrives(c, others)
  <2>1. /\ c.op = "list" /\ requests' = others
        /\ \/ ui' = [ui EXCEPT !.rows = c.item, !.of = c.place, !.loading = FALSE]
           \/ ui' = [ui EXCEPT !.failed = TRUE, !.loading = FALSE]
    BY <1>5 DEF Evaluation!ListArrives
  <2>2. /\ LibraryScreen \subseteq DOMAIN ui' /\ ui'.tab = ui.tab
        /\ ui'.places = ui.places /\ ui'.deleting = ui.deleting /\ ui'.busy = ui.busy
        /\ ui'.failed \/ ui'.of = c.place
    BY <1>0, <2>1 DEF LibraryScreen
  <2>3. LibraryShown(ui')
    BY <1>0, <2>2 DEF LibraryShown
  <2>4. \A d \in requests' : LibraryAsked(d, ui')
    BY <2>1, <2>2 DEF LibraryInv, LibraryAsked
  <2>5. \A d, e \in requests' : d.op # "list" /\ e.op # "list" => d = e
    BY <2>1 DEF LibraryInv
  <2>6. c.place = ui.places[ui.tab]
    BY <1>0, <2>1 DEF LibraryAsked
  <2>7. Evaluation!AnswersMatchTheScreen'
    BY <2>2, <2>6 DEF Evaluation!AnswersMatchTheScreen, Evaluation!Here
  <2> QED
    BY <2>3, <2>4, <2>5, <2>7 DEF LibraryInv
<1>6. CASE Evaluation!OpenArrives(c, others)
  <2>1. CASE ui' = freed /\ requests' = others
    BY <1>2, <1>4, <1>6, <2>1 DEF Evaluation!OpenArrives
  <2>2. CASE /\ ui' = [Evaluation!Emptied EXCEPT !.busy = FALSE, !.record = c.item,
                                                 !.form = c.item.text]
             /\ requests' = others \ Evaluation!Lists
    <3>1. PICK emptied : /\ emptied = Evaluation!Emptied /\ LibraryShown(emptied)
                         /\ emptied.tab = "evaluation"
      BY LibraryEmptied
    <3>2. PICK a, b : /\ a = c.item /\ b = a.text
                      /\ ui' = [emptied EXCEPT !.busy = FALSE, !.record = a, !.form = b]
      BY <2>2, <3>1
    <3>3. /\ LibraryScreen \subseteq DOMAIN ui' /\ ui'.tab = "evaluation"
          /\ ui'.places = emptied.places /\ ui'.deleting = emptied.deleting
      BY <3>1, <3>2 DEF LibraryShown, LibraryScreen
    <3>4. LibraryShown(ui')
      BY <3>1, <3>3 DEF LibraryShown
    <3>5. requests' = {}
      BY <1>3, <1>6, <2>2 DEF Evaluation!OpenArrives, Evaluation!Lists
    <3>6. ~(ui'.tab \in LibraryTabs)
      BY <3>3 DEF LibraryTabs, Evaluation!Libraries
    <3> QED
      BY <3>4, <3>5, <3>6
      DEF LibraryInv, Evaluation!AnswersMatchTheScreen, Evaluation!InLibrary, LibraryTabs
  <2> QED
    BY <1>1, <1>6, <2>1, <2>2 DEF Evaluation!OpenArrives
<1>7. CASE \/ Evaluation!QuestionSaved(c, others) \/ Evaluation!CaptureArrives(c, others)
           \/ Evaluation!ReviewSaved(c, others)
  <2>1. PICK a, b, d, o1, o2, o3 :
          /\ a = c.item /\ b = c.question /\ d = a.text
          /\ o1 = (freed.overwritten \/ ui.form # c.item.text)
          /\ o2 = (freed.overwritten \/ ui.edited
                    \/ (ui.record.revision = 0 /\ ui.form # c.item.text))
          /\ o3 = (freed.overwritten \/ ui.record.review # c.item.review)
    OBVIOUS
  <2>2. /\ requests' = others /\ asked.op # "list"
        /\ \/ ui' = freed
           \/ ui' = [freed EXCEPT !.saved = a, !.question = b, !.dirty = FALSE,
                                  !.overwritten = o1]
           \/ ui' = [freed EXCEPT !.record = a, !.form = d, !.dirty = FALSE,
                                  !.edited = FALSE, !.overwritten = o2]
           \/ ui' = [freed EXCEPT !.record = a, !.edited = FALSE, !.overwritten = o3]
    <3>1. CASE Evaluation!QuestionSaved(c, others)
      BY <1>1, <2>1, <3>1, ZenonT(30) DEF Evaluation!QuestionSaved
    <3>2. CASE Evaluation!CaptureArrives(c, others)
      BY <1>1, <2>1, <3>2, ZenonT(30) DEF Evaluation!CaptureArrives
    <3>3. CASE Evaluation!ReviewSaved(c, others)
      BY <1>1, <2>1, <3>3 DEF Evaluation!ReviewSaved
    <3> QED
      BY <1>7, <3>1, <3>2, <3>3
  <2>3. /\ LibraryScreen \subseteq DOMAIN ui' /\ ui'.tab = freed.tab
        /\ ui'.places = freed.places /\ ui'.of = freed.of /\ ui'.loading = freed.loading
        /\ ui'.failed = freed.failed /\ ui'.deleting = freed.deleting
    BY <1>2, <2>2 DEF LibraryScreen
  <2> QED
    BY <1>4, <2>2, <2>3
<1>8. CASE Evaluation!RecordRemoved(c, others)
  <2>0. c.op = "remove" /\ ui.tab \in LibraryTabs
    BY <1>0, <1>8 DEF Evaluation!RecordRemoved, LibraryAsked
  <2>1. PICK none, first, to :
          /\ none = Evaluation!Nothing /\ first = Evaluation!First
          /\ to = Evaluation!FirstPlace("history")
    OBVIOUS
  <2>2. PICK r : /\ r = [Evaluation!Request("list") EXCEPT !.place = Evaluation!Here]
                 /\ LibraryCall \subseteq DOMAIN r /\ r.op = "list" /\ r.place = Evaluation!Here
    BY LibraryList
  <2>3. \/ /\ ui' = [freed EXCEPT !.deleting = none, !.target = first, !.loading = TRUE,
                                  !.failed = FALSE, !.rows = none, !.of = to]
           /\ requests' = (others \ Evaluation!Lists) \union {r}
        \/ ui' = [freed EXCEPT !.failed = TRUE] /\ requests' = others
    BY <1>1, <1>8, <2>1, <2>2 DEF Evaluation!RecordRemoved
  <2>4. /\ LibraryScreen \subseteq DOMAIN ui' /\ ui'.tab = ui.tab
        /\ ui'.places = ui.places /\ (ui'.failed \/ ui'.loading)
    BY <1>2, <2>3 DEF LibraryScreen
  <2>5. LibraryShown(ui')
    BY <1>0, <2>0, <2>4 DEF LibraryShown
  <2>6. \A d \in requests' : d = r \/ d \in others
    BY <2>3
  <2>7. \A d \in requests' : d.op = "list"
    BY <1>3, <2>0, <2>2, <2>6
  <2>8. r.place = ui.places[ui.tab]
    BY <2>2 DEF Evaluation!Here
  <2>9. \A d \in requests' : LibraryAsked(d, ui')
    BY <2>0, <2>2, <2>4, <2>6, <2>7, <2>8 DEF LibraryInv, LibraryAsked
  <2>10. Evaluation!AnswersMatchTheScreen'
    BY <2>4 DEF Evaluation!AnswersMatchTheScreen
  <2> QED
    BY <2>5, <2>7, <2>9, <2>10 DEF LibraryInv
<1> QED
  BY <1>5, <1>6, <1>7, <1>8

LEMMA LibraryStarts == Evaluation!Init => LibraryInv
<1> SUFFICES ASSUME Evaluation!Init PROVE LibraryInv
  OBVIOUS
<1>1. PICK none, first, to, places :
        /\ none = Evaluation!Nothing
        /\ places = [tab \in LibraryTabs |-> Evaluation!FirstPlace(tab)]
        /\ ui = [tab |-> "evaluation", form |-> "a", dirty |-> FALSE, question |-> first,
                 saved |-> none, record |-> none, edited |-> FALSE, busy |-> FALSE,
                 confirm |-> "", places |-> places, rows |-> none, of |-> to,
                 loading |-> FALSE, failed |-> FALSE, deleting |-> none, target |-> first,
                 overwritten |-> FALSE]
        /\ requests = {}
  BY DEF Evaluation!Init, LibraryTabs
<1>2. \A tab \in LibraryTabs : tab \in DOMAIN places /\ IsPlace(places[tab], tab)
  <2>1. TAKE tab \in LibraryTabs
  <2>2. PICK k, f : k = Evaluation!First /\ f = Evaluation!FirstPlace(tab)
    OBVIOUS
  <2>3. ASSUME NEW g, g = [tab |-> tab, page |-> k, applied |-> ""]
        PROVE  IsPlace(g, tab)
    BY <2>3 DEF IsPlace
  <2>4. IsPlace(f, tab)
    BY <2>2, <2>3 DEF Evaluation!FirstPlace
  <2> QED
    BY <1>1, <2>2, <2>4
<1>3. LibraryScreen \subseteq DOMAIN ui
  BY <1>1 DEF LibraryScreen
<1>4. ui.tab = "evaluation" /\ ui.places = places /\ ui.deleting = none
  BY <1>1
<1>5. LibraryShown(ui)
  BY <1>1, <1>2, <1>3, <1>4, LibraryNothing DEF LibraryShown
<1>6. ~(ui.tab \in LibraryTabs)
  BY <1>4 DEF LibraryTabs, Evaluation!Libraries
<1> QED
  BY <1>1, <1>5, <1>6
  DEF LibraryInv, Evaluation!AnswersMatchTheScreen, Evaluation!InLibrary, LibraryTabs

LEMMA LibraryKeeps ==
  ASSUME LibraryInv, Evaluation!Next \/ UNCHANGED <<ui, requests>>
  PROVE  LibraryInv'
<1>0. LibraryScreen \subseteq DOMAIN ui
  BY DEF LibraryInv, LibraryShown
<1>1. CASE UNCHANGED <<ui, requests>> \/ Evaluation!SomeoneElseWrites
  <2>1. UNCHANGED <<ui, requests>>
    BY <1>1 DEF Evaluation!SomeoneElseWrites
  <2> QED
    BY <1>0, <2>1, LibraryStays DEF LibraryInv
<1>2. CASE Evaluation!Deliver
  <2>1. PICK asked \in requests : \E c \in Evaluation!Heard(asked) : \E others :
          /\ others = requests \ {asked}
          /\ \/ Evaluation!ListArrives(c, others) \/ Evaluation!OpenArrives(c, others)
             \/ Evaluation!QuestionSaved(c, others) \/ Evaluation!CaptureArrives(c, others)
             \/ Evaluation!ReviewSaved(c, others) \/ Evaluation!RecordRemoved(c, others)
    BY <1>2 DEF Evaluation!Deliver
  <2>2. PICK c, others :
          /\ c \in Evaluation!Heard(asked) /\ others = requests \ {asked}
          /\ \/ Evaluation!ListArrives(c, others) \/ Evaluation!OpenArrives(c, others)
             \/ Evaluation!QuestionSaved(c, others) \/ Evaluation!CaptureArrives(c, others)
             \/ Evaluation!ReviewSaved(c, others) \/ Evaluation!RecordRemoved(c, others)
    BY <2>1
  <2>3. PICK d : d = [asked EXCEPT !.stage = "failed"]
    OBVIOUS
  <2>4. c = d \/ c = asked
    BY <2>2, <2>3 DEF Evaluation!Heard
  <2>5. LibraryCall \subseteq DOMAIN asked
    BY <2>1 DEF LibraryInv, LibraryAsked
  <2>6. c.op = asked.op /\ c.place = asked.place
    BY <2>3, <2>4, <2>5 DEF LibraryCall
  <2> QED
    BY <2>1, <2>2, <2>6, LibraryHears
<1> QED
  BY <1>1, <1>2, LibraryTypes, LibraryAsks, LibraryTurns, LibraryServes DEF Evaluation!Next

LEMMA LibraryMatches == LibraryInv => Evaluation!AnswersMatchTheScreen
BY DEF LibraryInv

(***************************************************************************)
(* The semantics page                                                      *)
(***************************************************************************)
SemanticScreen == {"revision", "dialog", "working", "sel", "seen"}
SemanticCall == {"op", "revision", "sel", "stage", "state"}
SemanticHistory == {"detail", "restore", "forget"}

\* The requests a dialog waits for: those of one that is gone wait for nothing.
SemanticWaits(c) ==
  \/ c.op \in {"objects", "preview"}
  \/ c.op \in SemanticHistory \union {"structure"} /\ c.sel # Semantics!Gone

\* A dialog asks for what is on screen, and locks what it was asked for.
SemanticAsked(c, u) ==
  /\ SemanticCall \subseteq DOMAIN c
  /\ c.op = "impact" => u.dialog = "review" /\ c.revision = u.revision
  /\ c.op = "visibility" => u.dialog = "visibility"
  /\ c.op \in {"objects", "preview"} => c.sel = u.sel
  /\ SemanticWaits(c) => /\ u.working = TRUE
                         /\ c.op \in SemanticHistory => u.dialog = "history"
                         /\ c.op \in {"objects", "structure"} => u.dialog = "structure"
                         /\ c.op = "preview" => u.dialog = "preview"

SemanticInv ==
  /\ SemanticScreen \subseteq DOMAIN ui
  /\ \A c \in requests : SemanticAsked(c, ui)
  /\ \A c, d \in requests : SemanticWaits(c) /\ SemanticWaits(d) => c = d
  /\ Semantics!AnswersMatchTheScreen

LEMMA SemanticRequest ==
  \A op, u, draft, r : r = Semantics!Request(op, u, draft) =>
    /\ SemanticCall \subseteq DOMAIN r /\ r.op = op
    /\ op = "impact" => r.revision = u.revision
    /\ op \in {"objects", "preview", "visibility"} => r.sel = u.sel
<1> SUFFICES ASSUME NEW op, NEW u, NEW draft, NEW r, r = Semantics!Request(op, u, draft)
             PROVE  /\ SemanticCall \subseteq DOMAIN r /\ r.op = op
                    /\ op = "impact" => r.revision = u.revision
                    /\ op \in {"objects", "preview", "visibility"} => r.sel = u.sel
  OBVIOUS
<1>1. PICK blank, n, d, k :
        /\ blank = Semantics!Blank
        /\ n = (IF op \in {"impact", "forget"} \union Semantics!Writes \union Semantics!Trials
                THEN u.revision ELSE 0)
        /\ d = (IF op \in Semantics!Writes THEN draft ELSE Semantics!Untouched)
        /\ k = (IF op \in {"objects", "preview", "visibility"} THEN u.sel ELSE 1)
  OBVIOUS
<1>2. ASSUME NEW q, q = [op |-> op, stage |-> "sent", state |-> blank, revision |-> n,
                         shown |-> d, sel |-> k]
      PROVE  SemanticCall \subseteq DOMAIN q /\ q.op = op /\ q.revision = n /\ q.sel = k
  BY <1>2 DEF SemanticCall
<1>3. r = [op |-> op, stage |-> "sent", state |-> blank, revision |-> n, shown |-> d, sel |-> k]
  BY <1>1 DEF Semantics!Request
<1>4. op = "impact" => n = u.revision
  BY <1>1
<1>5. op \in {"objects", "preview", "visibility"} => k = u.sel
  BY <1>1
<1> QED
  BY <1>2, <1>3, <1>4, <1>5

LEMMA SemanticImpact ==
  \A u, draft, r : r = Semantics!Request("impact", u, draft) =>
    SemanticCall \subseteq DOMAIN r /\ r.op = "impact" /\ r.revision = u.revision
<1> SUFFICES ASSUME NEW u, NEW draft, NEW r, r = Semantics!Request("impact", u, draft)
             PROVE  /\ SemanticCall \subseteq DOMAIN r /\ r.op = "impact"
                    /\ r.revision = u.revision
  OBVIOUS
<1>1. PICK op : op = "impact"
  OBVIOUS
<1>2. r = Semantics!Request(op, u, draft)
  BY <1>1
<1> QED
  BY <1>1, <1>2, SemanticRequest

LEMMA SemanticPanels ==
  /\ \A op \in SemanticHistory : Semantics!Panel(op) = "history"
  /\ \A op \in {"objects", "structure"} : Semantics!Panel(op) = "structure"
  /\ \A op \in {"publish", "refresh", "published"} : Semantics!Panel(op) = "review"
  BY DEF Semantics!Panel, SemanticHistory

LEMMA SemanticStarts == Semantics!Init => SemanticInv
<1> SUFFICES ASSUME Semantics!Init PROVE SemanticInv
  OBVIOUS
<1>0. PICK n : n = Semantics!Untouched
  OBVIOUS
<1>1. PICK u, r :
                     /\ u = [loaded |-> FALSE, revision |-> 0, draft |-> n, published |-> n,
                             typed |-> FALSE, busy |-> FALSE, editing |-> Semantics!Nil,
                             saving |-> FALSE, dialog |-> "", working |-> FALSE, sel |-> 1,
                             seen |-> Semantics!Nil, compared |-> n]
                     /\ r = Semantics!Request("load", u, n) /\ ui = u /\ requests = {r}
  BY <1>0 DEF Semantics!Init, Semantics!Fresh
<1>2. SemanticCall \subseteq DOMAIN r /\ r.op = "load"
  <2>1. PICK w : w = u /\ r = Semantics!Request("load", w, n)
    BY <1>1
  <2> QED
    BY <2>1, SemanticRequest
<1>3. SemanticScreen \subseteq DOMAIN ui /\ ui.dialog = ""
  BY <1>1 DEF SemanticScreen
<1>4. /\ \A c \in requests : SemanticAsked(c, ui)
      /\ \A c, d \in requests : SemanticWaits(c) /\ SemanticWaits(d) => c = d
  <2>1. \A c \in requests : c = r
    BY <1>1
  <2>2. ~SemanticWaits(r)
    BY <1>2 DEF SemanticWaits, SemanticHistory
  <2> QED
    BY <1>2, <2>1, <2>2 DEF SemanticAsked
<1> QED
  BY <1>3, <1>4 DEF SemanticInv, Semantics!AnswersMatchTheScreen

\* A step that leaves what is on screen, and asks for nothing a dialog shows.
LEMMA SemanticStays ==
  ASSUME SemanticInv, SemanticScreen \subseteq DOMAIN ui',
         ui'.revision = ui.revision, ui'.dialog = ui.dialog, ui'.working = ui.working,
         ui'.sel = ui.sel, ui'.seen = ui.seen,
         \A c \in requests' : \/ c \in requests
                              \/ /\ SemanticCall \subseteq DOMAIN c
                                 /\ c.op \notin {"impact", "visibility"} /\ ~SemanticWaits(c)
  PROVE  SemanticInv'
<1>1. \A c \in requests' : SemanticAsked(c, ui')
  <2>1. TAKE c \in requests'
  <2>2. CASE c \in requests
    BY <2>2 DEF SemanticInv, SemanticAsked
  <2>3. CASE /\ SemanticCall \subseteq DOMAIN c
             /\ c.op \notin {"impact", "visibility"} /\ ~SemanticWaits(c)
    BY <2>3 DEF SemanticAsked, SemanticWaits
  <2> QED
    BY <2>2, <2>3
<1>2. \A c, d \in requests' : SemanticWaits(c) /\ SemanticWaits(d) => c = d
  BY DEF SemanticInv
<1>3. Semantics!AnswersMatchTheScreen'
  BY DEF SemanticInv, Semantics!AnswersMatchTheScreen
<1> QED
  BY <1>1, <1>2, <1>3 DEF SemanticInv

\* A new state: its review shows nothing yet, and of a dialog that closes nothing is left.
LEMMA SemanticAccepts ==
  ASSUME SemanticInv, NEW u, NEW state, NEW others, \A c \in others : c \in requests,
         SemanticScreen \subseteq DOMAIN u, Semantics!Accept(u, state, others),
         \/ u.dialog = ""
         \/ /\ u.dialog = ui.dialog /\ u.sel = ui.sel /\ u.seen = ui.seen
            /\ u.dialog = "review" \/ (ui.working = TRUE => u.working = TRUE)
  PROVE  SemanticInv'
<1>1. PICK n, p, q : n = state.revision /\ p = state.draft /\ q = state.published
  OBVIOUS
<1>2. PICK v : v = [u EXCEPT !.loaded = TRUE, !.revision = n, !.draft = p, !.published = q,
                             !.typed = FALSE]
  OBVIOUS
<1>3. /\ SemanticScreen \subseteq DOMAIN v /\ v.revision = n /\ v.dialog = u.dialog
      /\ v.working = u.working /\ v.sel = u.sel /\ v.seen = u.seen
  BY <1>2 DEF SemanticScreen
<1>4. CASE u.dialog = "review"
  <2>1. PICK r : /\ r = Semantics!Request("impact", v, v.draft)
                 /\ ui' = [v EXCEPT !.seen = Semantics!Nil]
                 /\ requests' = {c \in others : c.op # "impact"} \union {r}
    BY <1>1, <1>2, <1>4 DEF Semantics!Accept
  <2>2. SemanticCall \subseteq DOMAIN r /\ r.op = "impact" /\ r.revision = n
    <3>1. PICK draft : r = Semantics!Request("impact", v, draft)
      BY <2>1
    <3>2. /\ r.revision = v.revision /\ SemanticCall \subseteq DOMAIN r
          /\ r.op = "impact"
      BY <3>1, SemanticImpact
    <3> QED
      BY <1>3, <3>2
  <2>3. /\ SemanticScreen \subseteq DOMAIN ui' /\ ui'.revision = n /\ ui'.dialog = "review"
        /\ ui'.seen = Semantics!Nil
    BY <1>3, <1>4, <2>1 DEF SemanticScreen
  <2>4. \A c \in others : /\ SemanticCall \subseteq DOMAIN c
                          /\ c.op # "visibility" /\ ~SemanticWaits(c)
    BY <1>4 DEF SemanticInv, SemanticAsked, SemanticWaits
  <2>5. \A c \in requests' : SemanticAsked(c, ui') /\ ~SemanticWaits(c)
    BY <2>1, <2>2, <2>3, <2>4 DEF SemanticAsked, SemanticWaits, SemanticHistory
  <2>6. Semantics!AnswersMatchTheScreen'
    BY <2>3 DEF Semantics!AnswersMatchTheScreen
  <2> QED
    BY <2>3, <2>5, <2>6 DEF SemanticInv
<1>5. CASE u.dialog # "review" /\ u.dialog # ""
  <2>1. ui' = v /\ requests' = others
    BY <1>1, <1>2, <1>5 DEF Semantics!Accept
  <2>2. \A c \in requests' : SemanticAsked(c, ui')
    BY <1>3, <1>5, <2>1 DEF SemanticInv, SemanticAsked
  <2>3. \A c, d \in requests' : SemanticWaits(c) /\ SemanticWaits(d) => c = d
    BY <2>1 DEF SemanticInv
  <2>4. Semantics!AnswersMatchTheScreen'
    BY <1>3, <1>5, <2>1 DEF SemanticInv, Semantics!AnswersMatchTheScreen
  <2> QED
    BY <1>3, <2>1, <2>2, <2>3, <2>4 DEF SemanticInv
<1>6. CASE u.dialog = ""
  <2>1. ui' = v /\ requests' = Semantics!Orphans(others)
    BY <1>1, <1>2, <1>6 DEF Semantics!Accept
  <2>2. \A d \in requests' :
          \E c \in others : /\ c.op \notin Semantics!DialogReads
                            /\ d = IF Semantics!Panel(c.op) = ui.dialog
                                   THEN [c EXCEPT !.sel = Semantics!Gone] ELSE c
    BY <2>1 DEF Semantics!Orphans
  <2>3. ASSUME NEW d \in requests'
        PROVE  SemanticAsked(d, ui') /\ ~SemanticWaits(d)
    <3>1. PICK c \in others : /\ c.op \notin Semantics!DialogReads
                              /\ d = IF Semantics!Panel(c.op) = ui.dialog
                                     THEN [c EXCEPT !.sel = Semantics!Gone] ELSE c
      BY <2>2, <2>3
    <3>2. c.op \notin {"impact", "objects", "preview", "visibility"}
      BY <3>1 DEF Semantics!DialogReads
    <3>3. SemanticAsked(c, ui)
      BY DEF SemanticInv
    <3>4. CASE Semantics!Panel(c.op) = ui.dialog
      <4>1. d = [c EXCEPT !.sel = Semantics!Gone]
        BY <3>1, <3>4
      <4>2. SemanticCall \subseteq DOMAIN d /\ d.op = c.op /\ d.sel = Semantics!Gone
        BY <3>3, <4>1 DEF SemanticAsked, SemanticCall
      <4> QED
        BY <3>2, <4>2 DEF SemanticAsked, SemanticWaits
    <3>5. CASE Semantics!Panel(c.op) # ui.dialog
      <4>1. d = c
        BY <3>1, <3>5
      <4>2. ~SemanticWaits(c)
        BY <3>2, <3>3, <3>5, SemanticPanels DEF SemanticAsked, SemanticWaits
      <4> QED
        BY <3>2, <3>3, <4>1, <4>2 DEF SemanticAsked
    <3> QED
      BY <3>4, <3>5
  <2>4. Semantics!AnswersMatchTheScreen'
    BY <1>3, <1>6, <2>1 DEF Semantics!AnswersMatchTheScreen
  <2> QED
    BY <1>3, <2>1, <2>3, <2>4 DEF SemanticInv
<1> QED
  BY <1>4, <1>5, <1>6

LEMMA SemanticAsks ==
  ASSUME NEW op, NEW u, NEW draft, Semantics!Ask(op, u, draft)
  PROVE  \E r : /\ requests' = requests \union {r}
                /\ SemanticCall \subseteq DOMAIN r /\ r.op = op
                /\ op = "impact" => r.revision = u.revision
                /\ op \in {"objects", "preview", "visibility"} => r.sel = u.sel
<1>1. PICK r : r = Semantics!Request(op, u, draft)
  OBVIOUS
<1>2. requests' = requests \union {r}
  BY <1>1 DEF Semantics!Ask
<1>3. /\ SemanticCall \subseteq DOMAIN r /\ r.op = op
      /\ op = "impact" => r.revision = u.revision
      /\ op \in {"objects", "preview", "visibility"} => r.sel = u.sel
  BY <1>1, SemanticRequest
<1> QED
  BY <1>2, <1>3

LEMMA SemanticAsksNext ==
  ASSUME NEW op, NEW u, u = ui', NEW draft, Semantics!Ask(op, u, draft)
  PROVE  \E r : /\ requests' = requests \union {r}
                /\ SemanticCall \subseteq DOMAIN r /\ r.op = op
                /\ op = "impact" => r.revision = ui'.revision
                /\ op = "objects" => r.sel = ui'.sel
<1>1. PICK r : /\ requests' = requests \union {r}
               /\ SemanticCall \subseteq DOMAIN r /\ r.op = op
               /\ op = "impact" => r.revision = u.revision
               /\ op \in {"objects", "preview", "visibility"} => r.sel = u.sel
  BY SemanticAsks
<1> QED
  BY <1>1

\* The steps of the page, and of its editor.
LEMMA SemanticActs ==
  ASSUME SemanticInv,
         \/ Semantics!RetryLoading \/ Semantics!TypeOverview \/ Semantics!RevertOverview
         \/ Semantics!SaveOverview \/ Semantics!Refresh \/ Semantics!RunTrial
         \/ Semantics!Export \/ Semantics!EditEntry \/ Semantics!CloseEditor
         \/ Semantics!SaveEntry \/ Semantics!ConfirmDialog
  PROVE  SemanticInv'
<1>1. \/ UNCHANGED requests
      \/ \E op \in {"reload", "save", "trial", "export", "entry", "discard", "delete",
                    "import"} : \E u, draft : Semantics!Ask(op, u, draft)
  BY DEF Semantics!RetryLoading, Semantics!TypeOverview, Semantics!RevertOverview,
     Semantics!SaveOverview, Semantics!Refresh, Semantics!RunTrial, Semantics!Export,
     Semantics!Act, Semantics!EditEntry, Semantics!CloseEditor, Semantics!SaveEntry,
     Semantics!ConfirmDialog
<1>2. \A c \in requests' :
        \/ c \in requests
        \/ /\ SemanticCall \subseteq DOMAIN c
           /\ c.op \notin {"impact", "visibility"} /\ ~SemanticWaits(c)
  <2>1. CASE UNCHANGED requests
    BY <2>1
  <2>2. ASSUME NEW op \in {"reload", "save", "trial", "export", "entry", "discard", "delete",
                           "import"}, NEW u, NEW draft, Semantics!Ask(op, u, draft)
        PROVE  \A c \in requests' :
                 \/ c \in requests
                 \/ /\ SemanticCall \subseteq DOMAIN c
                    /\ c.op \notin {"impact", "visibility"} /\ ~SemanticWaits(c)
    <3>1. PICK r : /\ requests' = requests \union {r}
                   /\ SemanticCall \subseteq DOMAIN r /\ r.op = op
      BY <2>2, SemanticAsks
    <3>2. r.op \notin {"impact", "visibility"} /\ ~SemanticWaits(r)
      BY <3>1 DEF SemanticWaits, SemanticHistory
    <3> QED
      BY <3>1, <3>2
  <2> QED
    BY <1>1, <2>1, <2>2
<1>3. PICK a : \/ ui' = [ui EXCEPT !.busy = TRUE] \/ ui' = [ui EXCEPT !.typed = TRUE]
               \/ ui' = [ui EXCEPT !.typed = FALSE] \/ ui' = [ui EXCEPT !.editing = a]
               \/ ui' = [ui EXCEPT !.saving = TRUE]
  <2>1. PICK a, b : a = ui.draft["entry"] /\ b = Semantics!Nil
    OBVIOUS
  <2>2. \/ ui' = [ui EXCEPT !.busy = TRUE] \/ ui' = [ui EXCEPT !.typed = TRUE]
        \/ ui' = [ui EXCEPT !.typed = FALSE] \/ ui' = [ui EXCEPT !.editing = a]
        \/ ui' = [ui EXCEPT !.editing = b] \/ ui' = [ui EXCEPT !.saving = TRUE]
    BY <2>1 DEF Semantics!RetryLoading, Semantics!TypeOverview, Semantics!RevertOverview,
       Semantics!SaveOverview, Semantics!Refresh, Semantics!RunTrial, Semantics!Export,
       Semantics!Act, Semantics!EditEntry, Semantics!CloseEditor, Semantics!SaveEntry,
       Semantics!ConfirmDialog
  <2> QED
    BY <2>2
<1>4. /\ SemanticScreen \subseteq DOMAIN ui' /\ ui'.revision = ui.revision
      /\ ui'.dialog = ui.dialog /\ ui'.working = ui.working /\ ui'.sel = ui.sel
      /\ ui'.seen = ui.seen
  BY <1>3 DEF SemanticInv, SemanticScreen
<1> QED
  BY <1>2, <1>4, SemanticStays

\* A dialog that is opened asks for what it shows; one that is closed asks for nothing more.
LEMMA SemanticOpens ==
  ASSUME SemanticInv, NEW d \in Semantics!Dialogs \ {""}, Semantics!OpenDialog(d)
  PROVE  SemanticInv'
<1>0. SemanticScreen \subseteq DOMAIN ui /\ ui.dialog = ""
  BY DEF SemanticInv, Semantics!OpenDialog
<1>1. \A c \in requests : /\ SemanticCall \subseteq DOMAIN c /\ ~SemanticWaits(c)
                          /\ c.op \notin {"impact", "visibility"}
  BY <1>0 DEF SemanticInv, SemanticAsked, SemanticWaits
<1>2. PICK w : w = (d = "structure") /\ w \in BOOLEAN
  OBVIOUS
<1>3. ui' = [ui EXCEPT !.dialog = d, !.working = w, !.seen = Semantics!Nil, !.sel = 1]
  BY <1>2 DEF Semantics!OpenDialog
<1>4. /\ SemanticScreen \subseteq DOMAIN ui' /\ ui'.dialog = d /\ ui'.working = w
      /\ ui'.seen = Semantics!Nil /\ ui'.sel = 1 /\ ui'.revision = ui.revision
  BY <1>0, <1>3 DEF SemanticScreen
<1>5. Semantics!AnswersMatchTheScreen'
  BY <1>4 DEF Semantics!AnswersMatchTheScreen
<1>6. CASE UNCHANGED requests
  BY <1>1, <1>4, <1>5, <1>6 DEF SemanticInv, SemanticAsked, SemanticWaits
<1>7. CASE d = "review" \/ d = "structure"
  <2>1. PICK op, u, draft : /\ op = Semantics!FirstRead(d) /\ op # "none" /\ u = ui'
                            /\ Semantics!Ask(op, u, draft)
    BY <1>7 DEF Semantics!OpenDialog, Semantics!FirstRead
  <2>2. /\ d = "review" => op = "impact"
        /\ d = "structure" => op = "objects"
    BY <2>1 DEF Semantics!FirstRead
  <2>3. PICK r : /\ requests' = requests \union {r}
                 /\ SemanticCall \subseteq DOMAIN r /\ r.op = op
                 /\ op = "impact" => r.revision = ui'.revision
                 /\ op = "objects" => r.sel = ui'.sel
    BY <2>1, SemanticAsksNext
  <2>4. SemanticAsked(r, ui')
    BY <1>2, <1>4, <1>7, <2>2, <2>3 DEF SemanticAsked, SemanticWaits, SemanticHistory
  <2>5. \A c \in requests : SemanticAsked(c, ui')
    BY <1>1 DEF SemanticAsked, SemanticWaits
  <2> QED
    BY <1>1, <1>4, <1>5, <2>3, <2>4, <2>5 DEF SemanticInv
<1> QED
  BY <1>6, <1>7 DEF Semantics!OpenDialog, Semantics!FirstRead

LEMMA SemanticCloses ==
  ASSUME SemanticInv, Semantics!CloseDialog \/ Semantics!RepairIssue
  PROVE  SemanticInv'
<1>0. SemanticScreen \subseteq DOMAIN ui
  BY DEF SemanticInv
<1>1. /\ \A c \in requests' : /\ c \in requests
                              /\ c.op \notin {"impact", "objects", "preview", "visibility"}
      /\ ui'.dialog = "" /\ SemanticScreen \subseteq DOMAIN ui'
  <2>1. requests' = Semantics!Without(Semantics!DialogReads)
    BY DEF Semantics!CloseDialog, Semantics!RepairIssue
  <2>2. PICK u, n, e :
          /\ u = [ui EXCEPT !.dialog = "", !.working = FALSE, !.seen = Semantics!Nil, !.sel = 1,
                            !.compared = n]
          /\ ui' = u \/ ui' = [u EXCEPT !.editing = e]
    <3>1. PICK u, n, e :
            /\ n = Semantics!Untouched /\ u = Semantics!Closed(ui) /\ e = ui.draft["entry"]
      OBVIOUS
    <3>2. u = [ui EXCEPT !.dialog = "", !.working = FALSE, !.seen = Semantics!Nil, !.sel = 1,
                         !.compared = n]
      BY <3>1 DEF Semantics!Closed
    <3>3. ui' = u \/ ui' = [u EXCEPT !.editing = e]
      BY <3>1 DEF Semantics!CloseDialog, Semantics!RepairIssue
    <3> QED
      BY <3>2, <3>3
  <2>3. SemanticScreen \subseteq DOMAIN u /\ u.dialog = ""
    BY <1>0, <2>2 DEF SemanticScreen
  <2>4. ui'.dialog = "" /\ SemanticScreen \subseteq DOMAIN ui'
    BY <2>2, <2>3 DEF SemanticScreen
  <2> QED
    BY <2>1, <2>4 DEF Semantics!Without, Semantics!DialogReads
<1>2. \A c \in requests' : ~SemanticWaits(c)
  <2>1. ASSUME NEW c \in requests', SemanticWaits(c)
        PROVE  FALSE
    <3>1. /\ c \in requests /\ SemanticAsked(c, ui)
          /\ c.op \in SemanticHistory \union {"structure"}
      BY <1>1, <2>1 DEF SemanticInv, SemanticWaits
    <3>2. CASE c.op = "structure"
      <4>1. Semantics!InFlight("structure") /\ ui.dialog = "structure"
        BY <2>1, <3>1, <3>2 DEF SemanticAsked, Semantics!InFlight
      <4> QED
        BY <4>1 DEF Semantics!CloseDialog, Semantics!RepairIssue
    <3>3. CASE c.op \in SemanticHistory
      <4>1. ui.working = TRUE /\ ui.dialog = "history"
        BY <2>1, <3>1, <3>3 DEF SemanticAsked
      <4> QED
        BY <4>1 DEF Semantics!CloseDialog, Semantics!RepairIssue
    <3> QED
      BY <3>1, <3>2, <3>3
  <2> QED
    BY <2>1
<1>3. \A c \in requests' : SemanticAsked(c, ui')
  BY <1>1, <1>2 DEF SemanticInv, SemanticAsked
<1> QED
  BY <1>1, <1>2, <1>3 DEF SemanticInv, Semantics!AnswersMatchTheScreen

\* A question of a dialog that asks nothing else.
LEMMA SemanticFollows ==
  ASSUME SemanticInv, SemanticScreen \subseteq DOMAIN ui', ui.working # TRUE,
         ui'.revision = ui.revision, ui'.dialog = ui.dialog,
         \A c \in requests : c.op = "impact" \/ SemanticAsked(c, ui'),
         NEW r, requests' = requests \union {r}, SemanticAsked(r, ui'),
         Semantics!AnswersMatchTheScreen'
  PROVE  SemanticInv'
<1>1. \A c \in requests : ~SemanticWaits(c)
  BY DEF SemanticInv, SemanticAsked
<1>2. \A c \in requests : SemanticAsked(c, ui')
  <2>1. ASSUME NEW c \in requests, c.op = "impact"
        PROVE  SemanticAsked(c, ui')
    BY <1>1, <2>1 DEF SemanticInv, SemanticAsked
  <2> QED
    BY <2>1
<1> QED
  BY <1>1, <1>2 DEF SemanticInv

\* The steps of the review: what it asks for, no dialog waits for.
LEMMA SemanticReviews ==
  ASSUME SemanticInv,
         Semantics!PublishReviewed \/ Semantics!TrialFromReview \/ Semantics!ReloadReview
  PROVE  SemanticInv'
<1>1. PICK op \in {"publish", "check", "refresh"} : \E u, draft : Semantics!Ask(op, u, draft)
  BY DEF Semantics!PublishReviewed, Semantics!TrialFromReview, Semantics!ReloadReview
<1>2. PICK r : /\ requests' = requests \union {r}
               /\ SemanticCall \subseteq DOMAIN r /\ r.op = op
  BY <1>1, SemanticAsks
<1>3. /\ ui.dialog = "review" /\ ~ui.working /\ SemanticScreen \subseteq DOMAIN ui
      /\ ui' = [ui EXCEPT !.working = TRUE]
  BY DEF Semantics!PublishReviewed, Semantics!TrialFromReview, Semantics!ReloadReview,
     SemanticInv
<1>4. /\ SemanticScreen \subseteq DOMAIN ui' /\ ui'.revision = ui.revision
      /\ ui'.dialog = ui.dialog /\ ui'.sel = ui.sel /\ ui'.seen = ui.seen
      /\ ui'.working = TRUE
  BY <1>3 DEF SemanticScreen
<1>5. SemanticAsked(r, ui') /\ \A c \in requests : SemanticAsked(c, ui')
  BY <1>2, <1>3, <1>4 DEF SemanticInv, SemanticAsked, SemanticWaits, SemanticHistory
<1>6. Semantics!AnswersMatchTheScreen'
  BY <1>3, <1>4 DEF SemanticInv, Semantics!AnswersMatchTheScreen
<1> QED
  BY <1>2, <1>3, <1>4, <1>5, <1>6, SemanticFollows

\* The steps of the history.
LEMMA SemanticCompares ==
  ASSUME SemanticInv,
         Semantics!InspectVersion \/ Semantics!RestoreVersion \/ Semantics!DeleteVersion
  PROVE  SemanticInv'
<1>1. PICK op \in SemanticHistory : \E u, draft : Semantics!Ask(op, u, draft)
  BY DEF Semantics!InspectVersion, Semantics!RestoreVersion, Semantics!DeleteVersion,
     SemanticHistory
<1>2. PICK r : /\ requests' = requests \union {r}
               /\ SemanticCall \subseteq DOMAIN r /\ r.op = op
  BY <1>1, SemanticAsks
<1>3. PICK n : /\ ui.dialog = "history" /\ ~ui.working /\ SemanticScreen \subseteq DOMAIN ui
               /\ n = Semantics!Nil
               /\ \/ ui' = [ui EXCEPT !.working = TRUE]
                  \/ ui' = [ui EXCEPT !.working = TRUE, !.seen = n]
  BY DEF Semantics!InspectVersion, Semantics!RestoreVersion, Semantics!DeleteVersion,
     SemanticInv
<1>4. /\ SemanticScreen \subseteq DOMAIN ui' /\ ui'.revision = ui.revision
      /\ ui'.dialog = ui.dialog /\ ui'.sel = ui.sel /\ ui'.working = TRUE
  BY <1>3 DEF SemanticScreen
<1>5. SemanticAsked(r, ui') /\ \A c \in requests : SemanticAsked(c, ui')
  BY <1>2, <1>3, <1>4 DEF SemanticInv, SemanticAsked, SemanticWaits, SemanticHistory
<1>6. Semantics!AnswersMatchTheScreen'
  BY <1>3, <1>4 DEF Semantics!AnswersMatchTheScreen
<1> QED
  BY <1>2, <1>3, <1>4, <1>5, <1>6, SemanticFollows

LEMMA SemanticImports ==
  ASSUME SemanticInv, Semantics!ImportObjects
  PROVE  SemanticInv'
<1>1. PICK op : op = "structure"
  OBVIOUS
<1>2. PICK r : /\ requests' = requests \union {r}
               /\ SemanticCall \subseteq DOMAIN r /\ r.op = "structure"
  <2>1. \E u, draft : Semantics!Ask(op, u, draft)
    BY <1>1 DEF Semantics!ImportObjects
  <2> QED
    BY <1>1, <2>1, SemanticAsks
<1>3. /\ ui.dialog = "structure" /\ ~ui.working /\ SemanticScreen \subseteq DOMAIN ui
      /\ ui' = [ui EXCEPT !.working = TRUE]
  BY DEF Semantics!ImportObjects, SemanticInv
<1>4. /\ SemanticScreen \subseteq DOMAIN ui' /\ ui'.revision = ui.revision
      /\ ui'.dialog = ui.dialog /\ ui'.sel = ui.sel /\ ui'.working = TRUE
      /\ ui'.seen = ui.seen
  BY <1>3 DEF SemanticScreen
<1>5. SemanticAsked(r, ui') /\ \A c \in requests : SemanticAsked(c, ui')
  BY <1>2, <1>3, <1>4 DEF SemanticInv, SemanticAsked, SemanticWaits, SemanticHistory
<1>6. Semantics!AnswersMatchTheScreen'
  BY <1>3, <1>4 DEF SemanticInv, Semantics!AnswersMatchTheScreen
<1> QED
  BY <1>2, <1>3, <1>4, <1>5, <1>6, SemanticFollows

\* The namespace, the parameters and the Agent a dialog asks about.
LEMMA SemanticChooses ==
  ASSUME SemanticInv, Semantics!ChooseNamespace
  PROVE  SemanticInv'
<1>1. PICK s, n : /\ n = Semantics!Nil
                  /\ ui' = [ui EXCEPT !.sel = s, !.seen = n, !.working = TRUE]
  BY DEF Semantics!ChooseNamespace
<1>2. /\ ui.dialog = "structure" /\ ~ui.working /\ SemanticScreen \subseteq DOMAIN ui
  BY DEF Semantics!ChooseNamespace, SemanticInv
<1>3. /\ SemanticScreen \subseteq DOMAIN ui' /\ ui'.revision = ui.revision
      /\ ui'.dialog = ui.dialog /\ ui'.sel = s /\ ui'.working = TRUE
      /\ ui'.seen = Semantics!Nil
  BY <1>1, <1>2 DEF SemanticScreen
<1>4. PICK r : /\ requests' = requests \union {r}
               /\ SemanticCall \subseteq DOMAIN r /\ r.op = "objects" /\ r.sel = ui'.sel
  <2>1. PICK op, u : op = "objects" /\ u = ui'
    OBVIOUS
  <2>2. \E draft : Semantics!Ask(op, u, draft)
    BY <2>1 DEF Semantics!ChooseNamespace
  <2>3. \E r : /\ requests' = requests \union {r}
               /\ SemanticCall \subseteq DOMAIN r /\ r.op = op
               /\ op \in {"objects", "preview", "visibility"} => r.sel = u.sel
    BY <2>2, SemanticAsks
  <2> QED
    BY <2>1, <2>3
<1>5. SemanticAsked(r, ui') /\ \A c \in requests : SemanticAsked(c, ui')
  BY <1>2, <1>3, <1>4 DEF SemanticInv, SemanticAsked, SemanticWaits, SemanticHistory
<1>6. Semantics!AnswersMatchTheScreen'
  BY <1>2, <1>3 DEF Semantics!AnswersMatchTheScreen
<1> QED
  BY <1>2, <1>3, <1>4, <1>5, <1>6, SemanticFollows

LEMMA SemanticPreviews ==
  ASSUME SemanticInv, Semantics!RunPreview \/ Semantics!SearchVisible
  PROVE  SemanticInv'
<1>1. PICK op : /\ op \in {"preview", "visibility"} /\ ui.dialog = op
                /\ \E draft : Semantics!Ask(op, ui, draft)
  BY DEF Semantics!RunPreview, Semantics!SearchVisible
<1>2. PICK r : /\ requests' = requests \union {r}
               /\ SemanticCall \subseteq DOMAIN r /\ r.op = op /\ r.sel = ui.sel
  BY <1>1, SemanticAsks
<1>3. PICK n : /\ ~ui.working /\ SemanticScreen \subseteq DOMAIN ui
               /\ n = Semantics!Nil
               /\ \/ ui' = [ui EXCEPT !.working = TRUE]
                  \/ ui' = [ui EXCEPT !.working = TRUE, !.seen = n]
  BY DEF Semantics!RunPreview, Semantics!SearchVisible, SemanticInv
<1>4. /\ SemanticScreen \subseteq DOMAIN ui' /\ ui'.revision = ui.revision
      /\ ui'.dialog = ui.dialog /\ ui'.sel = ui.sel /\ ui'.working = TRUE
      /\ ui'.seen = ui.seen \/ ui'.seen = n
  BY <1>3 DEF SemanticScreen
<1>5. SemanticAsked(r, ui') /\ \A c \in requests : SemanticAsked(c, ui')
  BY <1>1, <1>2, <1>3, <1>4 DEF SemanticInv, SemanticAsked, SemanticWaits, SemanticHistory
<1>6. Semantics!AnswersMatchTheScreen'
  BY <1>1, <1>3, <1>4 DEF SemanticInv, Semantics!AnswersMatchTheScreen
<1> QED
  BY <1>2, <1>3, <1>4, <1>5, <1>6, SemanticFollows

LEMMA SemanticCancels ==
  ASSUME SemanticInv, Semantics!CancelPreview
  PROVE  SemanticInv'
<1>1. /\ ui.dialog = "preview" /\ SemanticScreen \subseteq DOMAIN ui
      /\ ui' = [ui EXCEPT !.working = FALSE]
      /\ \A c \in requests' : c \in requests /\ c.op # "preview"
  BY DEF Semantics!CancelPreview, Semantics!Without, SemanticInv
<1>2. /\ SemanticScreen \subseteq DOMAIN ui' /\ ui'.revision = ui.revision
      /\ ui'.dialog = ui.dialog /\ ui'.sel = ui.sel /\ ui'.seen = ui.seen
  BY <1>1 DEF SemanticScreen
<1>3. \A c \in requests' : SemanticAsked(c, ui') /\ ~SemanticWaits(c)
  <2>1. ASSUME NEW c \in requests'
        PROVE  SemanticAsked(c, ui) /\ ~SemanticWaits(c)
    BY <1>1, <2>1 DEF SemanticInv, SemanticAsked, SemanticWaits
  <2> QED
    BY <1>2, <2>1 DEF SemanticAsked
<1>4. Semantics!AnswersMatchTheScreen'
  BY <1>2 DEF SemanticInv, Semantics!AnswersMatchTheScreen
<1> QED
  BY <1>2, <1>3, <1>4 DEF SemanticInv

LEMMA SemanticPicks ==
  ASSUME SemanticInv, Semantics!ChooseAgent
  PROVE  SemanticInv'
<1>1. PICK s, n : n = Semantics!Nil /\ ui' = [ui EXCEPT !.sel = s, !.seen = n]
  BY DEF Semantics!ChooseAgent
<1>2. /\ ui.dialog = "visibility" \/ (ui.dialog = "preview" /\ ~ui.working)
      /\ requests' = requests /\ SemanticScreen \subseteq DOMAIN ui
  BY DEF Semantics!ChooseAgent, SemanticInv
<1>3. /\ SemanticScreen \subseteq DOMAIN ui' /\ ui'.revision = ui.revision
      /\ ui'.dialog = ui.dialog /\ ui'.seen = Semantics!Nil /\ ui'.working = ui.working
  BY <1>1, <1>2 DEF SemanticScreen
<1>4. \A c \in requests : c.op \notin {"objects", "preview"}
  BY <1>2 DEF SemanticInv, SemanticAsked, SemanticWaits
<1>5. \A c \in requests : SemanticAsked(c, ui')
  BY <1>3, <1>4 DEF SemanticInv, SemanticAsked
<1>6. Semantics!AnswersMatchTheScreen'
  BY <1>2, <1>3 DEF Semantics!AnswersMatchTheScreen
<1> QED
  BY <1>2, <1>3, <1>5, <1>6 DEF SemanticInv

\* The server changes nothing of what a request asks.
LEMMA SemanticServes ==
  ASSUME SemanticInv, Semantics!Serve
  PROVE  SemanticInv'
<1>1. PICK c \in requests : \E state, q :
        /\ q = [c EXCEPT !.stage = "ok", !.state = state]
        /\ requests' = (requests \ {c}) \union {q}
  <2>1. PICK c \in requests : Semantics!Commit(c) \/ Semantics!Read(c)
    BY DEF Semantics!Serve
  <2>2. \E state, q : /\ q = [c EXCEPT !.stage = "ok", !.state = state]
                      /\ requests' = (requests \ {c}) \union {q}
    <3>1. CASE Semantics!Read(c)
      BY <3>1 DEF Semantics!Read
    <3>2. CASE Semantics!Commit(c)
      BY <3>2 DEF Semantics!Commit
    <3> QED
      BY <2>1, <3>1, <3>2
  <2> QED
    BY <2>2
<1>2. PICK q, state : /\ q = [c EXCEPT !.stage = "ok", !.state = state]
                      /\ requests' = (requests \ {c}) \union {q}
  BY <1>1
<1>3. /\ SemanticAsked(c, ui) /\ ui' = ui
      /\ \A d \in requests : SemanticWaits(c) /\ SemanticWaits(d) => c = d
  BY DEF SemanticInv, Semantics!Serve
<1>4. /\ SemanticCall \subseteq DOMAIN q /\ q.op = c.op /\ q.revision = c.revision
      /\ q.sel = c.sel
  BY <1>2, <1>3 DEF SemanticAsked, SemanticCall
<1>5. SemanticAsked(q, ui) /\ (SemanticWaits(q) => SemanticWaits(c))
  BY <1>3, <1>4 DEF SemanticAsked, SemanticWaits
<1>6. \A d \in requests' : SemanticAsked(d, ui')
  BY <1>2, <1>3, <1>5 DEF SemanticInv
<1>7. \A d, e \in requests' : SemanticWaits(d) /\ SemanticWaits(e) => d = e
  BY <1>2, <1>3, <1>5 DEF SemanticInv
<1>8. SemanticScreen \subseteq DOMAIN ui' /\ Semantics!AnswersMatchTheScreen'
  BY <1>3 DEF SemanticInv, Semantics!AnswersMatchTheScreen
<1> QED
  BY <1>6, <1>7, <1>8 DEF SemanticInv

\* An answer: the dialog that waited for it waits no longer.
LEMMA SemanticHears ==
  ASSUME SemanticInv, NEW asked \in requests,
         SemanticScreen \subseteq DOMAIN ui', ui'.revision = ui.revision,
         ui'.dialog = ui.dialog, ui'.sel = ui.sel,
         \/ SemanticWaits(asked)
         \/ ui.working = TRUE => ui'.working = TRUE
         \/ ui.dialog \notin {"history", "structure", "preview"},
         \A d \in requests' : \/ d \in requests /\ d # asked
                              \/ /\ SemanticCall \subseteq DOMAIN d
                                 /\ d.op \notin {"impact", "visibility"} /\ ~SemanticWaits(d),
         Semantics!AnswersMatchTheScreen'
  PROVE  SemanticInv'
<1>1. ASSUME NEW d \in requests'
      PROVE  SemanticAsked(d, ui')
  <2>1. CASE ~(d \in requests /\ d # asked)
    BY <2>1 DEF SemanticAsked, SemanticWaits
  <2>2. CASE d \in requests /\ d # asked
    <3>1. SemanticAsked(d, ui) /\ ~(SemanticWaits(d) /\ SemanticWaits(asked))
      BY <2>2 DEF SemanticInv
    <3>2. SemanticWaits(d) => ui.dialog \in {"history", "structure", "preview"}
      BY <3>1 DEF SemanticAsked, SemanticWaits
    <3> QED
      BY <3>1, <3>2 DEF SemanticAsked
  <2> QED
    BY <2>1, <2>2
<1>2. \A c, d \in requests' : SemanticWaits(c) /\ SemanticWaits(d) => c = d
  BY DEF SemanticInv
<1> QED
  BY <1>1, <1>2 DEF SemanticInv

\* Clearing a dialog's busy flag.
LEMMA SemanticIdles ==
  ASSUME SemanticInv, NEW c, SemanticCall \subseteq DOMAIN c,
         c.op \in SemanticHistory \union {"structure", "publish", "refresh", "published"}
  PROVE  \E u, w : /\ u = Semantics!Idle(c) /\ u = [ui EXCEPT !.working = w]
                   /\ SemanticScreen \subseteq DOMAIN u /\ u.revision = ui.revision
                   /\ u.dialog = ui.dialog /\ u.sel = ui.sel /\ u.seen = ui.seen
                   /\ \/ SemanticWaits(c)
                      \/ ui.working = TRUE => u.working = TRUE
                      \/ ui.dialog = "review"
<1>1. PICK u, w : /\ w = (ui.working /\ (c.sel = Semantics!Gone \/ ui.dialog # Semantics!Panel(c.op)))
                  /\ u = Semantics!Idle(c)
  OBVIOUS
<1>2. u = [ui EXCEPT !.working = w]
  BY <1>1 DEF Semantics!Idle
<1>3. /\ SemanticScreen \subseteq DOMAIN u /\ u.revision = ui.revision
      /\ u.dialog = ui.dialog /\ u.sel = ui.sel /\ u.seen = ui.seen /\ u.working = w
  BY <1>2 DEF SemanticInv, SemanticScreen
<1>4. \/ SemanticWaits(c)
      \/ c.sel = Semantics!Gone
      \/ c.op \notin SemanticHistory \union {"structure"} /\ Semantics!Panel(c.op) = "review"
  BY SemanticPanels DEF SemanticWaits
<1>5. c.sel = Semantics!Gone => (ui.working = TRUE => w = TRUE)
  BY <1>1
<1>6. Semantics!Panel(c.op) = "review" /\ ui.dialog # "review" => (ui.working = TRUE => w = TRUE)
  BY <1>1
<1> QED
  BY <1>1, <1>2, <1>3, <1>4, <1>5, <1>6

\* What is heard of a request is of what it asked.
LEMMA SemanticHeard ==
  ASSUME SemanticInv, NEW asked \in requests, NEW c \in Semantics!Heard(asked)
  PROVE  /\ SemanticCall \subseteq DOMAIN c /\ c.op = asked.op /\ c.revision = asked.revision
         /\ c.sel = asked.sel /\ SemanticAsked(c, ui)
         /\ SemanticWaits(c) = SemanticWaits(asked)
<1>1. SemanticAsked(asked, ui)
  BY DEF SemanticInv
<1>2. c = asked \/ c = [asked EXCEPT !.stage = "refused"]
  BY DEF Semantics!Heard
<1>3. /\ SemanticCall \subseteq DOMAIN c /\ c.op = asked.op /\ c.revision = asked.revision
      /\ c.sel = asked.sel
  BY <1>1, <1>2 DEF SemanticAsked, SemanticCall
<1>4. SemanticWaits(c) <=> SemanticWaits(asked)
  BY <1>3 DEF SemanticWaits
<1>5. SemanticAsked(c, ui)
  BY <1>1, <1>3, <1>4 DEF SemanticAsked
<1>6. SemanticWaits(c) = SemanticWaits(asked)
  BY <1>4 DEF SemanticWaits
<1> QED
  BY <1>3, <1>5, <1>6

\* The requests that are left when one of them was answered.
SemanticOthers(asked) == requests \ {asked}

LEMMA SemanticActionEnds ==
  ASSUME SemanticInv, NEW asked \in requests, NEW c \in Semantics!Heard(asked),
         Semantics!ActionEnds(c, SemanticOthers(asked))
  PROVE  SemanticInv'
<1>1. PICK b, u : /\ b = (IF c.op = "load" THEN ui.busy ELSE FALSE)
                  /\ u = [ui EXCEPT !.busy = b]
  OBVIOUS
<1>2. /\ SemanticScreen \subseteq DOMAIN u /\ u.revision = ui.revision
      /\ u.dialog = ui.dialog /\ u.sel = ui.sel /\ u.seen = ui.seen
      /\ u.working = ui.working
  BY <1>1 DEF SemanticInv, SemanticScreen
<1>3. CASE Semantics!Accept(u, c.state, SemanticOthers(asked))
  <2>1. PICK state, others : /\ state = c.state /\ others = SemanticOthers(asked)
                             /\ Semantics!Accept(u, state, others)
    BY <1>3
  <2>2. \A d \in others : d \in requests
    BY <2>1 DEF SemanticOthers
  <2> QED
    BY <1>2, <2>1, <2>2, SemanticAccepts
<1>4. CASE ui' = u /\ requests' = SemanticOthers(asked)
  <2>1. Semantics!AnswersMatchTheScreen'
    BY <1>2, <1>4 DEF SemanticInv, Semantics!AnswersMatchTheScreen
  <2> QED
    BY <1>2, <1>4, <2>1, SemanticHears DEF SemanticOthers
<1> QED
  BY <1>1, <1>3, <1>4 DEF Semantics!ActionEnds

\* A request that reads the state again, for the dialog of the one that ended.
LEMMA SemanticRereads ==
  ASSUME SemanticInv, NEW asked \in requests, NEW c, UNCHANGED ui,
         NEW op \in {"reload", "refresh", "published"},
         requests' = SemanticOthers(asked) \union {Semantics!Reread(c, op)}
  PROVE  SemanticInv'
<1>1. PICK r, q, s, draft : /\ r = Semantics!Request(op, ui, draft) /\ s = c.sel
                            /\ q = [r EXCEPT !.sel = s]
                            /\ q = Semantics!Reread(c, op)
  BY DEF Semantics!Reread
<1>2. SemanticCall \subseteq DOMAIN r /\ r.op = op
  BY <1>1, SemanticRequest
<1>3. SemanticCall \subseteq DOMAIN q /\ q.op = op
  BY <1>1, <1>2 DEF SemanticCall
<1>4. q.op \notin {"impact", "visibility"} /\ ~SemanticWaits(q)
  BY <1>3 DEF SemanticWaits, SemanticHistory
<1>5. Semantics!AnswersMatchTheScreen'
  BY DEF SemanticInv, Semantics!AnswersMatchTheScreen
<1>6. /\ SemanticScreen \subseteq DOMAIN ui' /\ ui'.revision = ui.revision
      /\ ui'.dialog = ui.dialog /\ ui'.sel = ui.sel /\ ui'.working = ui.working
  BY DEF SemanticInv
<1>7. \A d \in requests' : \/ d \in requests /\ d # asked
                           \/ /\ SemanticCall \subseteq DOMAIN d
                              /\ d.op \notin {"impact", "visibility"} /\ ~SemanticWaits(d)
  <2>1. requests' = SemanticOthers(asked) \union {q}
    BY <1>1
  <2> QED
    BY <1>3, <1>4, <2>1 DEF SemanticOthers
<1> QED
  BY <1>5, <1>6, <1>7, SemanticHears

LEMMA SemanticEntrySaved ==
  ASSUME SemanticInv, NEW asked \in requests, NEW c \in Semantics!Heard(asked),
         Semantics!EntrySaved(c, SemanticOthers(asked))
  PROVE  SemanticInv'
<1>1. PICK n, u, v : /\ n = Semantics!Nil
                     /\ u = [ui EXCEPT !.editing = n, !.saving = FALSE]
                     /\ v = [ui EXCEPT !.saving = FALSE]
  OBVIOUS
<1>2. /\ SemanticScreen \subseteq DOMAIN u /\ u.revision = ui.revision
      /\ u.dialog = ui.dialog /\ u.sel = ui.sel /\ u.seen = ui.seen
      /\ u.working = ui.working
      /\ SemanticScreen \subseteq DOMAIN v /\ v.revision = ui.revision
      /\ v.dialog = ui.dialog /\ v.sel = ui.sel /\ v.seen = ui.seen
      /\ v.working = ui.working
  BY <1>1 DEF SemanticInv, SemanticScreen
<1>3. CASE Semantics!Accept(u, c.state, SemanticOthers(asked))
  <2>1. PICK state, others : /\ state = c.state /\ others = SemanticOthers(asked)
                             /\ Semantics!Accept(u, state, others)
    BY <1>3
  <2>2. \A d \in others : d \in requests
    BY <2>1 DEF SemanticOthers
  <2> QED
    BY <1>2, <2>1, <2>2, SemanticAccepts
<1>4. CASE ui' = v /\ requests' = SemanticOthers(asked)
  <2>1. Semantics!AnswersMatchTheScreen'
    BY <1>2, <1>4 DEF SemanticInv, Semantics!AnswersMatchTheScreen
  <2> QED
    BY <1>2, <1>4, <2>1, SemanticHears DEF SemanticOthers
<1> QED
  BY <1>1, <1>3, <1>4 DEF Semantics!EntrySaved

\* Nothing is left of a dialog that closes on a new state.
LEMMA SemanticReplaced ==
  ASSUME SemanticInv, NEW asked \in requests, NEW u, SemanticScreen \subseteq DOMAIN u,
         NEW state, Semantics!Accept(Semantics!Closed(u), state, SemanticOthers(asked))
  PROVE  SemanticInv'
<1>1. PICK v, n, k, others :
        /\ v = Semantics!Closed(u) /\ n = Semantics!Nil /\ k = Semantics!Untouched
        /\ others = SemanticOthers(asked) /\ Semantics!Accept(v, state, others)
  OBVIOUS
<1>2. v = [u EXCEPT !.dialog = "", !.working = FALSE, !.seen = n, !.sel = 1, !.compared = k]
  BY <1>1 DEF Semantics!Closed
<1>3. SemanticScreen \subseteq DOMAIN v /\ v.dialog = ""
  BY <1>2 DEF SemanticScreen
<1>4. \A d \in others : d \in requests
  BY <1>1 DEF SemanticOthers
<1> QED
  BY <1>1, <1>3, <1>4, SemanticAccepts

\* A refusal, an error or no answer: the dialog stays and is idle.
LEMMA SemanticRefused ==
  ASSUME SemanticInv, NEW asked \in requests, NEW c \in Semantics!Heard(asked),
         c.op \in SemanticHistory \union {"structure", "publish", "refresh", "published"},
         requests' = SemanticOthers(asked), NEW u, u = Semantics!Idle(c),
         ui' = u \/ ui' = [u EXCEPT !.seen = Semantics!Nil]
  PROVE  SemanticInv'
<1>1. SemanticCall \subseteq DOMAIN c /\ SemanticWaits(c) = SemanticWaits(asked)
  BY SemanticHeard
<1>2. PICK v, w : /\ v = Semantics!Idle(c) /\ v = [ui EXCEPT !.working = w]
                  /\ SemanticScreen \subseteq DOMAIN v /\ v.revision = ui.revision
                  /\ v.dialog = ui.dialog /\ v.sel = ui.sel /\ v.seen = ui.seen
                  /\ \/ SemanticWaits(c)
                     \/ ui.working = TRUE => v.working = TRUE
                     \/ ui.dialog = "review"
  BY <1>1, SemanticIdles
<1>3. PICK n : n = Semantics!Nil /\ (ui' = v \/ ui' = [v EXCEPT !.seen = n])
  BY <1>2
<1>4. /\ SemanticScreen \subseteq DOMAIN ui' /\ ui'.revision = ui.revision
      /\ ui'.dialog = ui.dialog /\ ui'.sel = ui.sel /\ ui'.working = v.working
      /\ ui'.seen = ui.seen \/ ui'.seen = n
  BY <1>2, <1>3 DEF SemanticScreen
<1>5. Semantics!AnswersMatchTheScreen'
  BY <1>3, <1>4 DEF SemanticInv, Semantics!AnswersMatchTheScreen
<1>6. \/ SemanticWaits(asked)
      \/ ui.working = TRUE => ui'.working = TRUE
      \/ ui.dialog \notin {"history", "structure", "preview"}
  BY <1>1, <1>2, <1>4
<1> QED
  BY <1>4, <1>5, <1>6, SemanticHears DEF SemanticOthers

LEMMA SemanticDialogEnds ==
  ASSUME SemanticInv, NEW asked \in requests, NEW c \in Semantics!Heard(asked),
         \/ Semantics!DialogConfirmed(c, SemanticOthers(asked))
         \/ Semantics!PublicationEnds(c, SemanticOthers(asked))
         \/ Semantics!ReviewRefreshed(c, SemanticOthers(asked))
  PROVE  SemanticInv'
<1>1. PICK state, u, b : /\ state = c.state /\ u = Semantics!Idle(c)
                         /\ b = [ui EXCEPT !.busy = FALSE]
  OBVIOUS
<1>2. /\ SemanticScreen \subseteq DOMAIN b /\ b.revision = ui.revision
      /\ b.dialog = ui.dialog /\ b.sel = ui.sel /\ b.seen = ui.seen
      /\ b.working = ui.working /\ SemanticScreen \subseteq DOMAIN ui
  BY <1>1 DEF SemanticInv, SemanticScreen
<1>3. c.op \in SemanticHistory \union {"structure", "publish", "refresh", "published"} =>
        /\ SemanticScreen \subseteq DOMAIN u /\ u.revision = ui.revision
        /\ u.dialog = ui.dialog /\ u.sel = ui.sel /\ u.seen = ui.seen
        /\ \/ SemanticWaits(c)
           \/ ui.working = TRUE => u.working = TRUE
           \/ ui.dialog = "review"
  <2>1. SemanticCall \subseteq DOMAIN c
    BY SemanticHeard
  <2>2. SUFFICES ASSUME c.op \in SemanticHistory \union {"structure", "publish", "refresh",
                                                       "published"}
                 PROVE  /\ SemanticScreen \subseteq DOMAIN u /\ u.revision = ui.revision
                        /\ u.dialog = ui.dialog /\ u.sel = ui.sel /\ u.seen = ui.seen
                        /\ \/ SemanticWaits(c)
                           \/ ui.working = TRUE => u.working = TRUE
                           \/ ui.dialog = "review"
    OBVIOUS
  <2>3. PICK v, w : /\ v = Semantics!Idle(c) /\ v = [ui EXCEPT !.working = w]
                    /\ SemanticScreen \subseteq DOMAIN v /\ v.revision = ui.revision
                    /\ v.dialog = ui.dialog /\ v.sel = ui.sel /\ v.seen = ui.seen
                    /\ \/ SemanticWaits(c)
                       \/ ui.working = TRUE => v.working = TRUE
                       \/ ui.dialog = "review"
    BY <2>1, <2>2, SemanticIdles
  <2>4. u = v
    BY <1>1, <2>3
  <2> QED
    BY <2>3, <2>4
<1>4. CASE Semantics!DialogConfirmed(c, SemanticOthers(asked))
  <2>1. CASE c.op \in {"restore", "structure"} /\ c.stage = "ok"
    <3>1. Semantics!Accept(Semantics!Closed(u), state, SemanticOthers(asked))
      BY <1>1, <1>4, <2>1 DEF Semantics!DialogConfirmed
    <3> QED
      BY <1>3, <2>1, <3>1, SemanticReplaced DEF SemanticHistory
  <2>2. CASE c.op \notin {"restore", "structure"} /\ c.stage = "ok"
    <3>1. Semantics!Accept(Semantics!Closed(b), state, SemanticOthers(asked))
      BY <1>1, <1>4, <2>2 DEF Semantics!DialogConfirmed
    <3> QED
      BY <1>2, <3>1, SemanticReplaced
  <2>3. CASE c.op \in {"restore", "structure"} /\ c.stage # "ok"
    <3>1. ui' = u /\ requests' = SemanticOthers(asked)
      BY <1>1, <1>4, <2>3 DEF Semantics!DialogConfirmed
    <3> QED
      BY <1>1, <2>3, <3>1, SemanticRefused DEF SemanticHistory
  <2>4. CASE c.op \notin {"restore", "structure"} /\ c.stage # "ok"
    <3>1. ui' = b /\ requests' = SemanticOthers(asked)
      BY <1>1, <1>4, <2>4 DEF Semantics!DialogConfirmed
    <3>2. Semantics!AnswersMatchTheScreen'
      BY <1>2, <3>1 DEF SemanticInv, Semantics!AnswersMatchTheScreen
    <3> QED
      BY <1>2, <3>1, <3>2, SemanticHears DEF SemanticOthers
  <2> QED
    BY <2>1, <2>2, <2>3, <2>4
<1>5. CASE Semantics!PublicationEnds(c, SemanticOthers(asked))
  <2>1. CASE c.stage = "ok"
    BY <1>5, <2>1, SemanticRereads DEF Semantics!PublicationEnds
  <2>2. CASE c.stage # "ok"
    <3>1. ui' = u /\ requests' = SemanticOthers(asked) /\ c.op = "publish"
      BY <1>1, <1>5, <2>2 DEF Semantics!PublicationEnds
    <3> QED
      BY <1>1, <3>1, SemanticRefused
  <2> QED
    BY <2>1, <2>2
<1>6. CASE Semantics!ReviewRefreshed(c, SemanticOthers(asked))
  <2>1. c.op \in {"refresh", "published"}
    BY <1>6 DEF Semantics!ReviewRefreshed
  <2>2. CASE c.op = "published" /\ c.stage = "ok"
    <3>1. Semantics!Accept(Semantics!Closed(ui), state, SemanticOthers(asked))
      BY <1>1, <1>6, <2>2 DEF Semantics!ReviewRefreshed
    <3>2. PICK v : v = ui /\ SemanticScreen \subseteq DOMAIN v
      BY <1>2
    <3> QED
      BY <3>1, <3>2, SemanticReplaced
  <2>3. CASE c.op = "refresh" /\ c.stage = "ok"
    <3>1. PICK others : /\ others = SemanticOthers(asked)
                        /\ Semantics!Accept(u, state, others)
      BY <1>1, <1>6, <2>3 DEF Semantics!ReviewRefreshed
    <3>2. \A d \in others : d \in requests
      BY <3>1 DEF SemanticOthers
    <3>3. ~SemanticWaits(c)
      BY <2>3 DEF SemanticWaits, SemanticHistory
    <3> QED
      BY <1>3, <2>3, <3>1, <3>2, <3>3, SemanticAccepts
  <2>4. CASE c.stage # "ok"
    <3>1. /\ requests' = SemanticOthers(asked)
          /\ ui' = u \/ ui' = [u EXCEPT !.seen = Semantics!Nil]
      BY <1>1, <1>6, <2>4 DEF Semantics!ReviewRefreshed
    <3> QED
      BY <1>1, <2>1, <3>1, SemanticRefused
  <2> QED
    BY <2>1, <2>2, <2>3, <2>4
<1> QED
  BY <1>4, <1>5, <1>6

\* The answers the dialogs show.
LEMMA SemanticShows ==
  ASSUME SemanticInv, NEW asked \in requests, NEW c \in Semantics!Heard(asked),
         \/ Semantics!ImpactArrives(c, SemanticOthers(asked))
         \/ Semantics!DetailArrives(c, SemanticOthers(asked))
         \/ Semantics!AnswerArrives(c, SemanticOthers(asked))
  PROVE  SemanticInv'
<1>0. /\ SemanticCall \subseteq DOMAIN c /\ SemanticAsked(c, ui)
      /\ SemanticWaits(c) = SemanticWaits(asked)
      /\ SemanticScreen \subseteq DOMAIN ui
  BY SemanticHeard DEF SemanticInv
<1>1. requests' = SemanticOthers(asked)
  BY DEF Semantics!ImpactArrives, Semantics!DetailArrives, Semantics!AnswerArrives
<1>2. CASE Semantics!ImpactArrives(c, SemanticOthers(asked))
  <2>1. PICK n : /\ n = c.revision \/ n = Semantics!Nil
                 /\ ui' = [ui EXCEPT !.seen = n]
    BY <1>2 DEF Semantics!ImpactArrives
  <2>2. /\ SemanticScreen \subseteq DOMAIN ui' /\ ui'.revision = ui.revision
        /\ ui'.dialog = ui.dialog /\ ui'.sel = ui.sel /\ ui'.seen = n
        /\ ui'.working = ui.working
    BY <1>0, <2>1 DEF SemanticScreen
  <2>3. ui.dialog = "review" /\ c.revision = ui.revision
    BY <1>0, <1>2 DEF SemanticAsked, Semantics!ImpactArrives
  <2>4. Semantics!AnswersMatchTheScreen'
    BY <2>1, <2>2, <2>3 DEF Semantics!AnswersMatchTheScreen
  <2> QED
    BY <1>1, <2>2, <2>4, SemanticHears DEF SemanticOthers
<1>3. CASE Semantics!DetailArrives(c, SemanticOthers(asked))
  <2>1. CASE c.sel = Semantics!Gone
    <3>1. ui' = ui
      BY <1>3, <2>1 DEF Semantics!DetailArrives
    <3>2. Semantics!AnswersMatchTheScreen'
      BY <3>1 DEF SemanticInv, Semantics!AnswersMatchTheScreen
    <3> QED
      BY <1>0, <1>1, <3>1, <3>2, SemanticHears DEF SemanticOthers
  <2>2. CASE c.sel # Semantics!Gone
    <3>1. SemanticWaits(asked) /\ ui.dialog = "history"
      BY <1>0, <1>3, <2>2 DEF SemanticAsked, SemanticWaits, SemanticHistory,
         Semantics!DetailArrives
    <3>2. PICK n, k : \/ ui' = [ui EXCEPT !.working = FALSE, !.seen = n, !.compared = k]
                      \/ ui' = [ui EXCEPT !.working = FALSE]
      BY <1>3, <2>2 DEF Semantics!DetailArrives
    <3>3. /\ SemanticScreen \subseteq DOMAIN ui' /\ ui'.revision = ui.revision
          /\ ui'.dialog = ui.dialog /\ ui'.sel = ui.sel
      BY <1>0, <3>2 DEF SemanticScreen
    <3>4. Semantics!AnswersMatchTheScreen'
      BY <3>1, <3>3 DEF Semantics!AnswersMatchTheScreen
    <3> QED
      BY <1>1, <3>1, <3>3, <3>4, SemanticHears DEF SemanticOthers
  <2> QED
    BY <2>1, <2>2
<1>4. CASE Semantics!AnswerArrives(c, SemanticOthers(asked))
  <2>1. PICK n : /\ n = c.sel \/ n = Semantics!Nil
                 /\ ui' = [ui EXCEPT !.working = FALSE, !.seen = n]
    BY <1>4 DEF Semantics!AnswerArrives
  <2>2. /\ SemanticScreen \subseteq DOMAIN ui' /\ ui'.revision = ui.revision
        /\ ui'.dialog = ui.dialog /\ ui'.sel = ui.sel /\ ui'.seen = n
    BY <1>0, <2>1 DEF SemanticScreen
  <2>3. \/ SemanticWaits(asked) /\ c.sel = ui.sel /\ ui.dialog # "review"
        \/ ui.dialog = "visibility"
    BY <1>0, <1>4 DEF SemanticAsked, SemanticWaits, SemanticHistory, Semantics!AnswerArrives
  <2>4. Semantics!AnswersMatchTheScreen'
    BY <2>1, <2>2, <2>3 DEF Semantics!AnswersMatchTheScreen
  <2> QED
    BY <1>1, <2>2, <2>3, <2>4, SemanticHears DEF SemanticOthers
<1> QED
  BY <1>2, <1>3, <1>4

LEMMA SemanticForgets ==
  ASSUME SemanticInv, NEW asked \in requests, NEW c \in Semantics!Heard(asked),
         Semantics!VersionDeleted(c, SemanticOthers(asked))
  PROVE  SemanticInv'
<1>1. PICK u, w : /\ u = Semantics!Idle(c) /\ u = [ui EXCEPT !.working = w]
                  /\ SemanticScreen \subseteq DOMAIN u
  <2>1. SemanticCall \subseteq DOMAIN c /\ c.op = "forget"
    BY SemanticHeard DEF Semantics!VersionDeleted
  <2> QED
    BY <2>1, SemanticIdles DEF SemanticHistory
<1>2. PICK n : /\ n = Semantics!Nil \/ n = u.seen
               /\ ui' = [u EXCEPT !.seen = n]
  BY <1>1 DEF Semantics!VersionDeleted
<1>3. ui' = u \/ ui' = [u EXCEPT !.seen = Semantics!Nil]
  <2>1. n = u.seen => ui' = u
    BY <1>1, <1>2 DEF SemanticScreen
  <2> QED
    BY <1>2, <2>1
<1> QED
  BY <1>1, <1>3, SemanticRefused DEF Semantics!VersionDeleted, SemanticHistory

LEMMA SemanticDelivers ==
  ASSUME SemanticInv, Semantics!Deliver
  PROVE  SemanticInv'
<1>0. PICK asked \in requests : \E c \in Semantics!Heard(asked) :
         LET others == requests \ {asked} IN
           \/ Semantics!ActionEnds(c, others) \/ Semantics!TrialEnds(c, others)
           \/ Semantics!EntrySaved(c, others) \/ Semantics!DialogConfirmed(c, others)
           \/ Semantics!PublicationEnds(c, others) \/ Semantics!ReviewRefreshed(c, others)
           \/ Semantics!ImpactArrives(c, others) \/ Semantics!DetailArrives(c, others)
           \/ Semantics!VersionDeleted(c, others) \/ Semantics!AnswerArrives(c, others)
  BY DEF Semantics!Deliver
<1>1. PICK c \in Semantics!Heard(asked) :
         LET others == requests \ {asked} IN
           \/ Semantics!ActionEnds(c, others) \/ Semantics!TrialEnds(c, others)
           \/ Semantics!EntrySaved(c, others) \/ Semantics!DialogConfirmed(c, others)
           \/ Semantics!PublicationEnds(c, others) \/ Semantics!ReviewRefreshed(c, others)
           \/ Semantics!ImpactArrives(c, others) \/ Semantics!DetailArrives(c, others)
           \/ Semantics!VersionDeleted(c, others) \/ Semantics!AnswerArrives(c, others)
  BY <1>0
<1>2. PICK others : others = SemanticOthers(asked)
  OBVIOUS
<1>3. \/ Semantics!ActionEnds(c, others) \/ Semantics!TrialEnds(c, others)
      \/ Semantics!EntrySaved(c, others) \/ Semantics!DialogConfirmed(c, others)
      \/ Semantics!PublicationEnds(c, others) \/ Semantics!ReviewRefreshed(c, others)
      \/ Semantics!ImpactArrives(c, others) \/ Semantics!DetailArrives(c, others)
      \/ Semantics!VersionDeleted(c, others) \/ Semantics!AnswerArrives(c, others)
  BY <1>1, <1>2 DEF SemanticOthers
<1>4. CASE Semantics!TrialEnds(c, others)
  <2>1. PICK op \in {"reload", "refresh"} :
          requests' = SemanticOthers(asked) \union {Semantics!Reread(c, op)}
    BY <1>2, <1>4 DEF Semantics!TrialEnds
  <2> QED
    BY <1>4, <2>1, SemanticRereads DEF Semantics!TrialEnds
<1> QED
  BY <1>2, <1>3, <1>4, SemanticActionEnds, SemanticEntrySaved, SemanticDialogEnds,
     SemanticShows, SemanticForgets

LEMMA SemanticKeeps ==
  ASSUME SemanticInv, Semantics!Next \/ UNCHANGED <<ui, requests>>
  PROVE  SemanticInv'
<1>1. CASE UNCHANGED <<ui, requests>>
  BY <1>1 DEF SemanticInv, SemanticAsked, Semantics!AnswersMatchTheScreen
<1>2. CASE Semantics!OtherAdministratorWrites
  BY <1>2 DEF SemanticInv, SemanticAsked, Semantics!AnswersMatchTheScreen,
     Semantics!OtherAdministratorWrites
<1>3. CASE \E d \in Semantics!Dialogs \ {""} : Semantics!OpenDialog(d)
  BY <1>3, SemanticOpens
<1> QED
  BY <1>1, <1>2, <1>3, SemanticActs, SemanticCloses, SemanticReviews, SemanticCompares,
     SemanticImports, SemanticChooses, SemanticPreviews, SemanticCancels, SemanticPicks,
     SemanticServes, SemanticDelivers DEF Semantics!Next

LEMMA SemanticMatches == SemanticInv => Semantics!AnswersMatchTheScreen
BY DEF SemanticInv

(***************************************************************************)
(* The audit page                                                          *)
(***************************************************************************)
AuditScreen == {"query", "history", "rows", "of", "top", "loading", "failed", "stale",
                "skipped"}
AuditCall == {"page", "rows", "top", "stage"}

\* Rows read when the log had top records, from which no matching one is missing.
AuditWhole(rows, query, before, top) ==
  \A i \in Audit!Matching(query) : \A j \in rows :
    i \notin rows /\ i <= top /\ (before = 0 \/ i < before) => i < j

AuditRead(rows, top) == rows \subseteq Nat /\ top \in Nat /\ top <= Len(server.log)

AuditLog ==
  /\ {"log", "oldest"} \subseteq DOMAIN server
  /\ server.log \in Seq(Audit!Kinds) /\ server.oldest \in Nat \ {0}

AuditPage ==
  /\ AuditScreen \subseteq DOMAIN ui /\ ui.history \in Seq(Nat) /\ ui.stale \in BOOLEAN
  /\ ui.loading \in BOOLEAN /\ ui.failed \in BOOLEAN /\ ui.skipped \in BOOLEAN
  /\ AuditRead(ui.rows, ui.top)
  /\ ~ui.loading /\ ~ui.failed => /\ ui.of = Audit!Shown
                                  /\ AuditWhole(ui.rows, ui.query, Audit!Before, ui.top)
  /\ ui.skipped => ui.stale

AuditAnswer(c) ==
  /\ AuditCall \subseteq DOMAIN c /\ c.page = Audit!Shown
  /\ c.stage = "ok" => /\ AuditRead(c.rows, c.top)
                       /\ AuditWhole(c.rows, ui.query, Audit!Before, c.top)

AuditInv == AuditLog /\ AuditPage /\ \A c \in requests : AuditAnswer(c)

LEMMA AuditMatches == AuditInv => Audit!AnswersMatchTheScreen /\ Audit!PagesSkipNothing
BY DEF AuditInv, AuditPage, Audit!AnswersMatchTheScreen, Audit!PagesSkipNothing

\* The page counts its rows as this module does.
LEMMA AuditCardinality == \A S : Audit!Cardinality(S) = Cardinality(S)
BY DEF Audit!Cardinality, Cardinality

LEMMA LeastOfNaturals ==
  ASSUME NEW T, T \subseteq Nat, T # {}
  PROVE  Audit!Least(T) \in T
<1>1. PICK R : R = OpToRel(<, Nat)
  OBVIOUS
<1>2. IsWellFoundedOn(R, Nat)
  BY <1>1, NatLessThanWellFounded
<1>3. PICK x \in T : \A y \in T : ~(<<y, x>> \in R)
  BY <1>2, WFMin
<1>4. R = {ss \in Nat \X Nat : ss[1] < ss[2]}
  BY <1>1 DEF OpToRel
<1>5. ASSUME NEW y \in T
      PROVE  x <= y
  <2>1. PICK p : p = <<y, x>>
    OBVIOUS
  <2>2. p \notin R /\ p \in Nat \X Nat /\ p[1] = y /\ p[2] = x
    BY <1>3, <2>1
  <2>3. ~(p[1] < p[2])
    BY <1>4, <2>2
  <2> QED
    BY <2>2, <2>3
<1> QED
  BY <1>5 DEF Audit!Least

\* What the query of a page is made of.
LEMMA AuditPages ==
  ASSUME NEW page1, NEW query, NEW before, page1 = [query |-> query, before |-> before]
  PROVE  page1.query = query /\ page1.before = before
OBVIOUS

\* A new load asks for what is on screen.
LEMMA AuditLoads ==
  ASSUME AuditInv, NEW query, NEW history \in Seq(Nat), NEW stale \in BOOLEAN,
         NEW skipped \in BOOLEAN, skipped => stale, UNCHANGED server,
         AuditScreen \subseteq DOMAIN ui', ui'.query = query, ui'.history = history,
         ui'.rows = ui.rows, ui'.top = ui.top, ui'.loading = TRUE, ui'.failed = FALSE,
         ui'.stale = stale, ui'.skipped = skipped,
         requests' = {Audit!Request([query |-> query, before |-> history[Len(history)]])}
  PROVE  AuditInv'
<1>1. PICK p : /\ p = [query |-> query, before |-> history[Len(history)]]
               /\ p = Audit!Shown'
  BY DEF Audit!Shown, Audit!Before
<1>2. AuditLog'
  BY DEF AuditInv, AuditLog
<1>3. AuditPage'
  BY DEF AuditInv, AuditPage, AuditRead
<1>4. ASSUME NEW c \in requests'
      PROVE  AuditAnswer(c)'
  <2>1. c = [page |-> p, rows |-> {}, top |-> 0, stage |-> "sent"]
    BY <1>1 DEF Audit!Request
  <2>2. AuditCall \subseteq DOMAIN c /\ c.page = p /\ c.stage = "sent"
    BY <2>1 DEF AuditCall
  <2> QED
    BY <1>1, <2>2 DEF AuditAnswer
<1> QED
  BY <1>2, <1>3, <1>4 DEF AuditInv

LEMMA AuditLoad ==
  ASSUME AuditInv, NEW query, NEW history \in Seq(Nat), Audit!Load(query, history)
  PROVE  AuditInv'
<1>1. PICK q, h : /\ q = query /\ h = history
                  /\ ui' = [ui EXCEPT !.query = q, !.history = h, !.loading = TRUE,
                                      !.failed = FALSE]
  BY DEF Audit!Load
<1>2. /\ AuditScreen \subseteq DOMAIN ui' /\ ui'.query = q /\ ui'.history = h
      /\ ui'.rows = ui.rows /\ ui'.top = ui.top /\ ui'.loading = TRUE /\ ui'.failed = FALSE
      /\ ui'.stale = ui.stale /\ ui'.skipped = ui.skipped
  BY <1>1 DEF AuditInv, AuditPage, AuditScreen
<1>3. PICK stale \in BOOLEAN, skipped \in BOOLEAN :
        stale = ui.stale /\ skipped = ui.skipped /\ (skipped => stale)
  BY DEF AuditInv, AuditPage
<1> QED
  BY <1>1, <1>2, <1>3, AuditLoads DEF Audit!Load

LEMMA AuditBegins == <<0>> \in Seq(Nat) /\ Len(<<0>>) = 1 /\ <<0>>[1] = 0
OBVIOUS

LEMMA AuditTurns ==
  ASSUME AuditInv,
         Audit!Refresh \/ Audit!ApplyFilters \/ Audit!Clear \/ Audit!NewerRecords
  PROVE  AuditInv'
<1>1. CASE Audit!Refresh
  <2>1. PICK query, history : /\ query = ui.query /\ history = ui.history
                              /\ history \in Seq(Nat) /\ Audit!Load(query, history)
    BY <1>1 DEF AuditInv, AuditPage, Audit!Refresh
  <2> QED
    BY <2>1, AuditLoad
<1>2. CASE Audit!ApplyFilters
  <2>1. PICK query, history : history = <<0>> /\ Audit!Load(query, history)
    BY <1>2 DEF Audit!ApplyFilters
  <2> QED
    BY <2>1, AuditLoad, AuditBegins
<1>3. CASE Audit!NewerRecords
  <2>1. PICK query, history, n : /\ n = Len(ui.history) - 1 /\ Len(ui.history) > 1
                                 /\ history = SubSeq(ui.history, 1, n)
                                 /\ Audit!Load(query, history)
    BY <1>3 DEF Audit!NewerRecords
  <2>2. PICK s : s = ui.history /\ s \in Seq(Nat)
    BY DEF AuditInv, AuditPage
  <2>3. Len(s) \in Nat /\ \A i \in 1 .. n : s[i] \in Nat
    <3>1. Len(s) \in Nat /\ \A i \in 1 .. Len(s) : s[i] \in Nat
      BY <2>2, LenProperties
    <3>2. PICK m : m = Len(s) /\ m \in Nat /\ n = m - 1
      BY <2>1, <2>2, <3>1
    <3> QED
      BY <3>1, <3>2
  <2>4. n \in Int
    BY <2>1, <2>2, <2>3
  <2>5. history \in Seq(Nat)
    BY <2>1, <2>2, <2>3, <2>4, SubSeqProperties
  <2> QED
    BY <2>1, <2>5, AuditLoad
<1>4. CASE Audit!Clear
  <2>1. CASE Audit!Shown = Audit!Newest("")
    <3>1. PICK h : h = <<0>> /\ ui' = [ui EXCEPT !.history = h]
      BY <1>4, <2>1 DEF Audit!Clear
    <3>2. AuditPage /\ AuditScreen \subseteq DOMAIN ui /\ UNCHANGED <<server, requests>>
      BY <1>4, <2>1 DEF Audit!Clear, AuditInv, AuditPage
    <3>3. /\ AuditScreen \subseteq DOMAIN ui' /\ ui'.query = ui.query /\ ui'.history = h
          /\ ui'.rows = ui.rows /\ ui'.top = ui.top /\ ui'.loading = ui.loading
          /\ ui'.failed = ui.failed /\ ui'.stale = ui.stale /\ ui'.skipped = ui.skipped
          /\ ui'.of = ui.of
      BY <3>1, <3>2 DEF AuditScreen
    <3>4. Audit!Before = 0
      BY <2>1 DEF Audit!Shown, Audit!Newest
    <3>5. Audit!Before' = Audit!Before
      BY <3>1, <3>3, <3>4, AuditBegins DEF Audit!Before
    <3>6. Audit!Shown' = Audit!Shown
      BY <3>3, <3>5 DEF Audit!Shown
    <3>7. AuditPage'
      BY <3>1, <3>2, <3>3, <3>5, <3>6, AuditBegins
         DEF AuditPage, AuditRead, AuditWhole, Audit!Matching
    <3>8. \A c \in requests' : AuditAnswer(c)'
      BY <3>2, <3>3, <3>5, <3>6
         DEF AuditInv, AuditAnswer, AuditRead, AuditWhole, Audit!Matching
    <3> QED
      BY <3>2, <3>7, <3>8 DEF AuditInv, AuditLog
  <2>2. CASE Audit!Shown # Audit!Newest("")
    <3>1. PICK query, history : history = <<0>> /\ Audit!Load(query, history)
      BY <1>4, <2>2 DEF Audit!Clear
    <3> QED
      BY <3>1, AuditLoad, AuditBegins
  <2> QED
    BY <2>1, <2>2
<1> QED
  BY <1>1, <1>2, <1>3, <1>4

\* The next page begins at the oldest row: nothing is between them.
LEMMA AuditMissesNothing ==
  ASSUME AuditInv, ~ui.loading, ~ui.failed, NEW cursor \in ui.rows
  PROVE  Audit!Missed(cursor) = {}
<1>1. PICK rows, top, query, before :
        /\ rows = ui.rows /\ top = ui.top /\ query = ui.query /\ before = Audit!Before
        /\ rows \subseteq Nat /\ AuditWhole(rows, query, before, top)
  BY DEF AuditInv, AuditPage, AuditRead
<1>2. SUFFICES ASSUME NEW i \in Audit!Missed(cursor)
               PROVE  FALSE
  OBVIOUS
<1>3. /\ i \in Audit!Matching(query) /\ i \notin rows /\ cursor <= i /\ i <= top
      /\ before = 0 \/ i < before
  BY <1>1, <1>2 DEF Audit!Missed
<1>4. i < cursor
  BY <1>1, <1>3 DEF AuditWhole
<1>5. i \in Nat /\ cursor \in Nat
  <2>1. server.oldest \in Nat
    BY DEF AuditInv, AuditLog
  <2>2. i \in server.oldest .. Len(server.log)
    BY <1>3 DEF Audit!Matching
  <2>3. PICK m, n : m = server.oldest /\ n = Len(server.log)
    OBVIOUS
  <2>4. i \in m .. n /\ m \in Nat
    BY <2>1, <2>2, <2>3
  <2> QED
    BY <1>1, <2>4
<1> QED
  BY <1>3, <1>4, <1>5

LEMMA AuditOlder ==
  ASSUME AuditInv, Audit!OlderRecords
  PROVE  AuditInv'
<1>1. PICK rows : rows = ui.rows /\ rows \subseteq Nat /\ Cardinality(rows) = PageSize
  <2>1. Cardinality(ui.rows) = PageSize
    BY AuditCardinality DEF Audit!OlderRecords
  <2>2. ui.rows \subseteq Nat
    BY DEF AuditInv, AuditPage, AuditRead
  <2> QED
    BY <2>1, <2>2
<1>2. rows # {}
  BY <1>1, FS_EmptySet, PagesAssumption
<1>3. PICK cursor : cursor = Audit!Least(ui.rows) /\ cursor \in rows /\ cursor \in Nat
  BY <1>1, <1>2, LeastOfNaturals
<1>4. PICK history, stale, skipped :
        /\ history = Append(ui.history, cursor) /\ stale = (ui.stale \/ ui.failed)
        /\ skipped = (ui.skipped \/ Audit!Missed(cursor) # {})
        /\ ui' = [ui EXCEPT !.history = history, !.loading = TRUE, !.failed = FALSE,
                            !.stale = stale, !.skipped = skipped]
  <2>1. PICK history, stale, skipped :
          /\ history = Append(ui.history, cursor) /\ stale = (ui.stale \/ ui.failed)
          /\ skipped = (ui.skipped \/ Audit!Missed(cursor) # {})
    OBVIOUS
  <2>2. ui' = [ui EXCEPT !.history = history, !.loading = TRUE, !.failed = FALSE,
                         !.stale = stale, !.skipped = skipped]
    BY <1>3, <2>1 DEF Audit!OlderRecords
  <2> QED
    BY <2>1, <2>2
<1>5. /\ AuditScreen \subseteq DOMAIN ui' /\ ui'.query = ui.query /\ ui'.history = history
      /\ ui'.rows = ui.rows /\ ui'.top = ui.top /\ ui'.loading = TRUE /\ ui'.failed = FALSE
      /\ ui'.stale = stale /\ ui'.skipped = skipped
  BY <1>4 DEF AuditInv, AuditPage, AuditScreen
<1>6. history \in Seq(Nat) /\ history[Len(history)] = cursor
  <2>1. PICK s : s = ui.history /\ s \in Seq(Nat)
    BY DEF AuditInv, AuditPage
  <2>2. PICK n : n = Len(s)
    OBVIOUS
  <2>3. /\ Append(s, cursor) \in Seq(Nat) /\ Len(Append(s, cursor)) = n + 1
        /\ Append(s, cursor)[n + 1] = cursor
    BY <1>3, <2>1, <2>2, AppendProperties
  <2> QED
    BY <1>4, <2>1, <2>3
<1>7. stale \in BOOLEAN /\ skipped \in BOOLEAN /\ (skipped => stale)
  <2>1. CASE ui.failed
    BY <1>4, <2>1 DEF AuditInv, AuditPage
  <2>2. CASE ~ui.failed
    <3>1. Audit!Missed(cursor) = {}
      BY <1>1, <1>3, <2>2, AuditMissesNothing DEF Audit!OlderRecords
    <3> QED
      BY <1>4, <2>2, <3>1 DEF AuditInv, AuditPage
  <2> QED
    BY <2>1, <2>2
<1>8. PICK query : /\ query = ui.query /\ UNCHANGED server
                   /\ requests' = {Audit!Request([query |-> query,
                                                  before |-> history[Len(history)]])}
  BY <1>3, <1>6 DEF Audit!OlderRecords
<1> QED
  BY <1>5, <1>6, <1>7, <1>8, AuditLoads

\* A page of the log is whole: what is newer than its rows is on an earlier page.
LEMMA AuditPageIsWhole ==
  ASSUME AuditLog, NEW p, NEW rows, rows = Audit!PageOf(p)
  PROVE  rows \subseteq Nat /\ \A top : AuditWhole(rows, p.query, p.before, top)
<1> DEFINE below == {i \in Audit!Matching(p.query) : p.before = 0 \/ i < p.before}
           Newer(i) == {j \in below : j > i}
<1>1. below \subseteq Nat /\ IsFiniteSet(below)
  <2>1. PICK m, n : /\ m = server.oldest /\ n = Len(server.log)
                    /\ m \in Nat /\ n \in Nat
    BY LenProperties DEF AuditLog
  <2>2. below \subseteq m .. n
    BY <2>1 DEF Audit!Matching
  <2>3. IsFiniteSet(m .. n)
    <3>1. m \in Int /\ n \in Int
      BY <2>1
    <3> QED
      BY <3>1, FS_Interval
  <2> QED
    BY <2>1, <2>2, <2>3, FS_Subset
<1>2. rows = {i \in below : Cardinality(Newer(i)) < PageSize}
  <2>1. Audit!PageOf(p) = {i \in below : Cardinality(Newer(i)) < PageSize}
    BY AuditCardinality DEF Audit!PageOf
  <2> QED
    BY <2>1
<1>3. \A i \in below : IsFiniteSet(Newer(i)) /\ Cardinality(Newer(i)) \in Nat
  <2>1. TAKE i \in below
  <2>2. Newer(i) \in SUBSET below
    OBVIOUS
  <2>3. IsFiniteSet(Newer(i))
    BY <1>1, <2>2, FS_Subset
  <2> QED
    BY <2>3, FS_CardinalityType
<1>4. ASSUME NEW i \in below, NEW j \in rows, i \notin rows
      PROVE  i < j
  <2>1. i \in Nat /\ j \in Nat /\ j \in below
    BY <1>1, <1>2
  <2>2. SUFFICES ASSUME j <= i PROVE FALSE
    BY <2>1
  <2>3. Newer(i) \in SUBSET Newer(j)
    BY <1>1, <2>1, <2>2
  <2>4. Cardinality(Newer(i)) <= Cardinality(Newer(j))
    BY <1>3, <2>1, <2>3, FS_Subset
  <2>5. Cardinality(Newer(j)) < PageSize /\ ~(Cardinality(Newer(i)) < PageSize)
    BY <1>2, <1>4
  <2>6. PICK a, b : /\ a = Cardinality(Newer(i)) /\ b = Cardinality(Newer(j))
                    /\ a \in Nat /\ b \in Nat
    BY <1>3, <2>1
  <2>7. a <= b /\ b < PageSize /\ ~(a < PageSize)
    BY <2>4, <2>5, <2>6
  <2>8. PageSize \in Nat
    BY PagesAssumption
  <2> QED
    BY <2>6, <2>7, <2>8
<1>5. rows \subseteq Nat
  BY <1>1, <1>2
<1>6. ASSUME NEW top
      PROVE  AuditWhole(rows, p.query, p.before, top)
  <2>1. SUFFICES ASSUME NEW i \in Audit!Matching(p.query), NEW j \in rows,
                        i \notin rows, p.before = 0 \/ i < p.before
                 PROVE  i < j
    BY DEF AuditWhole
  <2>2. i \in below
    BY <2>1
  <2> QED
    BY <1>4, <2>1, <2>2
<1> QED
  BY <1>5, <1>6

LEMMA AuditServes ==
  ASSUME AuditInv, Audit!Serve
  PROVE  AuditInv'
<1>1. PICK c \in requests :
        \/ requests' = {[c EXCEPT !.stage = "ok", !.rows = Audit!PageOf(c.page),
                                  !.top = Len(server.log)]}
        \/ requests' = {[c EXCEPT !.stage = "failed"]}
  BY DEF Audit!Serve
<1>2. AuditLog /\ AuditPage /\ AuditAnswer(c) /\ ui' = ui /\ server' = server
  BY DEF AuditInv, Audit!Serve
<1>3. PICK p, rows, top : /\ p = c.page /\ rows = Audit!PageOf(p) /\ top = Len(server.log)
  OBVIOUS
<1>4. PICK d : /\ requests' = {d}
               /\ \/ d = [c EXCEPT !.stage = "ok", !.rows = rows, !.top = top]
                  \/ d = [c EXCEPT !.stage = "failed"]
  BY <1>1, <1>3
<1>5. AuditCall \subseteq DOMAIN d /\ d.page = p /\ (d.stage = "ok" => d.rows = rows /\ d.top = top)
  BY <1>2, <1>3, <1>4 DEF AuditAnswer, AuditCall
<1>6. /\ rows \subseteq Nat /\ top \in Nat /\ top <= Len(server.log)
      /\ AuditWhole(rows, p.query, p.before, top)
  <2>1. rows \subseteq Nat /\ AuditWhole(rows, p.query, p.before, top)
    BY <1>2, <1>3, AuditPageIsWhole
  <2>2. top \in Nat
    BY <1>2, <1>3, LenProperties DEF AuditLog
  <2> QED
    BY <1>3, <2>1, <2>2
<1>7. p = Audit!Shown /\ p.query = ui.query /\ p.before = Audit!Before
  BY <1>2, <1>3, AuditPages DEF AuditAnswer, Audit!Shown
<1>8. AuditAnswer(d)
  BY <1>5, <1>6, <1>7 DEF AuditAnswer, AuditRead
<1>9. AuditAnswer(d)' /\ AuditPage' /\ AuditLog'
  BY <1>2, <1>8 DEF AuditAnswer, AuditRead, AuditWhole, Audit!Matching, Audit!Shown,
     Audit!Before, AuditPage, AuditLog
<1> QED
  BY <1>4, <1>9 DEF AuditInv

\* What was read stays whole while the log grows and is cleaned up.
LEMMA AuditGrows ==
  ASSUME AuditInv, Audit!Record \/ Audit!Cleanup
  PROVE  AuditInv'
<1>1. PICK log, m, n : /\ log = server.log /\ m = server.oldest /\ n = Len(log)
                       /\ log \in Seq(Audit!Kinds) /\ m \in Nat \ {0} /\ n \in Nat
  BY LenProperties DEF AuditInv, AuditLog
<1>2. /\ UNCHANGED <<ui, requests>> /\ AuditPage
      /\ {"log", "oldest"} \subseteq DOMAIN server
  BY DEF AuditInv, AuditLog, Audit!Record, Audit!Cleanup
<1>3. PICK k, q, o : /\ q \in Seq(Audit!Kinds) /\ k = Len(q) /\ k \in Nat /\ n <= k
                     /\ o \in Nat \ {0} /\ m <= o /\ server'.log = q /\ server'.oldest = o
                     /\ {"log", "oldest"} \subseteq DOMAIN server'
                     /\ \A i \in 1 .. n : q[i] = log[i]
  <2>1. CASE Audit!Record
    <3>0. PICK kind \in Audit!Kinds :
            \E q : q = Append(log, kind) /\ server' = [server EXCEPT !.log = q]
      BY <1>1, <2>1 DEF Audit!Record
    <3>1. PICK q : q = Append(log, kind) /\ server' = [server EXCEPT !.log = q]
      BY <3>0
    <3>2. /\ q \in Seq(Audit!Kinds) /\ Len(q) = n + 1
          /\ \A i \in 1 .. n : q[i] = log[i]
      BY <1>1, <3>1, AppendProperties
    <3>3. /\ server'.log = q /\ server'.oldest = m
          /\ {"log", "oldest"} \subseteq DOMAIN server'
      BY <1>1, <1>2, <3>1
    <3>4. PICK k : k = Len(q) /\ k = n + 1
      BY <3>2
    <3> QED
      BY <1>1, <3>2, <3>3, <3>4
  <2>2. CASE Audit!Cleanup
    <3>1. PICK o : o = m + 1 /\ server' = [server EXCEPT !.oldest = o]
      BY <1>1, <2>2 DEF Audit!Cleanup
    <3>2. /\ server'.log = log /\ server'.oldest = o
          /\ {"log", "oldest"} \subseteq DOMAIN server'
      BY <1>1, <1>2, <3>1
    <3> QED
      BY <1>1, <3>1, <3>2
  <2> QED
    BY <2>1, <2>2
<1>4. \A query, i : i \in Audit!Matching(query)' /\ i <= n => i \in Audit!Matching(query)
  <2>1. TAKE query, i
  <2>2. SUFFICES ASSUME i \in Audit!Matching(query)', i <= n
                 PROVE  i \in Audit!Matching(query)
    OBVIOUS
  <2>3. i \in o .. k /\ (query = "" \/ q[i] = query)
    BY <1>3, <2>2 DEF Audit!Matching
  <2>4. i \in m .. n /\ i \in 1 .. n
    <3>1. m \in Nat \ {0} /\ n \in Nat /\ o \in Nat /\ k \in Nat /\ m <= o
      BY <1>1, <1>3
    <3>2. i \in o .. k
      BY <2>3
    <3> QED
      BY <2>2, <3>1, <3>2
  <2>5. query = "" \/ log[i] = query
    BY <1>3, <2>3, <2>4
  <2> QED
    BY <1>1, <2>4, <2>5 DEF Audit!Matching
<1>5. ASSUME NEW rows, NEW top, AuditRead(rows, top)
      PROVE  /\ AuditRead(rows, top)'
             /\ \A query, before : AuditWhole(rows, query, before, top)
                                     => AuditWhole(rows, query, before, top)'
  <2>1. top \in Nat /\ top <= n /\ rows \subseteq Nat
    BY <1>1, <1>5 DEF AuditRead
  <2>2. AuditRead(rows, top)'
    BY <1>1, <1>3, <2>1 DEF AuditRead
  <2>3. \A query, i : i \in Audit!Matching(query)' /\ i <= top => i \in Audit!Matching(query)
    <3>1. TAKE query, i
    <3>2. SUFFICES ASSUME i \in Audit!Matching(query)', i <= top
                   PROVE  i \in Audit!Matching(query)
      OBVIOUS
    <3>3. i \in o .. k
      BY <1>3, <3>2 DEF Audit!Matching
    <3>4. i <= n
      BY <1>1, <1>3, <2>1, <3>2, <3>3
    <3> QED
      BY <1>4, <3>2, <3>4
  <2>4. ASSUME NEW query, NEW before, AuditWhole(rows, query, before, top)
        PROVE  AuditWhole(rows, query, before, top)'
    BY <2>3, <2>4 DEF AuditWhole
  <2> QED
    BY <2>2, <2>4
<1>6. AuditLog'
  BY <1>3 DEF AuditLog
<1>7. Audit!Shown' = Audit!Shown /\ Audit!Before' = Audit!Before
  BY <1>2 DEF Audit!Shown, Audit!Before
<1>8. AuditPage'
  <2>1. PICK rows, top, query, before :
          /\ rows = ui.rows /\ top = ui.top /\ query = ui.query /\ before = Audit!Before
          /\ AuditRead(rows, top)
    BY <1>2 DEF AuditPage
  <2>2. /\ AuditRead(rows, top)'
        /\ AuditWhole(rows, query, before, top) => AuditWhole(rows, query, before, top)'
    BY <1>5, <2>1
  <2>3. rows = ui'.rows /\ top = ui'.top /\ query = ui'.query /\ before = Audit!Before'
    BY <1>2, <1>7, <2>1
  <2>4. /\ AuditRead(ui.rows, ui.top)'
        /\ AuditWhole(ui.rows, ui.query, Audit!Before, ui.top)
             => AuditWhole(ui.rows, ui.query, Audit!Before, ui.top)'
    BY <2>1, <2>2, <2>3 DEF AuditRead, AuditWhole
  <2> QED
    BY <1>2, <1>7, <2>4 DEF AuditPage
<1>9. ASSUME NEW c \in requests'
      PROVE  AuditAnswer(c)'
  <2>1. AuditAnswer(c)
    BY <1>2 DEF AuditInv
  <2>2. PICK rows, top, query, before :
          rows = c.rows /\ top = c.top /\ query = ui.query /\ before = Audit!Before
    OBVIOUS
  <2>3. CASE c.stage = "ok"
    <3>1. AuditRead(rows, top) /\ AuditWhole(rows, query, before, top)
      BY <2>1, <2>2, <2>3 DEF AuditAnswer
    <3>2. AuditRead(rows, top)' /\ AuditWhole(rows, query, before, top)'
      BY <1>5, <3>1
    <3>3. query = ui'.query /\ before = Audit!Before'
      BY <1>2, <1>7, <2>2
    <3>4. AuditRead(c.rows, c.top)' /\ AuditWhole(c.rows, ui.query, Audit!Before, c.top)'
      BY <2>2, <3>2, <3>3 DEF AuditRead, AuditWhole
    <3> QED
      BY <1>7, <2>1, <3>4 DEF AuditAnswer
  <2>4. CASE c.stage # "ok"
    BY <1>7, <2>1, <2>4 DEF AuditAnswer
  <2> QED
    BY <2>3, <2>4
<1> QED
  BY <1>6, <1>8, <1>9 DEF AuditInv

LEMMA AuditDelivers ==
  ASSUME AuditInv, Audit!Deliver
  PROVE  AuditInv'
<1>1. PICK c \in requests :
        \/ c.stage = "ok" /\ ui' = [ui EXCEPT !.rows = c.rows, !.of = c.page, !.top = c.top,
                                              !.loading = FALSE]
        \/ c.stage = "failed" /\ ui' = [ui EXCEPT !.failed = TRUE, !.loading = FALSE]
  BY DEF Audit!Deliver
<1>2. AuditPage /\ AuditAnswer(c) /\ requests' = {} /\ server' = server
  BY DEF AuditInv, Audit!Deliver
<1>3. AuditLog'
  BY <1>2 DEF AuditInv, AuditLog
<1>4. PICK rows, of, top : rows = c.rows /\ of = c.page /\ top = c.top
  OBVIOUS
<1>5. CASE c.stage = "ok" /\ ui' = [ui EXCEPT !.rows = rows, !.of = of, !.top = top,
                                              !.loading = FALSE]
  <2>1. /\ AuditScreen \subseteq DOMAIN ui' /\ ui'.query = ui.query
        /\ ui'.history = ui.history /\ ui'.rows = rows /\ ui'.top = top /\ ui'.of = of
        /\ ui'.loading = FALSE /\ ui'.failed = ui.failed /\ ui'.stale = ui.stale
        /\ ui'.skipped = ui.skipped
    BY <1>2, <1>5 DEF AuditPage, AuditScreen
  <2>2. Audit!Shown' = Audit!Shown /\ Audit!Before' = Audit!Before
    BY <2>1 DEF Audit!Shown, Audit!Before
  <2>3. /\ AuditRead(rows, top) /\ AuditWhole(rows, ui.query, Audit!Before, top)
        /\ of = Audit!Shown
    BY <1>2, <1>4, <1>5 DEF AuditAnswer
  <2>4. /\ AuditRead(ui.rows, ui.top)'
        /\ AuditWhole(ui.rows, ui.query, Audit!Before, ui.top)'
    BY <1>2, <2>1, <2>2, <2>3 DEF AuditRead, AuditWhole, Audit!Matching
  <2>5. AuditPage'
    BY <1>2, <2>1, <2>2, <2>3, <2>4 DEF AuditPage
  <2> QED
    BY <1>2, <1>3, <2>5 DEF AuditInv
<1>6. CASE ui' = [ui EXCEPT !.failed = TRUE, !.loading = FALSE]
  <2>1. /\ AuditScreen \subseteq DOMAIN ui' /\ ui'.history = ui.history
        /\ ui'.rows = ui.rows /\ ui'.top = ui.top /\ ui'.loading = FALSE
        /\ ui'.failed = TRUE /\ ui'.stale = ui.stale /\ ui'.skipped = ui.skipped
    BY <1>2, <1>6 DEF AuditPage, AuditScreen
  <2>2. AuditPage'
    BY <1>2, <2>1 DEF AuditPage, AuditRead
  <2> QED
    BY <1>2, <1>3, <2>2 DEF AuditInv
<1> QED
  BY <1>1, <1>4, <1>5, <1>6

LEMMA AuditStarts == Audit!Init => AuditInv
<1> SUFFICES ASSUME Audit!Init PROVE AuditInv
  OBVIOUS
<1>1. PICK h, p, log : h = <<0>> /\ p = Audit!Newest("client") /\ log = << >>
  OBVIOUS
<1>2. server = [log |-> log, oldest |-> 1]
  BY <1>1 DEF Audit!Init
<1>3. ui = [query |-> "client", history |-> h, rows |-> {}, of |-> p, top |-> 0,
            loading |-> TRUE, failed |-> FALSE, stale |-> FALSE, skipped |-> FALSE]
  BY <1>1 DEF Audit!Init
<1>4. log \in Seq(Audit!Kinds) /\ Len(log) = 0
  BY <1>1, EmptySeq
<1>5. server.log = log /\ AuditLog
  BY <1>2, <1>4 DEF AuditLog
<1>6. /\ AuditScreen \subseteq DOMAIN ui /\ ui.history = h /\ ui.rows = {} /\ ui.top = 0
      /\ ui.loading = TRUE /\ ui.failed = FALSE /\ ui.stale = FALSE /\ ui.skipped = FALSE
      /\ ui.query = "client"
  BY <1>3 DEF AuditScreen
<1>7. AuditPage
  <2>1. AuditRead(ui.rows, ui.top)
    <3>1. PICK n : n = Len(server.log) /\ n = 0
      BY <1>4, <1>5
    <3> QED
      BY <1>6, <3>1 DEF AuditRead
  <2> QED
    BY <1>1, <1>6, <2>1, AuditBegins DEF AuditPage
<1>8. ASSUME NEW c \in requests
      PROVE  AuditAnswer(c)
  <2>1. c = [page |-> p, rows |-> {}, top |-> 0, stage |-> "sent"]
    BY <1>1 DEF Audit!Init, Audit!Request
  <2>2. AuditCall \subseteq DOMAIN c /\ c.page = p /\ c.stage = "sent"
    BY <2>1 DEF AuditCall
  <2>3. Audit!Before = 0
    BY <1>1, <1>6, AuditBegins DEF Audit!Before
  <2>4. p = Audit!Shown
    BY <1>1, <1>6, <2>3 DEF Audit!Shown, Audit!Newest
  <2> QED
    BY <2>2, <2>4 DEF AuditAnswer
<1> QED
  BY <1>5, <1>7, <1>8 DEF AuditInv

LEMMA AuditKeeps ==
  ASSUME AuditInv, Audit!Next \/ UNCHANGED <<server, ui, requests>>
  PROVE  AuditInv'
<1>1. CASE UNCHANGED <<server, ui, requests>>
  <2>1. AuditLog' /\ AuditPage'
    BY <1>1 DEF AuditInv, AuditLog, AuditPage, AuditRead, AuditWhole, Audit!Matching,
       Audit!Shown, Audit!Before
  <2>2. \A c \in requests' : AuditAnswer(c)'
    BY <1>1 DEF AuditInv, AuditAnswer, AuditRead, AuditWhole, Audit!Matching,
       Audit!Shown, Audit!Before
  <2> QED
    BY <2>1, <2>2 DEF AuditInv
<1> QED
  BY <1>1, AuditTurns, AuditOlder, AuditServes, AuditGrows, AuditDelivers DEF Audit!Next

\* What is kept of the page on screen, whichever it is.
OnScreenInv ==
  /\ page = "semantics"  => SemanticInv
  /\ page = "tools"      => QueryInv
  /\ page = "explorer"   => ExplorerInv
  /\ page = "mapping"    => MappingInv
  /\ page = "settings"   => ExportInv
  /\ page = "evaluation" => LibraryInv
  /\ page = "audit"      => AuditInv
  /\ page = "catalog"    => CatalogInv
  /\ page = "concept"    => ConceptInv
  /\ page = "home"       => HomeInv /\ HomeAway
  /\ page = "resume"     => ResumeInv

(* What a page shows as the answer to what is asked on screen is the       *)
(* answer to it, on every page of the console and in whatever order the    *)
(* answers arrive (the requestID counters and AbortControllers of          *)
(* web/src): the impact a publication is reviewed by, the query a test     *)
(* waits for, the objects of an explored source, a mapping's preview, the  *)
(* state of the audit export, the lists of evaluations, the queries of a   *)
(* catalog and of a concept, the health of the chosen source and the query *)
(* that is continued; and turning the pages of the audit log passes over   *)
(* no record.                                                              *)
THEOREM AnswersAreOfTheScreen == PagesSpec => []AnswersMatchTheScreen
<1>1. PagesInit => OnScreenInv
  <2> SUFFICES ASSUME PagesInit PROVE OnScreenInv
    OBVIOUS
  <2>1. page = "semantics" => SemanticInv
    BY SemanticStarts DEF PagesInit
  <2>2. page = "tools" => QueryInv
    BY QueryStarts DEF PagesInit
  <2>3. page = "explorer" => ExplorerInv
    BY ExplorerStarts DEF PagesInit
  <2>4. page = "mapping" => MappingInv
    BY MappingStarts DEF PagesInit
  <2>5. page = "settings" => ExportInv
    BY ExportStarts DEF PagesInit
  <2>6. page = "evaluation" => LibraryInv
    BY LibraryStarts DEF PagesInit
  <2>7. page = "audit" => AuditInv
    BY AuditStarts DEF PagesInit
  <2>8. page = "catalog" => CatalogInv
    BY CatalogStarts DEF PagesInit
  <2>9. page = "concept" => ConceptInv
    BY ConceptStarts DEF PagesInit
  <2>10. page = "home" => HomeInv /\ HomeAway
    BY HomeStarts DEF PagesInit
  <2>11. page = "resume" => ResumeInv
    BY ResumeStarts DEF PagesInit
  <2> QED
    BY <2>1, <2>2, <2>3, <2>4, <2>5, <2>6, <2>7, <2>8, <2>9, <2>10, <2>11 DEF OnScreenInv
<1>2. OnScreenInv /\ [PagesNext]_pagesVars => OnScreenInv'
  <2> SUFFICES ASSUME OnScreenInv, [PagesNext]_pagesVars PROVE OnScreenInv'
    OBVIOUS
  <2>0. page' = page
    BY DEF PagesNext, pagesVars
  <2>1. ASSUME page = "semantics" PROVE SemanticInv'
    <3>1. SemanticInv /\ (Semantics!Next \/ UNCHANGED <<ui, requests>>)
      BY <2>1 DEF OnScreenInv, PagesNext, pagesVars
    <3> QED
      BY <3>1, SemanticKeeps
  <2>2. ASSUME page = "tools" PROVE QueryInv'
    <3>1. QueryInv /\ (QueryTools!Next \/ UNCHANGED <<ui, requests>>)
      BY <2>2 DEF OnScreenInv, PagesNext, pagesVars
    <3> QED
      BY <3>1, QueryKeeps
  <2>3. ASSUME page = "explorer" PROVE ExplorerInv'
    <3>1. ExplorerInv /\ (Explorer!Next \/ UNCHANGED <<ui, requests>>)
      BY <2>3 DEF OnScreenInv, PagesNext, pagesVars
    <3> QED
      BY <3>1, ExplorerKeeps
  <2>4. ASSUME page = "mapping" PROVE MappingInv'
    <3>1. MappingInv /\ (Mapping!Next \/ UNCHANGED <<ui, requests>>)
      BY <2>4 DEF OnScreenInv, PagesNext, pagesVars
    <3> QED
      BY <3>1, MappingKeeps
  <2>5. ASSUME page = "settings" PROVE ExportInv'
    <3>1. ExportInv /\ (Settings!Next \/ UNCHANGED <<server, ui, requests>>)
      BY <2>5 DEF OnScreenInv, PagesNext, pagesVars
    <3> QED
      BY <3>1, ExportKeeps
  <2>6. ASSUME page = "evaluation" PROVE LibraryInv'
    <3>1. LibraryInv /\ (Evaluation!Next \/ UNCHANGED <<ui, requests>>)
      BY <2>6 DEF OnScreenInv, PagesNext, pagesVars
    <3> QED
      BY <3>1, LibraryKeeps
  <2>7. ASSUME page = "audit" PROVE AuditInv'
    <3>1. AuditInv /\ (Audit!Next \/ UNCHANGED <<server, ui, requests>>)
      BY <2>7 DEF OnScreenInv, PagesNext, pagesVars
    <3> QED
      BY <3>1, AuditKeeps
  <2>8. ASSUME page = "catalog" PROVE CatalogInv'
    <3>1. CatalogInv /\ (Catalog!Next \/ UNCHANGED <<ui, requests>>)
      BY <2>8 DEF OnScreenInv, PagesNext, pagesVars
    <3> QED
      BY <3>1, CatalogKeeps
  <2>9. ASSUME page = "concept" PROVE ConceptInv'
    <3>1. ConceptInv /\ (Concept!Next \/ UNCHANGED <<ui, requests>>)
      BY <2>9 DEF OnScreenInv, PagesNext, pagesVars
    <3> QED
      BY <3>1, ConceptKeeps
  <2>10. ASSUME page = "home" PROVE HomeInv' /\ HomeAway'
    <3>1. /\ HomeInv /\ HomeAway
          /\ HomePage!Next \/ UNCHANGED <<server, ui, requests>>
      BY <2>10 DEF OnScreenInv, PagesNext, pagesVars
    <3> QED
      BY <3>1, HomeKeeps
  <2>11. ASSUME page = "resume" PROVE ResumeInv'
    <3>1. ResumeInv /\ (Resume!Next \/ UNCHANGED <<server, ui, requests>>)
      BY <2>11 DEF OnScreenInv, PagesNext, pagesVars
    <3> QED
      BY <3>1, ResumeKeeps
  <2> QED
    BY <2>0, <2>1, <2>2, <2>3, <2>4, <2>5, <2>6, <2>7, <2>8, <2>9, <2>10, <2>11
       DEF OnScreenInv
<1>3. OnScreenInv => AnswersMatchTheScreen
  BY SemanticMatches, QueryMatches, ExplorerMatches, MappingMatches, ExportMatches,
     LibraryMatches, AuditMatches, CatalogMatches, ConceptMatches, HomeMatches, ResumeMatches
     DEF OnScreenInv, AnswersMatchTheScreen
<1> QED
  BY <1>1, <1>2, <1>3, PTL DEF PagesSpec
==============================================================================

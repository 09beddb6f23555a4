----------------------- MODULE AdministratorSecurity -----------------------
(***************************************************************************)
(* Administrator accounts, their sessions, their configuration tokens, and *)
(* the work done with either (internal/store: administrators.go,           *)
(* administrator_sessions.go, password.go, configuration.go;               *)
(* internal/server: administrators.go, auth.go, configuration.go).         *)
(*                                                                         *)
(* Work is a request of the console, which presents a session, or a call   *)
(* of the configuration MCP, which presents a token.  Both register in a   *)
(* map of the server and are checked once more before they run; whatever   *)
(* they change is changed under Store.Mutations after another check.       *)
(* Store.Mutations is released before the cancellations a change owes.     *)
(* Signing in does not take it: it relies on locks of the database.        *)
(*                                                                         *)
(* A password is its generation.  Session tokens and configuration tokens  *)
(* are never used twice; a configuration token is the revision its         *)
(* identity got when it was issued.                                        *)
(***************************************************************************)
EXTENDS Integers, FiniteSets

CONSTANTS
  Administrators,
  Sessions,       \* session rows
  Requests,       \* requests of the console
  Calls,          \* calls of the configuration MCP
  Logins,         \* requests that sign in
  Nothing,
  MaxPerIdentity, \* configuration calls of one identity
  MaxCalls,       \* configuration calls in all
  MaxChanges      \* bound: changes of accounts and identities

VARIABLES
  account,   \* the table administrators
  session,   \* the table sessions
  identity,  \* the table configuration_agents: the revision, and whether a token is live
  login,     \* the requests that sign in
  work,      \* requests and calls, with their local variables
  mutations, \* Store.Mutations and the lock on the table administrators: its holder
  cancelled, \* work whose context was cancelled
  withdrawn, \* history: work whose credential a change has withdrawn
  changes    \* bound: changes so far

tables == <<account, session, identity>>
vars == <<tables, login, work, mutations, cancelled, withdrawn, changes>>

Work == Requests \union Calls
Roles == {"super", "ordinary"}
Accounts == [role: Roles, enabled: BOOLEAN, password: Nat, version: Nat,
             temporary: {"no", "yes", "expired"}]

NewAccount(role) == [role |-> role, enabled |-> TRUE, password |-> 1, version |-> 1,
                     temporary |-> "yes"]
Permanent(role) == [NewAccount(role) EXCEPT !.temporary = "no"]
Idle == [stage |-> "idle", who |-> Nothing, session |-> Nothing, version |-> 0,
         role |-> "ordinary", limited |-> FALSE, target |-> Nothing, keep |-> Nothing,
         row |-> Nothing]
SignedOut == [stage |-> "idle", who |-> Nothing, password |-> 0, version |-> 0]

SessionRecords == [who: Administrators, version: Nat, password: Nat]
LoginRecords == [stage: {"idle", "verified", "issuing"}, password: Nat,
                 who: Administrators \union {Nothing}, version: Nat]
WorkRecords == [stage: {"idle", "arrived", "registered", "running",
                        "updating", "cancel requests", "cancel calls"},
                who: Administrators \union {Nothing}, session: Sessions \union {Nothing},
                version: Nat, role: Roles, limited: BOOLEAN,
                target: Administrators \union {Nothing}, keep: Sessions \union {Nothing},
                row: Accounts \union {Nothing}]

\* nil is no row of a table, no key and no request; console and configuration MCP are
\* apart.
ASSUME NothingIsNothing ==
  Nothing \notin Administrators \union Accounts \union Sessions \union SessionRecords
                   \union Work
ASSUME WorkIsApart == Requests \intersect Calls = {}
ASSUME MaxChangesNatural == MaxChanges \in Nat

\* The values are of their types, and only an update holds Store.Mutations across steps.
TypeOK ==
  /\ account \in [Administrators -> Accounts \union {Nothing}]
  /\ session \in [Sessions -> SessionRecords \union {Nothing}]
  /\ identity \in [Administrators -> [revision: Nat, live: BOOLEAN]]
  /\ login \in [Logins -> LoginRecords]
  /\ work \in [Work -> WorkRecords]
  /\ mutations \in Work \union {Nothing}
  /\ mutations # Nothing => work[mutations].stage = "updating"
  /\ cancelled \subseteq Work /\ withdrawn \subseteq Work
  /\ changes \in 0..MaxChanges

(***************************************************************************)
(* Credentials                                                             *)
(***************************************************************************)
\* Administrator.Active
Active(a) ==
  /\ account[a] # Nothing
  /\ account[a].enabled /\ account[a].temporary # "expired"

\* configurationOwnerActive
TokenActive(a) ==
  /\ identity[a].live
  /\ Active(a) /\ account[a].temporary = "no"

\* AdministratorSession
Usable(s) ==
  /\ session[s] # Nothing
  /\ Active(session[s].who) /\ account[session[s].who].version = session[s].version

\* CredentialValid of a request and of a call
Valid(w) ==
  IF w \in Requests
  THEN Usable(work[w].session) /\ session[work[w].session].version = work[w].version
  ELSE TokenActive(work[w].who) /\ identity[work[w].who].revision = work[w].version

\* CheckConfigurationContext, first the context and then the credential.
Checked(w) == w \notin cancelled /\ Valid(w)

Founded ==
  {f \in [Administrators -> {NewAccount(r) : r \in Roles} \union {Nothing} \union
                              {Permanent(r) : r \in Roles}] :
     \/ \A a \in Administrators : f[a] = Nothing
     \/ \E a \in Administrators : f[a] = Permanent("super")}

\* Before the setup, or with accounts that have not signed in yet.
Init ==
  /\ account \in Founded
  /\ session = [s \in Sessions |-> Nothing]
  /\ identity = [a \in Administrators |-> [revision |-> 1, live |-> FALSE]]
  /\ login = [l \in Logins |-> SignedOut]
  /\ work = [w \in Work |-> Idle]
  /\ mutations = Nothing
  /\ cancelled = {} /\ withdrawn = {}
  /\ changes = 0

(***************************************************************************)
(* Signing in                                                              *)
(***************************************************************************)
SetLogin(l, value) ==
  /\ login' = [login EXCEPT ![l] = value]
  /\ UNCHANGED <<account, identity, work, mutations, cancelled, withdrawn, changes>>

\* setup: the first account, with which its owner is signed in.
Setup(l, a) ==
  /\ login[l].stage = "idle"
  /\ \A b \in Administrators : account[b] = Nothing
  /\ account' = [account EXCEPT ![a] = Permanent("super")]
  /\ login' = [login EXCEPT ![l] = [stage |-> "verified", who |-> a, password |-> 1,
                                    version |-> 0]]
  /\ UNCHANGED <<session, identity, work, mutations, cancelled, withdrawn, changes>>

\* login: the password is right and the account active.
Verify(l, a) ==
  /\ login[l].stage = "idle" /\ Active(a)
  /\ SetLogin(l, [stage |-> "verified", who |-> a, password |-> account[a].password,
                  version |-> 0])
  /\ UNCHANGED session

\* The lock on an account's row: FOR UPDATE holds it up to the end of the transaction.
RowLocked(a) == \E l \in Logins : login[l].stage = "issuing" /\ login[l].who = a

\* Sensitivity variant: the account is read again, but not its password.
LockRowTrusting(l) ==
  LET a == login[l].who IN
  /\ login[l].stage = "verified" /\ ~RowLocked(a) /\ Active(a)
  /\ SetLogin(l, [login[l] EXCEPT !.stage = "issuing", !.version = account[a].version])
  /\ UNCHANGED session

\* CreateAdministratorSession, up to its first statement.
LockRow(l) ==
  LET a == login[l].who IN
  /\ login[l].stage = "verified" /\ ~RowLocked(a)
  /\ Active(a) /\ account[a].password = login[l].password
  /\ SetLogin(l, [login[l] EXCEPT !.stage = "issuing", !.version = account[a].version])
  /\ UNCHANGED session

\* The rest of it: updating last_login_at waits for the lock on the table.
IssueSession(l, s) ==
  /\ login[l].stage = "issuing" /\ mutations = Nothing
  /\ session[s] = Nothing /\ \A w \in Requests : work[w].session # s
  /\ session' = [session EXCEPT ![s] = [who |-> login[l].who, version |-> login[l].version,
                                        password |-> login[l].password]]
  /\ SetLogin(l, SignedOut)

\* Any statement fails, or the database ends a cycle of waiting transactions.
LoginFails(l) ==
  /\ login[l].stage # "idle"
  /\ SetLogin(l, SignedOut)
  /\ UNCHANGED session

\* logout, the expiry of a session, or a login whose audit record cannot be written.  While
\* a request uses the session, its end would only refuse that request further steps.
EndSession(s) ==
  /\ session[s] # Nothing
  /\ \A w \in Requests : work[w].session # s
  /\ session' = [session EXCEPT ![s] = Nothing]
  /\ UNCHANGED <<account, identity, login, work, mutations, cancelled, withdrawn, changes>>

\* A temporary password that was not replaced in time.
Lapse(a) ==
  /\ account[a] # Nothing
  /\ account[a].temporary = "yes"
  /\ account' = [account EXCEPT ![a].temporary = "expired"]
  /\ UNCHANGED <<session, identity, login, work, mutations, cancelled, withdrawn, changes>>

(***************************************************************************)
(* Requests and calls up to their work                                     *)
(***************************************************************************)
SetWork(w, value) ==
  /\ work' = [work EXCEPT ![w] = value]
  /\ UNCHANGED <<tables, login, mutations, cancelled, withdrawn, changes>>

Step(w, from, to) == work[w].stage = from /\ SetWork(w, [work[w] EXCEPT !.stage = to])

\* adminSession: the session and its account are read before the request registers.
Arrive(w, s) ==
  /\ work[w].stage = "idle" /\ Usable(s)
  /\ LET a == session[s].who IN
     SetWork(w, [Idle EXCEPT !.stage = "arrived", !.who = a, !.session = s,
                             !.version = account[a].version, !.role = account[a].role,
                             !.limited = account[a].temporary # "no"])

\* The configuration endpoint looks its token up.
Present(c, a) ==
  /\ work[c].stage = "idle" /\ TokenActive(a)
  /\ SetWork(c, [Idle EXCEPT !.stage = "arrived", !.who = a,
                             !.version = identity[a].revision])

Registered == {w \in Work : work[w].stage \notin {"idle", "arrived"}}
Jobs(a) == {c \in Calls \cap Registered : work[c].who = a}

\* startConfigurationCall, under configurationMu.
Admitted(c) ==
  /\ Valid(c)
  /\ Cardinality(Jobs(work[c].who)) < MaxPerIdentity
  /\ Cardinality(Calls \cap Registered) < MaxCalls

\* Sensitivity variant: what was checked on arrival is not checked again.
RegisterUnchecked(w) == Step(w, "arrived", "registered")

\* administratorContext registers a request, startConfigurationCall a call; then the first
\* half of CheckConfigurationContext, which reads the session or the identity ...
Register(w) ==
  /\ Step(w, "arrived", "registered")
  /\ IF w \in Requests THEN session[work[w].session] # Nothing ELSE Admitted(w)

\* ... and the second half, which reads the account.
Recheck(w) ==
  /\ Step(w, "registered", "running")
  /\ Active(work[w].who)
  /\ IF w \in Requests THEN account[work[w].who].version = work[w].version
                       ELSE account[work[w].who].temporary = "no"

\* The job is removed from its map.
End(w, jobs) ==
  /\ work' = [work EXCEPT ![w] = Idle]
  /\ cancelled' = jobs \ {w} /\ withdrawn' = withdrawn \ {w}

\* A refusal, an error or the end: a handler that has changed something goes on to cancel.
Return(w) ==
  /\ work[w].stage \notin {"idle", "cancel requests", "cancel calls"}
  /\ End(w, cancelled)
  /\ mutations' = IF mutations = w THEN Nothing ELSE mutations
  /\ UNCHANGED <<tables, login, changes>>

(***************************************************************************)
(* Changes under Store.Mutations                                           *)
(***************************************************************************)
Doomed(a, keep) == {s \in Sessions : session[s] # Nothing /\ session[s].who = a /\ s # keep}
WithoutSessions(S) == [s \in Sessions |-> IF s \in S THEN Nothing ELSE session[s]]
Using(S) == {w \in Requests : work[w].session \in S}
CallsOf(a) == {c \in Calls : work[c].who = a}
Revised(a, live) == [identity EXCEPT ![a] = [revision |-> @.revision + 1, live |-> live]]

\* Checked in the critical section; a temporary password only lets its owner change it.
MayChange(w) ==
  /\ work[w].stage = "running" /\ mutations = Nothing
  /\ Checked(w) /\ ~work[w].limited

MayAdminister(w) ==
  /\ w \in Requests /\ MayChange(w) /\ work[w].role = "super"
  /\ changes < MaxChanges

\* The handler of w goes on at stage, with what it has to cancel.
GoOn(w, stage, a, keep) ==
  work' = [work EXCEPT ![w].stage = stage, ![w].target = a, ![w].keep = keep,
                       ![w].row = Nothing]

\* Every other handler that changes the configuration.
Mutate(w) ==
  /\ MayChange(w)
  /\ End(w, cancelled)
  /\ UNCHANGED <<tables, login, mutations, changes>>

CreateAdministrator(w, a, role) ==
  /\ MayAdminister(w) /\ account[a] = Nothing
  /\ account' = [account EXCEPT ![a] = NewAccount(role)]
  /\ End(w, cancelled)
  /\ changes' = changes + 1
  /\ UNCHANGED <<session, identity, login, mutations>>

\* Sensitivity variant: a change of the role withdraws nothing, as it is read on arrival.
WithdrawsAccess(old, new) == old.enabled # new.enabled

\* Whether an update withdraws what the account holds: not if only its name is edited.
Withdraws(old, new) == old.role # new.role \/ old.enabled # new.enabled

EnabledSupers ==
  {a \in Administrators :
     account[a] # Nothing /\ account[a].enabled /\ account[a].role = "super"}

\* UpdateAdministrator, from the lock on the table to the account's row.  Only the name of
\* one's own account can be edited.
LockTable(w, a, row) ==
  /\ a = work[w].who => row.enabled /\ row.role = account[a].role
  /\ mutations' = w
  /\ work' = [work EXCEPT ![w].stage = "updating", ![w].target = a, ![w].row = row]
  /\ UNCHANGED <<tables, login, cancelled, withdrawn, changes>>

\* Sensitivity variant: the caller and the number of super administrators are checked
\* before the lock is taken.
StartUpdateUnchecked(w, a, row) ==
  /\ w \in Requests /\ work[w].stage = "running"
  /\ work[w].role = "super" /\ ~work[w].limited
  /\ mutations = Nothing /\ changes < MaxChanges
  /\ LockTable(w, a, row)

StartUpdate(w, a, row) ==
  /\ MayAdminister(w)
  /\ (a \in EnabledSupers /\ (row.role # "super" \/ ~row.enabled))
       => Cardinality(EnabledSupers) > 1
  /\ LockTable(w, a, row)

\* The rest of it: the row is updated once no login holds it.
CommitUpdate(w) ==
  LET a == work[w].target
      row == work[w].row
      old == account[a]
      withdraws == Withdraws(old, row)
  IN
  /\ work[w].stage = "updating" /\ ~RowLocked(a)
  /\ account' = [account EXCEPT ![a].role = row.role, ![a].enabled = row.enabled,
                                ![a].version = IF withdraws THEN @ + 1 ELSE @]
  /\ IF withdraws
     THEN /\ session' = WithoutSessions(Doomed(a, Nothing))
          /\ identity' = Revised(a, FALSE)
          /\ withdrawn' = withdrawn \union Using(Doomed(a, Nothing)) \union CallsOf(a)
          /\ GoOn(w, "cancel requests", a, Nothing)
          /\ UNCHANGED cancelled
     ELSE /\ UNCHANGED <<session, identity>>
          /\ End(w, cancelled)
  /\ mutations' = Nothing
  /\ changes' = changes + 1
  /\ UNCHANGED login

ResetPassword(w, a) ==
  /\ MayAdminister(w) /\ account[a] # Nothing /\ a # work[w].who /\ ~RowLocked(a)
  /\ account' = [account EXCEPT ![a].password = @ + 1, ![a].temporary = "yes",
                                ![a].version = @ + 1]
  /\ session' = WithoutSessions(Doomed(a, Nothing))
  /\ identity' = Revised(a, FALSE)
  /\ withdrawn' = withdrawn \union Using(Doomed(a, Nothing)) \union CallsOf(a)
  /\ GoOn(w, "cancel requests", a, Nothing)
  /\ changes' = changes + 1
  /\ UNCHANGED <<login, mutations, cancelled>>

\* The owner's own change: this session stays, the others go.
ChangePassword(w) ==
  LET a == work[w].who
      keep == work[w].session
  IN
  /\ w \in Requests /\ work[w].stage = "running" /\ mutations = Nothing
  /\ Checked(w) /\ ~RowLocked(a)
  /\ changes < MaxChanges
  /\ account' = [account EXCEPT ![a].password = @ + 1, ![a].temporary = "no"]
  /\ session' = [WithoutSessions(Doomed(a, keep)) EXCEPT
                    ![keep].password = account'[a].password]
  /\ withdrawn' = withdrawn \union Using(Doomed(a, keep))
  /\ GoOn(w, "cancel requests", a, keep)
  /\ changes' = changes + 1
  /\ UNCHANGED <<identity, login, mutations, cancelled>>

SetToken(w, a, live) ==
  /\ identity' = Revised(a, live)
  /\ withdrawn' = withdrawn \union CallsOf(a)
  /\ GoOn(w, "cancel calls", a, Nothing)
  /\ changes' = changes + 1
  /\ UNCHANGED <<account, session, login, mutations, cancelled>>

\* createConfigurationAgent: a first token or a rotation, by the owner.
IssueToken(w) ==
  /\ w \in Requests /\ MayChange(w) /\ changes < MaxChanges
  /\ Active(work[w].who) /\ account[work[w].who].temporary = "no"
  /\ SetToken(w, work[w].who, TRUE)

\* revokeConfigurationAgent: by the owner or a super administrator.  Revoking where there
\* is no token is left out.
RevokeToken(w, a) ==
  /\ w \in Requests /\ MayChange(w) /\ changes < MaxChanges
  /\ identity[a].live /\ (a = work[w].who \/ work[w].role = "super")
  /\ SetToken(w, a, FALSE)

\* Its time passes, which is the deadline of its calls as well.
ExpireToken(a) ==
  /\ identity[a].live
  /\ identity' = [identity EXCEPT ![a].live = FALSE]
  /\ cancelled' = cancelled \union Jobs(a)
  /\ UNCHANGED <<account, session, login, work, mutations, withdrawn, changes>>

RequestsOf(a, keep) ==
  {r \in Requests \cap Registered : work[r].who = a /\ work[r].session # keep}

\* cancelAdministrator: first under administratorMu, which is all for a kept session ...
CancelRequests(w) ==
  LET jobs == cancelled \union RequestsOf(work[w].target, work[w].keep) IN
  /\ work[w].stage = "cancel requests"
  /\ IF work[w].keep = Nothing
     THEN /\ work' = [work EXCEPT ![w].stage = "cancel calls"]
          /\ cancelled' = jobs
          /\ UNCHANGED withdrawn
     ELSE End(w, jobs)
  /\ UNCHANGED <<tables, login, mutations, changes>>

\* ... then under configurationMu, as cancelConfigurationIdentity.
CancelCalls(w) ==
  /\ work[w].stage = "cancel calls"
  /\ End(w, cancelled \union Jobs(work[w].target))
  /\ UNCHANGED <<tables, login, mutations, changes>>

Edited(row, r, e) == [row EXCEPT !.role = r, !.enabled = e]
Rows(a) == {Edited(account[a], r, e) : r \in Roles, e \in BOOLEAN}

Next ==
  \/ \E l \in Logins :
       \/ \E a \in Administrators : Setup(l, a) \/ Verify(l, a)
       \/ LockRow(l)
       \/ \E s \in Sessions : IssueSession(l, s)
       \/ LoginFails(l)
  \/ \E s \in Sessions : EndSession(s)
  \/ \E a \in Administrators : Lapse(a) \/ ExpireToken(a)
  \/ \E r \in Requests, s \in Sessions : Arrive(r, s)
  \/ \E c \in Calls, a \in Administrators : Present(c, a)
  \/ \E w \in Work :
       \/ Register(w) \/ Recheck(w) \/ Return(w)
       \/ Mutate(w) \/ ChangePassword(w) \/ IssueToken(w)
       \/ CommitUpdate(w) \/ CancelRequests(w) \/ CancelCalls(w)
       \/ \E a \in Administrators :
            \/ ResetPassword(w, a) \/ RevokeToken(w, a)
            \/ \E role \in Roles : CreateAdministrator(w, a, role)
            \/ account[a] # Nothing /\ \E row \in Rows(a) : StartUpdate(w, a, row)

Spec == Init /\ [][Next]_vars

(***************************************************************************)
(* Properties                                                              *)
(***************************************************************************)
\* Cancellations that the handler of a change has still to carry out for w.
Owed(w) ==
  \E v \in Work :
    /\ work[v].target = work[w].who
    /\ \/ work[v].stage = "cancel requests"
       \/ w \in Calls /\ work[v].stage = "cancel calls"

\* A request or call whose session or token was withdrawn, before or after it registered,
\* does not run on: its context is cancelled (administrators.go: administratorContext,
\* cancelAdministrator; configuration.go: startConfigurationCall).
WithdrawnWorkIsCancelled ==
  \A w \in withdrawn : work[w].stage = "running" /\ ~Owed(w) => w \in cancelled

\* A session that opens anything was created with the password the account has now, or is
\* the one its owner kept when changing it: a login that overlaps a change of the password
\* is refused (administrator_sessions.go: CreateAdministratorSession).
SessionsProvePassword ==
  \A s \in Sessions : Usable(s) => session[s].password = account[session[s].who].password

\* Whatever administrators do to each other at the same time, one enabled super
\* administrator with a password of his own remains (UpdateAdministrator,
\* ResetAdministratorPassword).
SuperAdministratorRemains ==
  (\E a \in Administrators : account[a] # Nothing) =>
    \E a \in EnabledSupers : account[a].temporary = "no"

Commits(w) == Mutate(w) \/ (changes' > changes /\ work'[w] # work[w])

\* Who changes anything holds a credential of an enabled account as it is at that moment,
\* and is a super administrator if it concerns another account, although the role was read
\* on arrival (server.go: requireAdmin; CheckConfigurationContext under Store.Mutations).
CommitsAreAuthorized ==
  [][\A w \in Work : Commits(w) =>
       LET me == account[work[w].who] IN
       /\ me.enabled
       /\ w \in Requests => me.version = work[w].version
       /\ w \in Calls => identity[work[w].who].revision = work[w].version
       /\ \A a \in Administrators \ {work[w].who} :
            account'[a] # account[a] => me.role = "super"]_vars
=============================================================================

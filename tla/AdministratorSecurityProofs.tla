--------------------- MODULE AdministratorSecurityProofs ---------------------
(***************************************************************************)
(* Machine-checked proofs about administrators, for any number of          *)
(* accounts, sessions, requests, calls and changes.                        *)
(*                                                                         *)
(* The properties are not inductive alone: that one super administrator    *)
(* remains depends on who may commit an update, which depends on what a    *)
(* request read on arrival still being true of its account unless the      *)
(* account's version moved; and that a session proves the password depends *)
(* on logins that hold the lock on the row.                                *)
(* The last part shows that withdrawn work is cancelled: a second          *)
(* invariant says who still owes it the cancellation.                      *)
(***************************************************************************)
EXTENDS AdministratorSecurity, TLAPS

\* An account's sessions, and a session about to be inserted, carry its version and its
\* password: whatever changes either deletes the sessions and waits for the row.
SessionInv(s) ==
  session[s] # Nothing =>
    LET owner == account[session[s].who] IN
    /\ owner # Nothing
    /\ session[s].version = owner.version /\ session[s].password = owner.password

LoginInv(l) ==
  login[l].stage # "idle" =>
    LET owner == account[login[l].who] IN
    /\ login[l].who \in Administrators /\ owner # Nothing
    /\ login[l].stage = "issuing" =>
         login[l].version = owner.version /\ login[l].password = owner.password

\* What a request read on arrival is what its account says, unless that got another version.
Snapshot(w) ==
  LET me == account[work[w].who] IN
  /\ work[w].session \in Sessions
  /\ session[work[w].session] # Nothing => session[work[w].session].who = work[w].who
  /\ work[w].version <= me.version
  /\ work[w].version = me.version =>
       work[w].role = me.role /\ (~work[w].limited => me.temporary = "no")

\* Who updates an account holds the mutex and stays a super administrator meanwhile.
Update(w) ==
  LET me == account[work[w].who] IN
  /\ w \in Requests /\ mutations = w
  /\ changes < MaxChanges
  /\ me.enabled /\ me.role = "super" /\ me.temporary = "no"
  /\ me.version = work[w].version
  /\ work[w].target \in Administrators /\ account[work[w].target] # Nothing
  /\ work[w].row \in Accounts
  /\ work[w].target = work[w].who => work[w].row.enabled /\ work[w].row.role = "super"

WorkInv(w) ==
  work[w].stage # "idle" =>
    /\ work[w].who \in Administrators /\ account[work[w].who] # Nothing
    /\ w \in Requests => Snapshot(w)
    /\ work[w].stage = "updating" => Update(w)

AdminInv ==
  /\ TypeOK
  /\ \A s \in Sessions : SessionInv(s)
  /\ \A l \in Logins : LoginInv(l)
  /\ \A w \in Work : WorkInv(w)
  /\ SuperAdministratorRemains

LEMMA OrderedNaturals ==
  \A i, j, k \in Nat : j <= k => (i <= j => i <= k) /\ (i < j => i < k)
  OBVIOUS

USE NothingIsNothing, WorkIsApart, MaxChangesNatural

LEMMA NewAccounts ==
  ASSUME NEW r \in Roles
  PROVE  /\ NewAccount(r) \in Accounts /\ Permanent(r) \in Accounts
         /\ Permanent(r).enabled /\ Permanent(r).role = r /\ Permanent(r).temporary = "no"
  BY DEF NewAccount, Permanent, Accounts, Roles

LEMMA InitInv == Init => AdminInv
  <1> SUFFICES ASSUME Init PROVE AdminInv
    OBVIOUS
  <1>1. account \in [Administrators -> Accounts \union {Nothing}]
    BY NewAccounts DEF Init, Founded
  <1>2. TypeOK
    BY <1>1 DEF Init, TypeOK, LoginRecords, WorkRecords, Idle, SignedOut, Roles, Work
  <1>3. SuperAdministratorRemains
    <2>1. Permanent("super").enabled /\ Permanent("super").role = "super"
          /\ Permanent("super").temporary = "no" /\ Permanent("super") # Nothing
      BY NewAccounts DEF Roles
    <2> QED
      BY <2>1 DEF Init, Founded, SuperAdministratorRemains, EnabledSupers
  <1> QED
    BY <1>2, <1>3 DEF Init, AdminInv, SessionInv, LoginInv, WorkInv, Idle, SignedOut

\* A request whose credential is valid acts for the account as it read it.
LEMMA ValidRequest ==
  ASSUME AdminInv, NEW w \in Requests, work[w].stage # "idle", Valid(w)
  PROVE  /\ session[work[w].session] \in SessionRecords
         /\ session[work[w].session].who = work[w].who
         /\ work[w].session \in Sessions
         /\ work[w].who \in Administrators
         /\ account[work[w].who] \in Accounts
         /\ account[work[w].who].enabled
         /\ account[work[w].who].version = work[w].version
         /\ account[work[w].who].role = work[w].role
         /\ ~work[w].limited => account[work[w].who].temporary = "no"
  <1>1. /\ w \in Work /\ WorkInv(w) /\ Snapshot(w)
        /\ work[w].session \in Sessions /\ work[w].who \in Administrators
        /\ account[work[w].who] # Nothing
    BY DEF AdminInv, WorkInv, Work, Snapshot
  <1>2. /\ session[work[w].session] # Nothing
        /\ Active(session[work[w].session].who)
        /\ account[session[work[w].session].who].version = session[work[w].session].version
        /\ session[work[w].session].version = work[w].version
    BY DEF Valid, Usable
  <1>3. session[work[w].session] \in SessionRecords /\ account[work[w].who] \in Accounts
    BY <1>1, <1>2 DEF AdminInv, TypeOK
  <1>4. session[work[w].session].who = work[w].who
    BY <1>1, <1>2 DEF Snapshot
  <1> QED
    BY <1>1, <1>2, <1>3, <1>4 DEF Snapshot, Active

LEMMA NobodyUpdates ==
  ASSUME AdminInv, mutations = Nothing
  PROVE  \A w \in Work : work[w].stage # "updating"
  BY DEF AdminInv, WorkInv, Update

LEMMA IdleTyped == Idle \in WorkRecords /\ Idle.stage = "idle"
  BY DEF Idle, WorkRecords, Roles

LEMMA SignedOutTyped == SignedOut \in LoginRecords /\ SignedOut.stage = "idle"
  BY DEF SignedOut, LoginRecords

\* What the handler of w keeps when it goes on to its cancellations.
LEMMA GoOnTyped ==
  ASSUME TypeOK, NEW w \in Work, NEW stage \in {"cancel requests", "cancel calls"},
         NEW a \in Administrators, NEW keep \in Sessions \union {Nothing},
         GoOn(w, stage, a, keep)
  PROVE  /\ work' \in [Work -> WorkRecords]
         /\ \A v \in Work \ {w} : work'[v] = work[v]
         /\ work'[w].stage = stage /\ work'[w].target = a /\ work'[w].keep = keep
         /\ work'[w].who = work[w].who /\ work'[w].session = work[w].session
         /\ work'[w].version = work[w].version /\ work'[w].role = work[w].role
         /\ work'[w].limited = work[w].limited
  <1>1. work[w] \in WorkRecords
    BY DEF TypeOK
  <1>2. [work[w] EXCEPT !.stage = stage, !.target = a, !.keep = keep, !.row = Nothing]
          \in WorkRecords
    BY <1>1 DEF WorkRecords
  <1>3. work' = [work EXCEPT ![w] = [work[w] EXCEPT !.stage = stage, !.target = a,
                                                    !.keep = keep, !.row = Nothing]]
    BY DEF GoOn, TypeOK
  <1> QED
    BY <1>1, <1>2, <1>3 DEF TypeOK, WorkRecords

LEMMA OneMoreChange ==
  ASSUME TypeOK, changes < MaxChanges, changes' = changes + 1
  PROVE  changes' \in 0..MaxChanges
  <1>1. changes \in 0..MaxChanges
    BY DEF TypeOK
  <1> QED
    BY <1>1

\* Changing an account's fields leaves an account.
LEMMA AccountTyped ==
  ASSUME NEW old \in Accounts, NEW n \in Nat, NEW v \in Nat, NEW r \in Roles,
         NEW e \in BOOLEAN, NEW t \in {"no", "yes", "expired"}
  PROVE  [old EXCEPT !.role = r, !.enabled = e, !.version = v, !.password = n,
                     !.temporary = t] \in Accounts
  BY DEF Accounts

LEMMA IdentityTyped ==
  ASSUME TypeOK, NEW a \in Administrators, NEW live \in BOOLEAN
  PROVE  Revised(a, live) \in [Administrators -> [revision: Nat, live: BOOLEAN]]
  BY DEF TypeOK, Revised

LEMMA SessionsTyped ==
  ASSUME TypeOK, NEW S
  PROVE  WithoutSessions(S) \in [Sessions -> SessionRecords \union {Nothing}]
  BY DEF TypeOK, WithoutSessions

(***************************************************************************)
(* Steps that change no account, session or login                          *)
(***************************************************************************)
SameCaller(w) ==
  /\ work'[w].who = work[w].who /\ work'[w].session = work[w].session
  /\ work'[w].version = work[w].version /\ work'[w].role = work[w].role
  /\ work'[w].limited = work[w].limited

\* Such a step of w concerns nobody else, unless it took the mutex from an update.
LEMMA QuietStep ==
  ASSUME AdminInv, TypeOK', UNCHANGED <<account, session, login>>,
         NEW w \in Work, WorkInv(w)',
         \A v \in Work \ {w} :
           /\ work'[v] = work[v]
           /\ work[v].stage = "updating" => mutations' = mutations /\ changes' = changes
  PROVE  AdminInv'
  <1>1. \A s \in Sessions : SessionInv(s)'
    BY DEF AdminInv, SessionInv
  <1>2. \A l \in Logins : LoginInv(l)'
    BY DEF AdminInv, LoginInv
  <1>3. \A v \in Work : WorkInv(v)'
    BY DEF AdminInv, WorkInv, Snapshot, Update
  <1>4. SuperAdministratorRemains'
    BY DEF AdminInv, SuperAdministratorRemains, EnabledSupers
  <1> QED
    BY <1>1, <1>2, <1>3, <1>4 DEF AdminInv

LEMMA MovedOn ==
  ASSUME AdminInv, UNCHANGED <<account, session>>,
         NEW w \in Work, work[w].stage # "idle", SameCaller(w), work'[w].stage # "updating"
  PROVE  WorkInv(w)'
  BY DEF AdminInv, WorkInv, Snapshot, SameCaller

LEMMA Ended ==
  ASSUME AdminInv, NEW w \in Work, NEW jobs \in SUBSET Work, End(w, jobs)
  PROVE  /\ work' \in [Work -> WorkRecords] /\ WorkInv(w)'
         /\ \A v \in Work \ {w} : work'[v] = work[v]
         /\ cancelled' \subseteq Work /\ withdrawn' \subseteq Work
         /\ work'[w].stage = "idle"
  BY IdleTyped DEF AdminInv, TypeOK, End, WorkInv

LEMMA ArriveStep ==
  ASSUME AdminInv, NEW w \in Requests, NEW s \in Sessions, Arrive(w, s)
  PROVE  AdminInv'
  <1> DEFINE a == session[s].who
             new == [Idle EXCEPT !.stage = "arrived", !.who = a, !.session = s,
                             !.version = account[a].version, !.role = account[a].role,
                             !.limited = account[a].temporary # "no"]
  <1>1. /\ w \in Work /\ session[s] \in SessionRecords /\ a \in Administrators
        /\ account[a] \in Accounts /\ account[a] # Nothing
    BY DEF Arrive, Usable, Active, AdminInv, TypeOK, Work, SessionRecords
  <1>2. new \in WorkRecords
    BY <1>1, IdleTyped DEF WorkRecords, Accounts
  <1>3. /\ new.stage = "arrived" /\ new.who = a /\ new.session = s
        /\ new.version = account[a].version /\ new.role = account[a].role
        /\ new.limited = (account[a].temporary # "no")
    BY DEF Idle
  <1>4. /\ work' = [work EXCEPT ![w] = new]
        /\ UNCHANGED <<tables, login, mutations, cancelled, withdrawn, changes>>
        /\ work[w].stage = "idle"
    BY DEF Arrive, SetWork
  <1> HIDE DEF new
  <1>5. work'[w] = new /\ \A v \in Work \ {w} : work'[v] = work[v]
    BY <1>1, <1>4 DEF AdminInv, TypeOK
  <1>6. TypeOK'
    BY <1>1, <1>2, <1>4, <1>5 DEF AdminInv, TypeOK, tables
  <1>7. new.version <= account[a].version
    BY <1>1, <1>3 DEF Accounts
  <1>8. WorkInv(w)'
    BY <1>1, <1>3, <1>4, <1>5, <1>7 DEF WorkInv, Snapshot, tables
  <1> QED
    BY <1>1, <1>4, <1>5, <1>6, <1>8, QuietStep DEF tables

LEMMA PresentStep ==
  ASSUME AdminInv, NEW w \in Calls, NEW a \in Administrators, Present(w, a)
  PROVE  AdminInv'
  <1> DEFINE new == [Idle EXCEPT !.stage = "arrived", !.who = a,
                                 !.version = identity[a].revision]
  <1>1. /\ w \in Work /\ w \notin Requests /\ account[a] # Nothing
        /\ identity[a].revision \in Nat
    BY DEF Present, TokenActive, Active, AdminInv, TypeOK, Work
  <1>2. new \in WorkRecords /\ new.stage = "arrived" /\ new.who = a
    BY <1>1 DEF Idle, WorkRecords, Roles
  <1>3. /\ work' = [work EXCEPT ![w] = new]
        /\ UNCHANGED <<tables, login, mutations, cancelled, withdrawn, changes>>
        /\ work[w].stage = "idle"
    BY DEF Present, SetWork
  <1> HIDE DEF new
  <1>4. work'[w] = new /\ \A v \in Work \ {w} : work'[v] = work[v]
    BY <1>1, <1>3 DEF AdminInv, TypeOK
  <1>5. TypeOK'
    BY <1>1, <1>2, <1>3, <1>4 DEF AdminInv, TypeOK, tables
  <1>6. WorkInv(w)'
    BY <1>1, <1>2, <1>3, <1>4 DEF WorkInv, tables
  <1> QED
    BY <1>1, <1>3, <1>4, <1>5, <1>6, QuietStep DEF tables

LEMMA AdvanceStep ==
  ASSUME AdminInv, NEW w \in Work, Register(w) \/ Recheck(w)
  PROVE  AdminInv'
  <1>1. PICK to \in {"registered", "running"} :
          /\ work[w].stage \in {"arrived", "registered"}
          /\ SetWork(w, [work[w] EXCEPT !.stage = to])
    BY DEF Register, Recheck, Step
  <1>2. work[w] \in WorkRecords
    BY DEF AdminInv, TypeOK
  <1>3. [work[w] EXCEPT !.stage = to] \in WorkRecords
    BY <1>2 DEF WorkRecords
  <1>4. /\ work'[w] = [work[w] EXCEPT !.stage = to]
        /\ \A v \in Work \ {w} : work'[v] = work[v]
        /\ work' \in [Work -> WorkRecords]
    BY <1>1, <1>3 DEF SetWork, AdminInv, TypeOK
  <1>5. SameCaller(w) /\ work'[w].stage = to
    BY <1>2, <1>4 DEF SameCaller, WorkRecords
  <1>6. TypeOK'
    <2>1. mutations # Nothing => mutations # w
      BY <1>1 DEF AdminInv, TypeOK
    <2> QED
      BY <1>1, <1>4, <2>1 DEF AdminInv, TypeOK, SetWork, tables
  <1>7. WorkInv(w)'
    BY <1>1, <1>5, MovedOn DEF SetWork, tables
  <1> QED
    BY <1>1, <1>4, <1>6, <1>7, QuietStep DEF SetWork, tables

\* A handler that returns gives the mutex back if it is the one that holds it.
LEMMA ReturnStep ==
  ASSUME AdminInv, NEW w \in Work, Return(w) \/ Mutate(w)
  PROVE  AdminInv'
  <1>1. End(w, cancelled) /\ UNCHANGED <<tables, login, changes>>
        /\ \/ Return(w) /\ mutations' = IF mutations = w THEN Nothing ELSE mutations
           \/ mutations' = mutations /\ work[w].stage = "running"
    BY DEF Return, Mutate, MayChange
  <1>2. cancelled \in SUBSET Work
    BY DEF AdminInv, TypeOK
  <1>3. /\ work' \in [Work -> WorkRecords] /\ WorkInv(w)'
        /\ \A v \in Work \ {w} : work'[v] = work[v]
        /\ cancelled' \subseteq Work /\ withdrawn' \subseteq Work
    BY <1>1, <1>2, Ended
  <1>4. \A v \in Work \ {w} :
          work[v].stage = "updating" => mutations' = mutations /\ changes' = changes
    BY <1>1 DEF AdminInv, WorkInv, Update
  <1>5. TypeOK'
    <2>1. mutations' # Nothing => mutations' # w
      BY <1>1 DEF AdminInv, TypeOK
    <2> QED
      BY <1>1, <1>3, <2>1 DEF AdminInv, TypeOK, tables
  <1> QED
    BY <1>1, <1>3, <1>4, <1>5, QuietStep DEF tables

LEMMA CancelStep ==
  ASSUME AdminInv, NEW w \in Work, CancelRequests(w) \/ CancelCalls(w)
  PROVE  AdminInv'
  <1>1. UNCHANGED <<tables, login, mutations, changes>>
    BY DEF CancelRequests, CancelCalls
  <1>2. mutations # Nothing => mutations # w
    BY DEF CancelRequests, CancelCalls, AdminInv, TypeOK
  <1>3. CASE \E jobs \in SUBSET Work : End(w, jobs)
    <2>1. /\ work' \in [Work -> WorkRecords] /\ WorkInv(w)'
          /\ \A v \in Work \ {w} : work'[v] = work[v]
          /\ cancelled' \subseteq Work /\ withdrawn' \subseteq Work
      BY <1>3, Ended
    <2>2. TypeOK'
      BY <1>1, <1>2, <2>1 DEF AdminInv, TypeOK, tables
    <2> QED
      BY <1>1, <2>1, <2>2, QuietStep DEF tables
  <1>4. CASE /\ work[w].stage = "cancel requests"
             /\ work' = [work EXCEPT ![w].stage = "cancel calls"]
             /\ cancelled' \in SUBSET Work /\ UNCHANGED withdrawn
    <2>1. work[w] \in WorkRecords
      BY DEF AdminInv, TypeOK
    <2>2. [work[w] EXCEPT !.stage = "cancel calls"] \in WorkRecords
      BY <2>1 DEF WorkRecords
    <2>3. /\ work'[w] = [work[w] EXCEPT !.stage = "cancel calls"]
          /\ \A v \in Work \ {w} : work'[v] = work[v]
          /\ work' \in [Work -> WorkRecords]
      BY <1>4, <2>2 DEF AdminInv, TypeOK
    <2>4. SameCaller(w) /\ work'[w].stage = "cancel calls"
      BY <2>1, <2>3 DEF SameCaller, WorkRecords
    <2>5. TypeOK'
      BY <1>1, <1>2, <1>4, <2>3 DEF AdminInv, TypeOK, tables
    <2>6. WorkInv(w)'
      BY <1>1, <1>4, <2>4, MovedOn DEF tables
    <2> QED
      BY <1>1, <2>3, <2>5, <2>6, QuietStep DEF tables
  <1>5. cancelled \subseteq Work
    BY DEF AdminInv, TypeOK
  <1>6. cancelled \union RequestsOf(work[w].target, work[w].keep) \in SUBSET Work
    BY <1>5 DEF RequestsOf, Work
  <1>7. cancelled \union Jobs(work[w].target) \in SUBSET Work
    BY <1>5 DEF Jobs, Work
  <1>8. CASE CancelRequests(w)
    BY <1>3, <1>4, <1>6, <1>8 DEF CancelRequests
  <1>9. CASE CancelCalls(w)
    BY <1>3, <1>7, <1>9 DEF CancelCalls
  <1> QED
    BY <1>8, <1>9

\* Issuing and revoking tokens changes no account.
LEMMA TokenStep ==
  ASSUME AdminInv, NEW w \in Work,
         IssueToken(w) \/ \E a \in Administrators : RevokeToken(w, a)
  PROVE  AdminInv'
  <1>1. /\ w \in Requests /\ work[w].stage = "running" /\ mutations = Nothing
        /\ changes < MaxChanges
    BY DEF IssueToken, RevokeToken, MayChange
  <1>2. work[w].who \in Administrators
    BY <1>1 DEF AdminInv, WorkInv
  <1>3. PICK a \in Administrators, live \in BOOLEAN : SetToken(w, a, live)
    BY <1>2 DEF IssueToken, RevokeToken
  <1>4. TypeOK
    BY DEF AdminInv
  <1>5. /\ work' \in [Work -> WorkRecords]
        /\ \A v \in Work \ {w} : work'[v] = work[v]
        /\ work'[w].stage = "cancel calls" /\ SameCaller(w)
    BY <1>3, <1>4, GoOnTyped DEF SetToken, SameCaller
  <1>6. identity' \in [Administrators -> [revision: Nat, live: BOOLEAN]]
    BY <1>3, <1>4, IdentityTyped DEF SetToken
  <1>7. TypeOK'
    <2>1. changes' \in 0..MaxChanges
      BY <1>1, <1>3, <1>4, OneMoreChange DEF SetToken
    <2>2. withdrawn' \subseteq Work
      BY <1>3, <1>4 DEF TypeOK, SetToken, CallsOf, Work
    <2> QED
      BY <1>1, <1>3, <1>4, <1>5, <1>6, <2>1, <2>2 DEF TypeOK, SetToken
  <1>8. WorkInv(w)'
    BY <1>1, <1>3, <1>5, MovedOn DEF SetToken
  <1>9. \A v \in Work : work[v].stage # "updating"
    BY <1>1, NobodyUpdates
  <1> QED
    BY <1>3, <1>5, <1>7, <1>8, <1>9, QuietStep DEF SetToken

\* An update starts with the mutex free, for a valid super administrator.
LEMMA StartUpdateStep ==
  ASSUME AdminInv, NEW w \in Work, NEW a \in Administrators, account[a] # Nothing,
         NEW row \in Rows(a), StartUpdate(w, a, row)
  PROVE  AdminInv'
  <1>1. /\ w \in Requests /\ work[w].stage = "running" /\ mutations = Nothing
        /\ Valid(w) /\ ~work[w].limited /\ work[w].role = "super"
        /\ changes < MaxChanges
    BY DEF StartUpdate, MayAdminister, MayChange, Checked
  <1>2. /\ account[work[w].who].enabled /\ account[work[w].who].role = "super"
        /\ account[work[w].who].temporary = "no"
        /\ account[work[w].who].version = work[w].version
    BY <1>1, ValidRequest
  <1>3. row \in Accounts
    <2>1. account[a] \in Accounts
      BY DEF AdminInv, TypeOK
    <2>2. \A r \in Roles, e \in BOOLEAN : Edited(account[a], r, e) \in Accounts
      BY <2>1 DEF Edited, Accounts
    <2> QED
      BY <2>2 DEF Rows
  <1>4. work[w] \in WorkRecords
    BY DEF AdminInv, TypeOK
  <1>5. [work[w] EXCEPT !.stage = "updating", !.target = a, !.row = row] \in WorkRecords
    BY <1>3, <1>4 DEF WorkRecords
  <1>6. /\ work'[w] = [work[w] EXCEPT !.stage = "updating", !.target = a, !.row = row]
        /\ \A v \in Work \ {w} : work'[v] = work[v]
        /\ work' \in [Work -> WorkRecords]
    BY <1>5 DEF StartUpdate, LockTable, AdminInv, TypeOK
  <1>7. SameCaller(w) /\ work'[w].stage = "updating" /\ work'[w].target = a
        /\ work'[w].row = row
    BY <1>4, <1>6 DEF SameCaller, WorkRecords
  <1>8. /\ mutations' = w /\ UNCHANGED <<tables, login, cancelled, withdrawn, changes>>
        /\ a = work[w].who => row.enabled /\ row.role = account[a].role
    BY DEF StartUpdate, LockTable
  <1>9. TypeOK'
    BY <1>6, <1>7, <1>8 DEF AdminInv, TypeOK, tables
  <1>10. WorkInv(w)'
    BY <1>1, <1>2, <1>3, <1>7, <1>8
       DEF AdminInv, WorkInv, Snapshot, Update, SameCaller, tables
  <1>11. \A v \in Work \ {w} : work[v].stage # "updating"
    BY <1>1, NobodyUpdates
  <1> QED
    BY <1>6, <1>8, <1>9, <1>10, <1>11, QuietStep DEF tables

(***************************************************************************)
(* Logins, sessions and time                                               *)
(***************************************************************************)
\* A step of a login, or of the session it inserts, changes no account and no work.
LEMMA LoginStep ==
  ASSUME AdminInv, NEW l \in Logins, NEW new \in LoginRecords, SetLogin(l, new),
         LoginInv(l)',
         session' \in [Sessions -> SessionRecords \union {Nothing}],
         \A s \in Sessions : SessionInv(s)',
         \A w \in Requests : work[w].stage # "idle" =>
           session'[work[w].session] = session[work[w].session]
  PROVE  AdminInv'
  <1>1. \A k \in Logins \ {l} : login'[k] = login[k]
    BY DEF SetLogin, AdminInv, TypeOK
  <1>2. TypeOK'
    BY DEF SetLogin, AdminInv, TypeOK
  <1>3. \A k \in Logins : LoginInv(k)'
    BY <1>1 DEF SetLogin, AdminInv, LoginInv
  <1>4. \A w \in Work : WorkInv(w)'
    BY DEF SetLogin, AdminInv, WorkInv, Snapshot, Update
  <1>5. SuperAdministratorRemains'
    BY DEF SetLogin, AdminInv, SuperAdministratorRemains, EnabledSupers
  <1> QED
    BY <1>2, <1>3, <1>4, <1>5 DEF AdminInv

LEMMA VerifyStep ==
  ASSUME AdminInv, NEW l \in Logins, NEW a \in Administrators, Verify(l, a)
  PROVE  AdminInv'
  <1> DEFINE new == [stage |-> "verified", who |-> a, password |-> account[a].password,
                     version |-> 0]
  <1>1. account[a] # Nothing /\ account[a] \in Accounts
    BY DEF Verify, Active, AdminInv, TypeOK
  <1>2. new \in LoginRecords /\ new.stage = "verified" /\ new.who = a
    BY <1>1 DEF LoginRecords, Accounts
  <1>3. SetLogin(l, new) /\ session' = session /\ account' = account
    BY DEF Verify, SetLogin
  <1> HIDE DEF new
  <1>4. login'[l] = new
    BY <1>3 DEF SetLogin, AdminInv, TypeOK
  <1>5. LoginInv(l)'
    BY <1>1, <1>2, <1>3, <1>4 DEF LoginInv
  <1>6. \A s \in Sessions : SessionInv(s)'
    BY <1>3 DEF AdminInv, SessionInv
  <1>7. session' \in [Sessions -> SessionRecords \union {Nothing}]
    BY <1>3 DEF AdminInv, TypeOK
  <1> QED
    BY <1>2, <1>3, <1>5, <1>6, <1>7, LoginStep

LEMMA LockRowStep ==
  ASSUME AdminInv, NEW l \in Logins, LockRow(l)
  PROVE  AdminInv'
  <1> DEFINE a == login[l].who
             new == [login[l] EXCEPT !.stage = "issuing", !.version = account[a].version]
  <1>1. /\ login[l] \in LoginRecords /\ a \in Administrators
        /\ account[a] # Nothing /\ account[a] \in Accounts
        /\ account[a].password = login[l].password
    BY DEF LockRow, Active, AdminInv, TypeOK, LoginInv
  <1>2. /\ new \in LoginRecords /\ new.stage = "issuing" /\ new.who = a
        /\ new.version = account[a].version /\ new.password = login[l].password
    BY <1>1 DEF LoginRecords, Accounts
  <1>3. SetLogin(l, new) /\ session' = session /\ account' = account
    BY DEF LockRow, SetLogin
  <1> HIDE DEF new
  <1>4. login'[l] = new
    BY <1>3 DEF SetLogin, AdminInv, TypeOK
  <1>5. LoginInv(l)'
    BY <1>1, <1>2, <1>3, <1>4 DEF LoginInv
  <1>6. \A s \in Sessions : SessionInv(s)'
    BY <1>3 DEF AdminInv, SessionInv
  <1>7. session' \in [Sessions -> SessionRecords \union {Nothing}]
    BY <1>3 DEF AdminInv, TypeOK
  <1> QED
    BY <1>2, <1>3, <1>5, <1>6, <1>7, LoginStep

LEMMA LoginFailsStep ==
  ASSUME AdminInv, NEW l \in Logins, LoginFails(l)
  PROVE  AdminInv'
  <1>1. SetLogin(l, SignedOut) /\ session' = session /\ account' = account
    BY DEF LoginFails, SetLogin
  <1>2. LoginInv(l)'
    BY <1>1, SignedOutTyped DEF SetLogin, AdminInv, TypeOK, LoginInv
  <1>3. \A s \in Sessions : SessionInv(s)'
    BY <1>1 DEF AdminInv, SessionInv
  <1>4. session' \in [Sessions -> SessionRecords \union {Nothing}]
    BY <1>1 DEF AdminInv, TypeOK
  <1> QED
    BY <1>1, <1>2, <1>3, <1>4, SignedOutTyped, LoginStep

\* The inserted session is current because its login holds the account's row.
LEMMA IssueSessionStep ==
  ASSUME AdminInv, NEW l \in Logins, NEW s \in Sessions, IssueSession(l, s)
  PROVE  AdminInv'
  <1> DEFINE new == [who |-> login[l].who, version |-> login[l].version,
                     password |-> login[l].password]
  <1>1. /\ login[l] \in LoginRecords /\ login[l].who \in Administrators
        /\ account[login[l].who] # Nothing
        /\ login[l].version = account[login[l].who].version
        /\ login[l].password = account[login[l].who].password
    BY DEF IssueSession, AdminInv, TypeOK, LoginInv
  <1>2. /\ new \in SessionRecords /\ new.who = login[l].who
        /\ new.version = login[l].version /\ new.password = login[l].password
    BY <1>1 DEF LoginRecords, SessionRecords
  <1>3. /\ SetLogin(l, SignedOut) /\ account' = account
        /\ session' = [session EXCEPT ![s] = new]
    BY DEF IssueSession, SetLogin
  <1> HIDE DEF new
  <1>4. LoginInv(l)'
    BY <1>3, SignedOutTyped DEF SetLogin, AdminInv, TypeOK, LoginInv
  <1>5. session'[s] = new /\ \A t \in Sessions \ {s} : session'[t] = session[t]
    BY <1>3 DEF AdminInv, TypeOK
  <1>6. \A t \in Sessions : SessionInv(t)'
    BY <1>1, <1>2, <1>3, <1>5 DEF AdminInv, SessionInv
  <1>7. session' \in [Sessions -> SessionRecords \union {Nothing}]
    BY <1>2, <1>3 DEF AdminInv, TypeOK
  <1>8. \A w \in Requests : work[w].stage # "idle" =>
          session'[work[w].session] = session[work[w].session]
    BY <1>5 DEF IssueSession, AdminInv, WorkInv, Snapshot, Work
  <1> QED
    BY <1>3, <1>4, <1>6, <1>7, <1>8, SignedOutTyped, LoginStep

LEMMA EndSessionStep ==
  ASSUME AdminInv, NEW s \in Sessions, EndSession(s)
  PROVE  AdminInv'
  <1>1. /\ session' = [session EXCEPT ![s] = Nothing]
        /\ UNCHANGED <<account, identity, login, work, mutations, cancelled, withdrawn, changes>>
    BY DEF EndSession
  <1>2. session'[s] = Nothing /\ \A t \in Sessions \ {s} : session'[t] = session[t]
    BY <1>1 DEF AdminInv, TypeOK
  <1>3. TypeOK'
    BY <1>1 DEF AdminInv, TypeOK
  <1>4. \A t \in Sessions : SessionInv(t)'
    BY <1>1, <1>2 DEF AdminInv, SessionInv
  <1>5. \A l \in Logins : LoginInv(l)'
    BY <1>1 DEF AdminInv, LoginInv
  <1>6. \A w \in Work : WorkInv(w)'
    BY <1>1, <1>2 DEF AdminInv, WorkInv, Snapshot, Update
  <1>7. SuperAdministratorRemains'
    BY <1>1 DEF AdminInv, SuperAdministratorRemains, EnabledSupers
  <1> QED
    BY <1>3, <1>4, <1>5, <1>6, <1>7 DEF AdminInv

LEMMA ExpireTokenStep ==
  ASSUME AdminInv, NEW a \in Administrators, ExpireToken(a)
  PROVE  AdminInv'
  <1>1. UNCHANGED <<account, session, login, work, mutations, withdrawn, changes>>
    BY DEF ExpireToken
  <1>2. identity' \in [Administrators -> [revision: Nat, live: BOOLEAN]]
    BY DEF ExpireToken, AdminInv, TypeOK
  <1>3. cancelled' \subseteq Work
    BY DEF ExpireToken, AdminInv, TypeOK, Jobs, Work
  <1>4. TypeOK'
    BY <1>1, <1>2, <1>3 DEF AdminInv, TypeOK
  <1> QED
    BY <1>1, <1>4 DEF AdminInv, SessionInv, LoginInv, WorkInv, Snapshot, Update,
                      SuperAdministratorRemains, EnabledSupers

(***************************************************************************)
(* Accounts                                                                *)
(***************************************************************************)
LEMMA SetupStep ==
  ASSUME AdminInv, NEW l \in Logins, NEW a \in Administrators, Setup(l, a)
  PROVE  AdminInv'
  <1> DEFINE new == [stage |-> "verified", who |-> a, password |-> 1, version |-> 0]
             first == Permanent("super")
  <1>1. /\ \A b \in Administrators : account[b] = Nothing
        /\ account' = [account EXCEPT ![a] = first]
        /\ login' = [login EXCEPT ![l] = new]
        /\ UNCHANGED <<session, identity, work, mutations, cancelled, withdrawn, changes>>
    BY DEF Setup
  <1>2. /\ first \in Accounts /\ first # Nothing
        /\ first.enabled /\ first.role = "super" /\ first.temporary = "no"
    BY NewAccounts DEF Roles
  <1>3. new \in LoginRecords /\ new.stage = "verified" /\ new.who = a
    BY DEF LoginRecords
  <1> HIDE DEF new, first
  <1>4. /\ account'[a] = first /\ login'[l] = new
        /\ account' \in [Administrators -> Accounts \union {Nothing}]
        /\ login' \in [Logins -> LoginRecords]
        /\ \A k \in Logins \ {l} : login'[k] = login[k]
    BY <1>1, <1>2, <1>3 DEF AdminInv, TypeOK
  <1>5. TypeOK'
    BY <1>1, <1>4 DEF AdminInv, TypeOK
  <1>6. /\ \A s \in Sessions : session[s] = Nothing
        /\ \A k \in Logins : login[k].stage = "idle"
        /\ \A w \in Work : work[w].stage = "idle"
    BY <1>1 DEF AdminInv, TypeOK, SessionInv, SessionRecords, LoginInv, WorkInv
  <1>7. \A s \in Sessions : SessionInv(s)'
    BY <1>1, <1>6 DEF SessionInv
  <1>8. \A k \in Logins : LoginInv(k)'
    BY <1>2, <1>3, <1>4, <1>6 DEF LoginInv
  <1>9. \A w \in Work : WorkInv(w)'
    BY <1>1, <1>6 DEF WorkInv
  <1>10. SuperAdministratorRemains'
    BY <1>2, <1>4 DEF SuperAdministratorRemains, EnabledSupers
  <1> QED
    BY <1>5, <1>7, <1>8, <1>9, <1>10 DEF AdminInv

\* Only a temporary password lapses, and neither an update nor an unlimited request is
\* an owner of one.
LEMMA LapseStep ==
  ASSUME AdminInv, NEW a \in Administrators, Lapse(a)
  PROVE  AdminInv'
  <1>1. /\ account[a] # Nothing /\ account[a].temporary = "yes"
        /\ account' = [account EXCEPT ![a].temporary = "expired"]
        /\ UNCHANGED <<session, identity, login, work, mutations, cancelled, withdrawn, changes>>
    BY DEF Lapse
  <1>2. account[a] \in Accounts
    BY <1>1 DEF AdminInv, TypeOK
  <1>3. PICK new : new = [account[a] EXCEPT !.temporary = "expired"]
    OBVIOUS
  <1>4. /\ new \in Accounts /\ new # Nothing /\ new.temporary = "expired"
        /\ new.role = account[a].role /\ new.enabled = account[a].enabled
        /\ new.version = account[a].version /\ new.password = account[a].password
    <2>1. new \in Accounts
      BY <1>2, <1>3 DEF Accounts
    <2> QED
      BY <1>2, <1>3, <2>1 DEF Accounts
  <1>5. /\ account'[a] = new
        /\ \A b \in Administrators \ {a} : account'[b] = account[b]
    BY <1>1, <1>3 DEF AdminInv, TypeOK
  <1>6. TypeOK'
    <2>1. account' \in [Administrators -> Accounts \union {Nothing}]
      BY <1>1, <1>3, <1>4 DEF AdminInv, TypeOK
    <2> QED
      BY <1>1, <2>1 DEF AdminInv, TypeOK
  <1>7. \A s \in Sessions : SessionInv(s)'
    BY <1>1, <1>4, <1>5 DEF AdminInv, TypeOK, SessionInv, SessionRecords
  <1>8. \A l \in Logins : LoginInv(l)'
    BY <1>1, <1>4, <1>5 DEF AdminInv, LoginInv
  <1>9. \A w \in Work : WorkInv(w)'
    BY <1>1, <1>4, <1>5 DEF AdminInv, WorkInv, Snapshot, Update
  <1>10. SuperAdministratorRemains'
    BY <1>1, <1>4, <1>5 DEF AdminInv, SuperAdministratorRemains, EnabledSupers
  <1> QED
    BY <1>6, <1>7, <1>8, <1>9, <1>10 DEF AdminInv

\* Nobody acts for an account that is only being created.
LEMMA CreateStep ==
  ASSUME AdminInv, NEW w \in Work, NEW a \in Administrators, NEW role \in Roles,
         CreateAdministrator(w, a, role)
  PROVE  AdminInv'
  <1>1. /\ account[a] = Nothing /\ mutations = Nothing
        /\ account' = [account EXCEPT ![a] = NewAccount(role)]
        /\ End(w, cancelled) /\ changes < MaxChanges /\ changes' = changes + 1
        /\ UNCHANGED <<session, identity, login, mutations>>
    BY DEF CreateAdministrator, MayAdminister, MayChange
  <1>2. NewAccount(role) \in Accounts
    BY NewAccounts
  <1>3. /\ account'[a] = NewAccount(role) /\ NewAccount(role) # Nothing
        /\ \A b \in Administrators \ {a} : account'[b] = account[b]
        /\ account' \in [Administrators -> Accounts \union {Nothing}]
    BY <1>1, <1>2 DEF AdminInv, TypeOK
  <1>4. cancelled \in SUBSET Work
    BY DEF AdminInv, TypeOK
  <1>5. /\ work' \in [Work -> WorkRecords] /\ WorkInv(w)' /\ work'[w].stage = "idle"
        /\ \A v \in Work \ {w} : work'[v] = work[v]
        /\ cancelled' \subseteq Work /\ withdrawn' \subseteq Work
    BY <1>1, <1>4, Ended
  <1>6. TypeOK'
    <2>1. changes' \in 0..MaxChanges
      BY <1>1, OneMoreChange DEF AdminInv
    <2> QED
      BY <1>1, <1>3, <1>5, <2>1 DEF AdminInv, TypeOK
  <1>7. \A s \in Sessions : SessionInv(s)'
    BY <1>1, <1>3 DEF AdminInv, TypeOK, SessionInv, SessionRecords
  <1>8. \A l \in Logins : LoginInv(l)'
    BY <1>1, <1>3 DEF AdminInv, LoginInv
  <1>9. \A v \in Work : WorkInv(v)'
    BY <1>1, <1>3, <1>5 DEF AdminInv, WorkInv, Snapshot, Update
  <1>10. SuperAdministratorRemains'
    <2>1. \E b \in Administrators : account[b] # Nothing
      BY DEF CreateAdministrator, MayAdminister, MayChange, AdminInv, WorkInv
    <2> QED
      BY <1>1, <1>3, <2>1 DEF AdminInv, SuperAdministratorRemains, EnabledSupers
  <1> QED
    BY <1>6, <1>7, <1>8, <1>9, <1>10 DEF AdminInv

\* What is left of the sessions when those of an account but one are deleted.
LEMMA SessionsLeft ==
  ASSUME TypeOK, NEW a, NEW keep, NEW s \in Sessions,
         WithoutSessions(Doomed(a, keep))[s] # Nothing
  PROVE  /\ session[s] # Nothing /\ WithoutSessions(Doomed(a, keep))[s] = session[s]
         /\ s # keep => session[s].who # a
  BY DEF WithoutSessions, Doomed

LEMMA SessionsDeleted ==
  ASSUME TypeOK, NEW a, session' = WithoutSessions(Doomed(a, Nothing)), NEW s \in Sessions,
         session'[s] # Nothing
  PROVE  session[s] # Nothing /\ session'[s] = session[s] /\ session[s].who # a
  <1>1. s # Nothing
    OBVIOUS
  <1> QED
    BY <1>1, SessionsLeft

\* A change of an existing account, made with its row locked, deletes its sessions or
\* leaves them with the version and password it has now.
Replaces(a, new) ==
  /\ login' = login /\ account[a] # Nothing /\ ~RowLocked(a)
  /\ account' = [account EXCEPT ![a] = new]
  /\ \/ new.version > account[a].version
     \/ /\ new.version = account[a].version /\ new.role = account[a].role
        /\ account[a].temporary = "no" => new.temporary = "no"
  /\ \A s \in Sessions : session'[s] # Nothing =>
       /\ session[s] # Nothing /\ session'[s].who = session[s].who
       /\ session[s].who # a => session'[s] = session[s]
       /\ session[s].who = a => /\ session'[s].version = new.version
                                /\ session'[s].password = new.password
  /\ \A v \in Work : work'[v].stage # "idle" =>
       work[v].stage # "idle" /\ SameCaller(v) /\ work'[v].stage # "updating"

LEMMA AccountStep ==
  ASSUME AdminInv, TypeOK', SuperAdministratorRemains',
         NEW a \in Administrators, NEW new \in Accounts, Replaces(a, new)
  PROVE  AdminInv'
  <1> USE DEF Replaces
  <1>1. /\ account'[a] = new /\ new # Nothing
        /\ \A b \in Administrators \ {a} : account'[b] = account[b]
    BY DEF AdminInv, TypeOK
  <1>2. account[a] \in Accounts /\ account[a].version \in Nat /\ new.version \in Nat
    BY DEF AdminInv, TypeOK, Accounts
  <1>3. \A s \in Sessions : SessionInv(s)'
    <2> SUFFICES ASSUME NEW s \in Sessions, session'[s] # Nothing PROVE SessionInv(s)'
      BY DEF SessionInv
    <2>1. session[s] \in SessionRecords /\ session[s].who \in Administrators
      BY DEF AdminInv, TypeOK, SessionRecords
    <2> QED
      BY <1>1, <2>1 DEF AdminInv, SessionInv
  <1>4. \A l \in Logins : LoginInv(l)'
    BY <1>1 DEF AdminInv, LoginInv, RowLocked
  <1>5. \A v \in Work : WorkInv(v)'
    <2> SUFFICES ASSUME NEW v \in Work, work'[v].stage # "idle" PROVE WorkInv(v)'
      BY DEF WorkInv
    <2>1. /\ WorkInv(v) /\ work[v].stage # "idle" /\ SameCaller(v)
          /\ work'[v].stage # "updating"
      BY DEF AdminInv
    <2>2. work[v].who \in Administrators /\ account[work[v].who] \in Accounts
      BY <2>1 DEF AdminInv, TypeOK, WorkInv
    <2>3. work[v].version \in Nat /\ account[work[v].who].version \in Nat
      BY <2>2 DEF AdminInv, TypeOK, WorkRecords, Accounts
    <2>4. work'[v].who = work[v].who /\ account'[work[v].who] # Nothing
      BY <1>1, <2>1, <2>2 DEF SameCaller, WorkInv
    <2>5. ASSUME v \in Requests PROVE Snapshot(v)'
      <3>1. Snapshot(v)
        BY <2>1, <2>5 DEF WorkInv
      <3>2. CASE work[v].who = a
        BY <1>1, <1>2, <2>1, <2>3, <3>1, <3>2 DEF Snapshot, SameCaller
      <3>3. CASE work[v].who # a
        BY <1>1, <2>1, <2>2, <2>3, <3>1, <3>3 DEF Snapshot, SameCaller
      <3> QED
        BY <3>2, <3>3
    <2> QED
      BY <2>1, <2>2, <2>4, <2>5 DEF WorkInv
  <1> QED
    BY <1>3, <1>4, <1>5 DEF AdminInv

\* The actor stays the permanent super administrator he was found to be.
LEMMA ResetPasswordStep ==
  ASSUME AdminInv, NEW w \in Work, NEW a \in Administrators, ResetPassword(w, a)
  PROVE  AdminInv'
  <1>1. /\ w \in Requests /\ work[w].stage = "running" /\ mutations = Nothing
        /\ Valid(w) /\ ~work[w].limited /\ work[w].role = "super"
        /\ changes < MaxChanges /\ account[a] # Nothing /\ a # work[w].who /\ ~RowLocked(a)
    BY DEF ResetPassword, MayAdminister, MayChange, Checked
  <1>2. /\ account' = [account EXCEPT ![a].password = @ + 1, ![a].temporary = "yes",
                                      ![a].version = @ + 1]
        /\ session' = WithoutSessions(Doomed(a, Nothing))
        /\ identity' = Revised(a, FALSE)
        /\ withdrawn' = withdrawn \union Using(Doomed(a, Nothing)) \union CallsOf(a)
        /\ GoOn(w, "cancel requests", a, Nothing)
        /\ changes' = changes + 1
        /\ UNCHANGED <<login, mutations, cancelled>>
    BY DEF ResetPassword
  <1>3. account[a] \in Accounts /\ TypeOK
    BY <1>1 DEF AdminInv, TypeOK
  <1>4. PICK new : new = [account[a] EXCEPT !.password = account[a].password + 1,
                            !.temporary = "yes", !.version = account[a].version + 1]
    OBVIOUS
  <1>5. new \in Accounts /\ new.version > account[a].version
    <2>1. /\ account[a].password \in Nat /\ account[a].version \in Nat
          /\ account[a].password + 1 \in Nat /\ account[a].version + 1 \in Nat
      BY <1>3 DEF Accounts
    <2>2. new \in Accounts /\ new.version = account[a].version + 1
      BY <1>3, <1>4, <2>1 DEF Accounts
    <2> QED
      BY <2>1, <2>2
  <1>6. /\ account' = [account EXCEPT ![a] = new]
        /\ \A b \in Administrators \ {a} : account'[b] = account[b]
        /\ account' \in [Administrators -> Accounts \union {Nothing}]
    BY <1>2, <1>3, <1>4, <1>5 DEF TypeOK
  <1>7. /\ work' \in [Work -> WorkRecords]
        /\ \A v \in Work \ {w} : work'[v] = work[v]
        /\ work'[w].stage = "cancel requests" /\ SameCaller(w)
    BY <1>2, <1>3, GoOnTyped DEF SameCaller
  <1>8. \A s \in Sessions : session'[s] # Nothing =>
          session[s] # Nothing /\ session'[s] = session[s] /\ session[s].who # a
    BY <1>2, <1>3, SessionsDeleted
  <1>9. TypeOK'
    <2>1. changes' \in 0..MaxChanges
      BY <1>1, <1>2, <1>3, OneMoreChange
    <2>2. session' \in [Sessions -> SessionRecords \union {Nothing}]
      BY <1>2, <1>3, SessionsTyped
    <2>3. identity' \in [Administrators -> [revision: Nat, live: BOOLEAN]]
      BY <1>2, <1>3, IdentityTyped
    <2>4. withdrawn' \subseteq Work
      BY <1>2, <1>3 DEF TypeOK, Using, CallsOf, Work
    <2> QED
      BY <1>1, <1>2, <1>3, <1>6, <1>7, <2>1, <2>2, <2>3, <2>4 DEF TypeOK
  <1>10. \A v \in Work : work'[v].stage # "idle" =>
           work[v].stage # "idle" /\ SameCaller(v) /\ work'[v].stage # "updating"
    BY <1>1, <1>7, NobodyUpdates DEF SameCaller
  <1>11. SuperAdministratorRemains'
    <2>1. /\ work[w].who \in Administrators /\ account[work[w].who] \in Accounts
          /\ account[work[w].who].enabled /\ account[work[w].who].role = "super"
          /\ account[work[w].who].temporary = "no"
      BY <1>1, ValidRequest
    <2>2. account'[work[w].who] = account[work[w].who]
      BY <1>1, <1>6, <2>1
    <2> QED
      BY <2>1, <2>2 DEF SuperAdministratorRemains, EnabledSupers
  <1>12. Replaces(a, new)
    BY <1>1, <1>2, <1>5, <1>6, <1>8, <1>10 DEF Replaces
  <1> QED
    BY <1>5, <1>9, <1>11, <1>12, AccountStep

\* A session that is kept is given the new password; the version stays.
LEMMA ChangePasswordStep ==
  ASSUME AdminInv, NEW w \in Work, ChangePassword(w)
  PROVE  AdminInv'
  <1>1. PICK a, keep : a = work[w].who /\ keep = work[w].session
    OBVIOUS
  <1>2. /\ w \in Requests /\ work[w].stage = "running" /\ mutations = Nothing
        /\ Valid(w) /\ ~RowLocked(a) /\ changes < MaxChanges
    BY <1>1 DEF ChangePassword, Checked
  <1>3. /\ account' = [account EXCEPT ![a].password = @ + 1, ![a].temporary = "no"]
        /\ session' = [WithoutSessions(Doomed(a, keep)) EXCEPT
                          ![keep].password = account'[a].password]
        /\ withdrawn' = withdrawn \union Using(Doomed(a, keep))
        /\ GoOn(w, "cancel requests", a, keep)
        /\ changes' = changes + 1
        /\ UNCHANGED <<identity, login, mutations, cancelled>>
    BY <1>1 DEF ChangePassword
  <1>4. /\ a \in Administrators /\ account[a] \in Accounts /\ account[a] # Nothing /\ TypeOK
        /\ keep \in Sessions /\ session[keep] \in SessionRecords /\ session[keep].who = a
    BY <1>1, <1>2, ValidRequest DEF AdminInv
  <1>5. PICK new : new = [account[a] EXCEPT !.password = account[a].password + 1,
                                            !.temporary = "no"]
    OBVIOUS
  <1>6. /\ new \in Accounts /\ new # Nothing /\ new.version = account[a].version
        /\ new.role = account[a].role /\ new.temporary = "no"
        /\ new.enabled = account[a].enabled /\ new.password \in Nat
    <2>1. account[a].password + 1 \in Nat
      BY <1>4 DEF Accounts
    <2>2. new \in Accounts
      BY <1>4, <1>5, <2>1 DEF Accounts
    <2> QED
      BY <1>4, <1>5, <2>2 DEF Accounts
  <1>7. /\ account' = [account EXCEPT ![a] = new] /\ account'[a] = new
        /\ \A b \in Administrators \ {a} : account'[b] = account[b]
        /\ account' \in [Administrators -> Accounts \union {Nothing}]
    BY <1>3, <1>4, <1>5, <1>6 DEF TypeOK
  <1>8. /\ work' \in [Work -> WorkRecords]
        /\ \A v \in Work \ {w} : work'[v] = work[v]
        /\ work'[w].stage = "cancel requests" /\ SameCaller(w)
    BY <1>3, <1>4, GoOnTyped DEF SameCaller
  <1>9. PICK kept : kept = [session[keep] EXCEPT !.password = new.password]
    OBVIOUS
  <1>10. /\ kept \in SessionRecords /\ kept.who = a /\ kept.password = new.password
         /\ kept.version = session[keep].version
    BY <1>4, <1>6, <1>9 DEF SessionRecords
  <1>11. WithoutSessions(Doomed(a, keep))[keep] = session[keep]
    BY <1>4 DEF WithoutSessions, Doomed
  <1>12. session' = [WithoutSessions(Doomed(a, keep)) EXCEPT ![keep] = kept]
    BY <1>3, <1>4, <1>7, <1>9, <1>11, SessionsTyped
  <1>13. /\ session' \in [Sessions -> SessionRecords \union {Nothing}]
         /\ session'[keep] = kept
         /\ \A s \in Sessions \ {keep} : session'[s] = WithoutSessions(Doomed(a, keep))[s]
    BY <1>4, <1>10, <1>12, SessionsTyped
  <1>14. \A s \in Sessions \ {keep} : session'[s] # Nothing =>
           session[s] # Nothing /\ session'[s] = session[s] /\ session[s].who # a
    BY <1>4, <1>13 DEF WithoutSessions, Doomed
  <1>15. session[keep].version = account[a].version
    BY <1>4 DEF AdminInv, SessionInv
  <1>16. \A s \in Sessions : session'[s] # Nothing =>
           /\ session[s] # Nothing /\ session'[s].who = session[s].who
           /\ session[s].who # a => session'[s] = session[s]
           /\ session[s].who = a => /\ session'[s].version = new.version
                                    /\ session'[s].password = new.password
    BY <1>4, <1>6, <1>10, <1>13, <1>14, <1>15
  <1>17. TypeOK'
    <2>1. changes' \in 0..MaxChanges
      BY <1>2, <1>3, <1>4, OneMoreChange
    <2>2. withdrawn' \subseteq Work
      BY <1>3, <1>4 DEF TypeOK, Using, Work
    <2> QED
      BY <1>2, <1>3, <1>4, <1>7, <1>8, <1>13, <2>1, <2>2 DEF TypeOK
  <1>18. \A v \in Work : work'[v].stage # "idle" =>
           work[v].stage # "idle" /\ SameCaller(v) /\ work'[v].stage # "updating"
    BY <1>2, <1>8, NobodyUpdates DEF SameCaller
  <1>19. SuperAdministratorRemains'
    BY <1>4, <1>6, <1>7 DEF AdminInv, SuperAdministratorRemains, EnabledSupers
  <1>20. Replaces(a, new)
    BY <1>2, <1>3, <1>4, <1>6, <1>7, <1>16, <1>18 DEF Replaces
  <1> QED
    BY <1>4, <1>6, <1>17, <1>19, <1>20, AccountStep

\* The holder of the mutex is still a super administrator, of whom nobody else could
\* change the account, and the target is not his own unless only its name changes.
LEMMA CommitUpdateStep ==
  ASSUME AdminInv, NEW w \in Work, CommitUpdate(w)
  PROVE  AdminInv'
  <1>1. PICK a, row, old : a = work[w].target /\ row = work[w].row /\ old = account[a]
    OBVIOUS
  <1>2. /\ work[w].stage = "updating" /\ ~RowLocked(a)
        /\ account' = [account EXCEPT ![a].role = row.role, ![a].enabled = row.enabled,
                         ![a].version = IF Withdraws(old, row) THEN @ + 1 ELSE @]
        /\ mutations' = Nothing /\ changes' = changes + 1 /\ login' = login
        /\ \/ /\ Withdraws(old, row)
              /\ session' = WithoutSessions(Doomed(a, Nothing))
              /\ identity' = Revised(a, FALSE)
              /\ withdrawn' = withdrawn \union Using(Doomed(a, Nothing)) \union CallsOf(a)
              /\ GoOn(w, "cancel requests", a, Nothing)
              /\ UNCHANGED cancelled
           \/ /\ ~Withdraws(old, row)
              /\ UNCHANGED <<session, identity>>
              /\ End(w, cancelled)
    BY <1>1 DEF CommitUpdate
  <1>3. /\ TypeOK /\ Update(w) /\ a \in Administrators /\ old \in Accounts /\ row \in Accounts
        /\ account[a] # Nothing
    BY <1>1, <1>2 DEF AdminInv, TypeOK, WorkInv, Update
  <1>4. \A v \in Work \ {w} : work[v].stage # "updating"
    BY <1>3 DEF AdminInv, WorkInv, Update
  <1>5. PICK version, new :
          /\ version = IF Withdraws(old, row) THEN old.version + 1 ELSE old.version
          /\ new = [old EXCEPT !.role = row.role, !.enabled = row.enabled,
                                !.version = version]
    OBVIOUS
  <1>6. /\ new \in Accounts /\ new # Nothing
        /\ new.role = row.role /\ new.enabled = row.enabled
        /\ new.temporary = old.temporary /\ new.password = old.password
        /\ new.version = IF Withdraws(old, row) THEN old.version + 1 ELSE old.version
        /\ old.version \in Nat
    <2>1. /\ row.role \in Roles /\ row.enabled \in BOOLEAN /\ old.version \in Nat
          /\ version \in Nat
      BY <1>3, <1>5 DEF Accounts
    <2>2. new \in Accounts
      BY <1>3, <1>5, <2>1 DEF Accounts
    <2> QED
      BY <1>3, <1>5, <2>1, <2>2 DEF Accounts
  <1>7. /\ account' = [account EXCEPT ![a] = new] /\ account'[a] = new
        /\ \A b \in Administrators \ {a} : account'[b] = account[b]
        /\ account' \in [Administrators -> Accounts \union {Nothing}]
    <2>1. account' = [account EXCEPT ![a].role = row.role, ![a].enabled = row.enabled,
                                     ![a].version = version]
      BY <1>1, <1>2, <1>3, <1>5 DEF TypeOK
    <2>2. account' = [account EXCEPT ![a] = new]
      BY <1>1, <1>3, <1>5, <2>1 DEF TypeOK
    <2> QED
      BY <1>3, <1>6, <2>2 DEF TypeOK
  <1>8. changes' \in 0..MaxChanges
    BY <1>2, <1>3, OneMoreChange DEF Update
  <1>9. SuperAdministratorRemains'
    <2>1. CASE a = work[w].who
      BY <1>1, <1>3, <1>6, <1>7, <2>1
         DEF Update, SuperAdministratorRemains, EnabledSupers
    <2>2. CASE a # work[w].who
      <3>1. work[w].who \in Administrators /\ account[work[w].who] # Nothing
        BY <1>2 DEF AdminInv, WorkInv
      <3> QED
        BY <1>3, <1>7, <2>2, <3>1 DEF Update, SuperAdministratorRemains, EnabledSupers
    <2> QED
      BY <2>1, <2>2
  <1>10. CASE Withdraws(old, row)
    <2>1. /\ work' \in [Work -> WorkRecords]
          /\ \A v \in Work \ {w} : work'[v] = work[v]
          /\ work'[w].stage = "cancel requests" /\ SameCaller(w)
      BY <1>2, <1>3, <1>10, GoOnTyped DEF SameCaller
    <2>2. \A s \in Sessions : session'[s] # Nothing =>
            session[s] # Nothing /\ session'[s] = session[s] /\ session[s].who # a
      BY <1>2, <1>3, <1>10, SessionsDeleted
    <2>3. TypeOK'
      <3>1. session' \in [Sessions -> SessionRecords \union {Nothing}]
        BY <1>2, <1>3, <1>10, SessionsTyped
      <3>2. identity' \in [Administrators -> [revision: Nat, live: BOOLEAN]]
        BY <1>2, <1>3, <1>10, IdentityTyped
      <3>3. withdrawn' \subseteq Work /\ cancelled' \subseteq Work
        BY <1>2, <1>3, <1>10 DEF TypeOK, Using, CallsOf, Work
      <3> QED
        BY <1>2, <1>3, <1>7, <1>8, <2>1, <3>1, <3>2, <3>3 DEF TypeOK
    <2>4. \A v \in Work : work'[v].stage # "idle" =>
            work[v].stage # "idle" /\ SameCaller(v) /\ work'[v].stage # "updating"
      BY <1>2, <1>4, <2>1 DEF SameCaller
    <2>5. new.version > account[a].version
      BY <1>1, <1>6, <1>10
    <2>6. Replaces(a, new)
      BY <1>2, <1>3, <1>7, <2>2, <2>4, <2>5 DEF Replaces
    <2> QED
      BY <1>3, <1>6, <1>9, <2>3, <2>6, AccountStep
  <1>11. CASE ~Withdraws(old, row)
    <2>1. cancelled \in SUBSET Work
      BY <1>3 DEF TypeOK
    <2>2. /\ work' \in [Work -> WorkRecords] /\ work'[w].stage = "idle"
          /\ \A v \in Work \ {w} : work'[v] = work[v]
          /\ cancelled' \subseteq Work /\ withdrawn' \subseteq Work
      BY <1>2, <1>11, <2>1, Ended
    <2>3. TypeOK'
      BY <1>2, <1>3, <1>7, <1>8, <1>11, <2>2 DEF TypeOK
    <2>4. \A v \in Work : work'[v].stage # "idle" =>
            work[v].stage # "idle" /\ SameCaller(v) /\ work'[v].stage # "updating"
      BY <1>4, <2>2 DEF SameCaller
    <2>5. /\ new.version = account[a].version /\ new.role = account[a].role
          /\ new.temporary = account[a].temporary /\ new.password = account[a].password
      BY <1>1, <1>6, <1>11 DEF Withdraws
    <2>6. \A s \in Sessions : session'[s] # Nothing =>
            /\ session[s] # Nothing /\ session'[s].who = session[s].who
            /\ session[s].who # a => session'[s] = session[s]
            /\ session[s].who = a => /\ session'[s].version = new.version
                                     /\ session'[s].password = new.password
      BY <1>2, <1>11, <2>5 DEF AdminInv, SessionInv
    <2>7. Replaces(a, new)
      BY <1>2, <1>3, <1>7, <2>4, <2>5, <2>6 DEF Replaces
    <2> QED
      BY <1>3, <1>6, <1>9, <2>3, <2>7, AccountStep
  <1> QED
    BY <1>10, <1>11

(***************************************************************************)
(* The invariant and what follows from it                                  *)
(***************************************************************************)
LEMMA NextInv == AdminInv /\ [Next]_vars => AdminInv'
  <1> SUFFICES ASSUME AdminInv, [Next]_vars PROVE AdminInv'
    OBVIOUS
  <1>1. CASE \E l \in Logins :
               \/ \E a \in Administrators : Setup(l, a) \/ Verify(l, a)
               \/ LockRow(l)
               \/ \E s \in Sessions : IssueSession(l, s)
               \/ LoginFails(l)
    BY <1>1, SetupStep, VerifyStep, LockRowStep, IssueSessionStep, LoginFailsStep
  <1>2. CASE \/ \E s \in Sessions : EndSession(s)
             \/ \E a \in Administrators : Lapse(a) \/ ExpireToken(a)
             \/ \E r \in Requests, s \in Sessions : Arrive(r, s)
             \/ \E c \in Calls, a \in Administrators : Present(c, a)
    BY <1>2, EndSessionStep, LapseStep, ExpireTokenStep, ArriveStep, PresentStep
  <1>3. ASSUME NEW w \in Work,
               \/ Register(w) \/ Recheck(w) \/ Return(w)
               \/ Mutate(w) \/ ChangePassword(w) \/ IssueToken(w)
               \/ CommitUpdate(w) \/ CancelRequests(w) \/ CancelCalls(w)
        PROVE  AdminInv'
    BY <1>3, AdvanceStep, ReturnStep, ChangePasswordStep, TokenStep, CommitUpdateStep,
       CancelStep
  <1>4. ASSUME NEW w \in Work, NEW a \in Administrators,
               \/ ResetPassword(w, a) \/ RevokeToken(w, a)
               \/ \E role \in Roles : CreateAdministrator(w, a, role)
               \/ account[a] # Nothing /\ \E row \in Rows(a) : StartUpdate(w, a, row)
        PROVE  AdminInv'
    BY <1>4, ResetPasswordStep, TokenStep, CreateStep, StartUpdateStep
  <1>5. CASE UNCHANGED vars
    BY <1>5 DEF vars, tables, AdminInv, TypeOK, SessionInv, LoginInv, WorkInv, Snapshot,
                Update, SuperAdministratorRemains, EnabledSupers
  <1> QED
    BY <1>1, <1>2, <1>3, <1>4, <1>5 DEF Next

\* The strengthening that the properties below follow from, in every reachable state.
THEOREM AdminInvariant == Spec => []AdminInv
  BY InitInv, NextInv, PTL DEF Spec

\* However administrators, logins and updates of the same accounts interleave, an enabled
\* super administrator with a password of his own remains.
THEOREM SuperAdministratorStays == Spec => [](TypeOK /\ SuperAdministratorRemains)
  <1>1. AdminInv => TypeOK /\ SuperAdministratorRemains
    BY DEF AdminInv
  <1> QED
    BY <1>1, AdminInvariant, PTL

\* No interleaving of logins and changes of passwords leaves a session that opens the
\* console with a password that was replaced.
THEOREM SessionsFollowPassword == Spec => []SessionsProvePassword
  <1>1. AdminInv => SessionsProvePassword
    BY DEF AdminInv, SessionInv, SessionsProvePassword, Usable
  <1> QED
    BY <1>1, AdminInvariant, PTL

\* What the holder of a valid credential is by the account of this moment.
LEMMA ValidWork ==
  ASSUME AdminInv, NEW w \in Work, work[w].stage # "idle", Valid(w)
  PROVE  /\ account[work[w].who].enabled
         /\ w \in Requests => /\ account[work[w].who].version = work[w].version
                              /\ account[work[w].who].role = work[w].role
         /\ w \in Calls => identity[work[w].who].revision = work[w].version
  <1>1. CASE w \in Requests
    BY <1>1, ValidRequest
  <1>2. CASE w \in Calls
    BY <1>2 DEF Valid, TokenActive, Active
  <1> QED
    BY <1>1, <1>2 DEF Work

Authorized(w) ==
  LET me == account[work[w].who] IN
  /\ me.enabled
  /\ w \in Requests => me.version = work[w].version
  /\ w \in Calls => identity[work[w].who].revision = work[w].version
  /\ \A a \in Administrators \ {work[w].who} :
       account'[a] # account[a] => me.role = "super"

\* Only the handler that commits a change moves on with it.
LEMMA ActorCommits ==
  ASSUME AdminInv, NEW w \in Work,
         \/ ChangePassword(w) \/ IssueToken(w) \/ CommitUpdate(w)
         \/ \E a \in Administrators :
              \/ ResetPassword(w, a) \/ RevokeToken(w, a)
              \/ \E role \in Roles : CreateAdministrator(w, a, role)
  PROVE  Authorized(w) /\ \A v \in Work \ {w} : work'[v] = work[v]
  <1>1. \A v \in Work \ {w} : work'[v] = work[v]
    <2>1. work \in [Work -> WorkRecords]
      BY DEF AdminInv, TypeOK
    <2>2. CASE \E stage, a, keep : GoOn(w, stage, a, keep)
      BY <2>1, <2>2 DEF GoOn
    <2>3. CASE \E jobs : End(w, jobs)
      BY <2>1, <2>3 DEF End
    <2>4. (\E stage, a, keep : GoOn(w, stage, a, keep)) \/ (\E jobs : End(w, jobs))
      BY DEF ChangePassword, IssueToken, SetToken, CommitUpdate, ResetPassword, RevokeToken,
             CreateAdministrator
    <2> QED
      BY <2>2, <2>3, <2>4
  <1>2. CASE CommitUpdate(w)
    BY <1>1, <1>2 DEF CommitUpdate, AdminInv, WorkInv, Update, Authorized
  <1>3. CASE ChangePassword(w)
    <2>1. work[w].stage = "running" /\ Valid(w)
      BY <1>3 DEF ChangePassword, Checked
    <2>2. \A a \in Administrators \ {work[w].who} : account'[a] = account[a]
      BY <1>3 DEF ChangePassword, AdminInv, TypeOK
    <2> QED
      BY <1>1, <2>1, <2>2, ValidWork DEF Authorized
  <1>4. CASE IssueToken(w) \/ \E a \in Administrators : RevokeToken(w, a)
    <2>1. work[w].stage = "running" /\ Valid(w) /\ account' = account
      BY <1>4 DEF IssueToken, RevokeToken, SetToken, MayChange, Checked
    <2> QED
      BY <1>1, <2>1, ValidWork DEF Authorized
  <1>5. CASE \E a \in Administrators :
               ResetPassword(w, a) \/ \E role \in Roles : CreateAdministrator(w, a, role)
    <2>1. /\ work[w].stage = "running" /\ Valid(w) /\ w \in Requests
          /\ work[w].role = "super"
      BY <1>5 DEF ResetPassword, CreateAdministrator, MayAdminister, MayChange, Checked
    <2> QED
      BY <1>1, <2>1, ValidWork DEF Authorized
  <1> QED
    BY <1>1, <1>2, <1>3, <1>4, <1>5

\* Every other step leaves the number of changes as it is.
LEMMA CommitsStep ==
  ASSUME AdminInv, [Next]_vars, NEW w \in Work, Commits(w)
  PROVE  Authorized(w)
  <1>1. CASE Mutate(w)
    <2>1. work[w].stage = "running" /\ Valid(w) /\ account' = account
      BY <1>1 DEF Mutate, MayChange, Checked, tables
    <2> QED
      BY <2>1, ValidWork DEF Authorized
  <1>2. CASE changes' > changes /\ work'[w] # work[w]
    <2>1. changes' # changes
      BY <1>2 DEF AdminInv, TypeOK
    <2>2. \E v \in Work :
            \/ ChangePassword(v) \/ IssueToken(v) \/ CommitUpdate(v)
            \/ \E a \in Administrators :
                 \/ ResetPassword(v, a) \/ RevokeToken(v, a)
                 \/ \E role \in Roles : CreateAdministrator(v, a, role)
      BY <2>1 DEF Next, vars, Setup, Verify, LockRow, IssueSession, LoginFails, SetLogin,
                  EndSession, Lapse, ExpireToken, Arrive, Present, Register, Recheck, Step,
                  SetWork, Return, Mutate, CancelRequests, CancelCalls, StartUpdate, LockTable
    <2>3. PICK v \in Work :
            \/ ChangePassword(v) \/ IssueToken(v) \/ CommitUpdate(v)
            \/ \E a \in Administrators :
                 \/ ResetPassword(v, a) \/ RevokeToken(v, a)
                 \/ \E role \in Roles : CreateAdministrator(v, a, role)
      BY <2>2
    <2>4. Authorized(v) /\ \A u \in Work \ {v} : work'[u] = work[u]
      BY <2>3, ActorCommits
    <2> QED
      BY <1>2, <2>4
  <1> QED
    BY <1>1, <1>2 DEF Commits

\* Whatever happens between a request's arrival and its commit, it commits only with the
\* rights its account has at that moment.
THEOREM CommitsAuthorized == Spec => CommitsAreAuthorized
  <1>1. AdminInv /\ [Next]_vars =>
          \A w \in Work : Commits(w) => Authorized(w)
    BY CommitsStep
  <1>2. (\A w \in Work : Commits(w) => Authorized(w)) <=>
        (\A w \in Work : Commits(w) =>
           LET me == account[work[w].who] IN
           /\ me.enabled
           /\ w \in Requests => me.version = work[w].version
           /\ w \in Calls => identity[work[w].who].revision = work[w].version
           /\ \A a \in Administrators \ {work[w].who} :
                account'[a] # account[a] => me.role = "super")
    BY DEF Authorized
  <1> QED
    BY <1>1, <1>2, AdminInvariant, PTL DEF Spec, CommitsAreAuthorized

(***************************************************************************)
(* Withdrawn credentials                                                   *)
(***************************************************************************)
Handling == {"registered", "running"}

\* The handler of v has still to cancel w.
OwedBy(v, w) ==
  /\ work[v].target = work[w].who
  /\ IF w \in Requests
     THEN work[v].stage = "cancel requests" /\ work[v].keep # work[w].session
     ELSE \/ work[v].stage = "cancel requests" /\ work[v].keep = Nothing
          \/ work[v].stage = "cancel calls"

\* A withdrawn credential never becomes valid again, so work that has not registered
\* yet will not; work that had registered is cancelled, or somebody is about to.
Withdrawal(w) ==
  /\ work[w].stage = "idle" =>
       w \notin withdrawn /\ work[w].who = Nothing /\ work[w].session = Nothing
  /\ w \in Calls /\ work[w].stage # "idle" =>
       work[w].version <= identity[work[w].who].revision
  /\ w \in withdrawn =>
       /\ w \in Requests => session[work[w].session] = Nothing
       /\ w \in Calls => work[w].version < identity[work[w].who].revision
       /\ work[w].stage \in Handling =>
            w \in cancelled \/ \E v \in Work : OwedBy(v, w)

WithdrawalInv == \A w \in Work : Withdrawal(w)

\* A session in use does not come back, and revisions only grow.
Monotone ==
  /\ \A r \in Requests : work[r].stage # "idle" /\ session[work[r].session] = Nothing =>
       session'[work[r].session] = Nothing
  /\ \A a \in Administrators : identity[a].revision <= identity'[a].revision

LEMMA RevisionsTyped ==
  ASSUME TypeOK, NEW w \in Work
  PROVE  /\ work[w].version \in Nat
         /\ \A a \in Administrators : identity[a].revision \in Nat
  BY DEF TypeOK, WorkRecords

\* A step that withdraws nothing of x and forgets nothing owed to it.
LEMMA Unconcerned ==
  ASSUME AdminInv, AdminInv', Monotone, NEW x \in Work, Withdrawal(x), SameCaller(x),
         work'[x].stage = "idle" <=> work[x].stage = "idle",
         x \in withdrawn' => x \in withdrawn,
         x \in withdrawn /\ work'[x].stage \in Handling =>
           work[x].stage \in Handling
           /\ (x \in cancelled \/ (\E v \in Work : OwedBy(v, x)) =>
                 x \in cancelled' \/ \E v \in Work : OwedBy(v, x)')
  PROVE  Withdrawal(x)'
  <1>1. /\ work'[x].who = work[x].who /\ work'[x].session = work[x].session
        /\ work'[x].version = work[x].version
    BY DEF SameCaller
  <1>2. ASSUME x \in Calls, work[x].stage # "idle"
        PROVE  /\ work[x].version <= identity'[work[x].who].revision
               /\ x \in withdrawn => work[x].version < identity'[work[x].who].revision
    <2>1. /\ work[x].who \in Administrators
          /\ work[x].version \in Nat
          /\ identity[work[x].who].revision \in Nat
          /\ identity'[work[x].who].revision \in Nat
      BY <1>2, RevisionsTyped DEF AdminInv, WorkInv, TypeOK
    <2>2. /\ work[x].version <= identity[work[x].who].revision
          /\ x \in withdrawn => work[x].version < identity[work[x].who].revision
          /\ identity[work[x].who].revision <= identity'[work[x].who].revision
      BY <1>2, <2>1 DEF Withdrawal, Monotone
    <2>3. PICK i \in Nat, j \in Nat, k \in Nat :
            /\ i = work[x].version /\ j = identity[work[x].who].revision
            /\ k = identity'[work[x].who].revision
      BY <2>1
    <2>4. i <= j /\ j <= k /\ (x \in withdrawn => i < j)
      BY <2>2, <2>3
    <2>5. i <= k /\ (i < j => i < k)
      BY <2>4, OrderedNaturals
    <2> QED
      BY <2>3, <2>4, <2>5
  <1>3. ASSUME x \in Requests, x \in withdrawn PROVE session'[work[x].session] = Nothing
    BY <1>3 DEF Withdrawal, Monotone
  <1>4. ASSUME x \in withdrawn, work'[x].stage \in Handling
        PROVE  x \in cancelled' \/ \E v \in Work : OwedBy(v, x)'
    BY <1>4 DEF Withdrawal
  <1>5. work'[x].stage = "idle" =>
          x \notin withdrawn' /\ work'[x].who = Nothing /\ work'[x].session = Nothing
    BY <1>1 DEF Withdrawal
  <1>6. x \in Calls /\ work'[x].stage # "idle" =>
          work'[x].version <= identity'[work'[x].who].revision
    BY <1>1, <1>2
  <1>7. x \in withdrawn' /\ x \in Requests => session'[work'[x].session] = Nothing
    BY <1>1, <1>3
  <1>8. x \in withdrawn' /\ x \in Calls => work'[x].version < identity'[work'[x].who].revision
    BY <1>1, <1>2 DEF Withdrawal
  <1>9. x \in withdrawn' /\ work'[x].stage \in Handling =>
          x \in cancelled' \/ \E v \in Work : OwedBy(v, x)'
    BY <1>4
  <1> QED
    BY <1>5, <1>6, <1>7, <1>8, <1>9 DEF Withdrawal

\* A step of w, which owed nothing, leaves every other's debts as they are.
LEMMA OwedStill ==
  ASSUME NEW w \in Work, NEW x \in Work, SameCaller(x),
         \A v \in Work \ {w} : work'[v] = work[v],
         work[w].stage \notin {"cancel requests", "cancel calls"}
  PROVE  (\E v \in Work : OwedBy(v, x)) => \E v \in Work : OwedBy(v, x)'
  BY DEF OwedBy, SameCaller

LEMMA OthersUnconcerned ==
  ASSUME AdminInv, AdminInv', WithdrawalInv, Monotone, NEW w \in Work,
         \A v \in Work \ {w} : work'[v] = work[v],
         work[w].stage \notin {"cancel requests", "cancel calls"},
         withdrawn' \subseteq withdrawn, cancelled \subseteq cancelled' \union {w},
         Withdrawal(w)'
  PROVE  WithdrawalInv'
  <1>1. SUFFICES ASSUME NEW x \in Work, x # w PROVE Withdrawal(x)'
    BY DEF WithdrawalInv
  <1>2. work'[x] = work[x] /\ SameCaller(x) /\ Withdrawal(x)
    BY <1>1 DEF SameCaller, WithdrawalInv
  <1>3. (\E v \in Work : OwedBy(v, x)) => \E v \in Work : OwedBy(v, x)'
    BY <1>2, OwedStill
  <1> QED
    BY <1>1, <1>2, <1>3, Unconcerned

\* Work that has ended has nothing to do with what it presented.
LEMMA EndedWork ==
  ASSUME AdminInv', NEW w \in Work, NEW jobs, work \in [Work -> WorkRecords], End(w, jobs)
  PROVE  /\ withdrawn' \subseteq withdrawn /\ jobs \subseteq cancelled' \union {w}
         /\ \A v \in Work \ {w} : work'[v] = work[v]
         /\ Withdrawal(w)'
  <1>1. work'[w] = Idle /\ w \notin withdrawn'
    BY DEF End
  <1>2. /\ work'[w].stage = "idle" /\ work'[w].who = Nothing /\ work'[w].session = Nothing
    BY <1>1 DEF Idle
  <1>3. Withdrawal(w)'
    BY <1>1, <1>2 DEF Withdrawal
  <1> QED
    BY <1>3 DEF End

\* Steps of logins, of time and of sessions nobody uses.
LEMMA NoWorkStep ==
  ASSUME AdminInv, AdminInv', WithdrawalInv, Monotone, work' = work,
         withdrawn' = withdrawn, cancelled \subseteq cancelled'
  PROVE  WithdrawalInv'
  <1> SUFFICES ASSUME NEW x \in Work PROVE Withdrawal(x)'
    BY DEF WithdrawalInv
  <1>1. Withdrawal(x) /\ SameCaller(x)
    BY DEF WithdrawalInv, SameCaller
  <1>2. \A v \in Work : OwedBy(v, x) => OwedBy(v, x)'
    BY DEF OwedBy
  <1> QED
    BY <1>1, <1>2, Unconcerned

LEMMA SameTables ==
  ASSUME AdminInv, UNCHANGED <<session, identity>>
  PROVE  Monotone
  BY DEF AdminInv, TypeOK, Monotone

LEMMA QuietWithdrawal ==
  ASSUME AdminInv, AdminInv', WithdrawalInv,
         \/ \E l \in Logins :
              \/ \E a \in Administrators : Setup(l, a) \/ Verify(l, a)
              \/ LockRow(l)
              \/ \E s \in Sessions : IssueSession(l, s)
              \/ LoginFails(l)
         \/ \E s \in Sessions : EndSession(s)
         \/ \E a \in Administrators : Lapse(a) \/ ExpireToken(a)
  PROVE  WithdrawalInv'
  <1>1. work' = work /\ withdrawn' = withdrawn /\ cancelled \subseteq cancelled'
    BY DEF Setup, Verify, LockRow, IssueSession, LoginFails, EndSession, Lapse, ExpireToken,
           SetLogin
  <1>2. CASE \E l \in Logins, s \in Sessions : IssueSession(l, s)
    <2>1. PICK s \in Sessions :
            /\ \A w \in Requests : work[w].session # s
            /\ \A t \in Sessions \ {s} : session'[t] = session[t]
      BY <1>2 DEF IssueSession, AdminInv, TypeOK
    <2>2. \A r \in Requests : work[r].stage # "idle" => work[r].session \in Sessions
      BY DEF AdminInv, WorkInv, Snapshot, Work
    <2>3. identity' = identity
      BY <1>2 DEF IssueSession, SetLogin
    <2>4. Monotone
      BY <2>1, <2>2, <2>3 DEF AdminInv, TypeOK, Monotone
    <2> QED
      BY <1>1, <2>4, NoWorkStep
  <1>3. CASE \E s \in Sessions : EndSession(s)
    <2>1. identity' = identity /\ \A t \in Sessions : session'[t] \in {Nothing, session[t]}
      BY <1>3 DEF EndSession, AdminInv, TypeOK
    <2>2. \A r \in Requests : work[r].stage # "idle" => work[r].session \in Sessions
      BY DEF AdminInv, WorkInv, Snapshot, Work
    <2>3. Monotone
      BY <2>1, <2>2 DEF AdminInv, TypeOK, Monotone
    <2> QED
      BY <1>1, <2>3, NoWorkStep
  <1>4. CASE \E a \in Administrators : ExpireToken(a)
    <2>1. session' = session /\ \A b \in Administrators :
                                  identity'[b].revision = identity[b].revision
      BY <1>4 DEF ExpireToken, AdminInv, TypeOK
    <2>2. \A b \in Administrators : identity[b].revision \in Nat
      BY DEF AdminInv, TypeOK
    <2>3. Monotone
      BY <2>1, <2>2 DEF Monotone
    <2> QED
      BY <1>1, <2>3, NoWorkStep
  <1>5. CASE UNCHANGED <<session, identity>>
    BY <1>1, <1>5, SameTables, NoWorkStep
  <1> QED
    BY <1>2, <1>3, <1>4, <1>5 DEF Setup, Verify, LockRow, LoginFails, Lapse, SetLogin

\* Work that arrives presents what is valid.
LEMMA ArrivalWithdrawal ==
  ASSUME AdminInv, AdminInv', WithdrawalInv, NEW w \in Work,
         \/ \E s \in Sessions : w \in Requests /\ Arrive(w, s)
         \/ \E a \in Administrators : w \in Calls /\ Present(w, a)
  PROVE  WithdrawalInv'
  <1>1. /\ UNCHANGED <<session, identity, cancelled, withdrawn>>
        /\ \A v \in Work \ {w} : work'[v] = work[v]
        /\ work[w].stage = "idle"
    BY DEF Arrive, Present, SetWork, tables, AdminInv, TypeOK
  <1>2. /\ work'[w].stage = "arrived"
        /\ w \in Calls => work'[w].version <= identity'[work'[w].who].revision
    <2>1. CASE w \in Requests
      <3>1. PICK s \in Sessions : Arrive(w, s)
        BY <2>1
      <3>2. \E a, v, r, m : work'[w] = [Idle EXCEPT !.stage = "arrived", !.who = a,
                               !.session = s, !.version = v, !.role = r, !.limited = m]
        BY <3>1 DEF Arrive, SetWork, AdminInv, TypeOK
      <3> QED
        BY <2>1, <3>2 DEF Idle
    <2>2. CASE w \in Calls
      <3>1. PICK a \in Administrators : Present(w, a)
        BY <2>2
      <3>2. work'[w] = [Idle EXCEPT !.stage = "arrived", !.who = a,
                                    !.version = identity[a].revision]
        BY <3>1 DEF Present, SetWork, AdminInv, TypeOK
      <3>3. /\ work'[w].stage = "arrived" /\ work'[w].who = a
            /\ work'[w].version = identity[a].revision
        BY <3>2 DEF Idle
      <3>4. identity[a].revision \in Nat
        BY DEF AdminInv, TypeOK
      <3> QED
        BY <1>1, <3>3, <3>4
    <2> QED
      BY <2>1, <2>2 DEF Work
  <1>3. w \notin withdrawn'
    BY <1>1 DEF WithdrawalInv, Withdrawal
  <1>4. Withdrawal(w)'
    BY <1>1, <1>2, <1>3 DEF Withdrawal
  <1> QED
    BY <1>1, <1>4, SameTables, OthersUnconcerned

\* Work that goes on: what was withdrawn does not register.
LEMMA AdvanceWithdrawal ==
  ASSUME AdminInv, AdminInv', WithdrawalInv, NEW w \in Work, Register(w) \/ Recheck(w)
  PROVE  WithdrawalInv'
  <1>1. /\ UNCHANGED <<session, identity, cancelled, withdrawn>>
        /\ \A v \in Work \ {w} : work'[v] = work[v]
        /\ SameCaller(w)
        /\ work[w].stage \in {"arrived", "registered"} /\ work'[w].stage \in Handling
    <2>1. PICK to \in Handling :
            /\ work[w].stage \in {"arrived", "registered"}
            /\ SetWork(w, [work[w] EXCEPT !.stage = to])
      BY DEF Register, Recheck, Step, Handling
    <2>2. work[w] \in WorkRecords /\ work \in [Work -> WorkRecords]
      BY DEF AdminInv, TypeOK
    <2>3. /\ work'[w] = [work[w] EXCEPT !.stage = to]
          /\ \A v \in Work \ {w} : work'[v] = work[v]
      BY <2>1, <2>2 DEF SetWork
    <2>4. SameCaller(w) /\ work'[w].stage = to
      BY <2>2, <2>3 DEF SameCaller, WorkRecords
    <2> QED
      BY <2>1, <2>3, <2>4 DEF SetWork, tables
  <1>2. ASSUME Register(w) PROVE w \notin withdrawn
    <2>1. Withdrawal(w)
      BY DEF WithdrawalInv
    <2>2. CASE w \in Requests
      BY <1>2, <2>1, <2>2 DEF Register, Withdrawal
    <2>3. CASE w \in Calls
      <3>1. identity[work[w].who].revision = work[w].version
        BY <1>2, <2>3 DEF Register, Admitted, Valid
      <3>2. work[w].version \in Nat
        BY RevisionsTyped DEF AdminInv
      <3> QED
        BY <2>1, <2>3, <3>1, <3>2 DEF Withdrawal
    <2> QED
      BY <2>2, <2>3 DEF Work
  <1>3. w \in withdrawn => work[w].stage \in Handling
    BY <1>2 DEF Recheck, Step, Handling
  <1>4. (\E v \in Work : OwedBy(v, w)) => \E v \in Work : OwedBy(v, w)'
    BY <1>1, OwedStill
  <1>5. Monotone /\ Withdrawal(w)
    BY <1>1, SameTables DEF WithdrawalInv
  <1>6. work'[w].stage # "idle" /\ work[w].stage # "idle"
    BY <1>1 DEF Handling
  <1>7. Withdrawal(w)'
    BY <1>1, <1>3, <1>4, <1>5, <1>6, Unconcerned
  <1> QED
    BY <1>1, <1>5, <1>7, OthersUnconcerned

LEMMA EndWithdrawal ==
  ASSUME AdminInv, AdminInv', WithdrawalInv, NEW w \in Work, Monotone, End(w, cancelled),
         work[w].stage \notin {"cancel requests", "cancel calls"}
  PROVE  WithdrawalInv'
  <1>1. work \in [Work -> WorkRecords]
    BY DEF AdminInv, TypeOK
  <1> QED
    BY <1>1, EndedWork, OthersUnconcerned

LEMMA UpdatingWithdrawal ==
  ASSUME AdminInv, AdminInv', WithdrawalInv, NEW w \in Work, NEW a, NEW row,
         work[w].stage = "running", StartUpdate(w, a, row)
  PROVE  WithdrawalInv'
  <1>1. /\ UNCHANGED <<session, identity, cancelled, withdrawn>>
        /\ \A v \in Work \ {w} : work'[v] = work[v]
        /\ SameCaller(w) /\ work'[w].stage = "updating"
    <2>1. work[w] \in WorkRecords /\ work \in [Work -> WorkRecords]
      BY DEF AdminInv, TypeOK
    <2>2. /\ work'[w] = [work[w] EXCEPT !.stage = "updating", !.target = a, !.row = row]
          /\ \A v \in Work \ {w} : work'[v] = work[v]
      BY <2>1 DEF StartUpdate, LockTable
    <2>3. SameCaller(w) /\ work'[w].stage = "updating"
      BY <2>1, <2>2 DEF SameCaller, WorkRecords
    <2> QED
      BY <2>2, <2>3 DEF StartUpdate, LockTable, tables
  <1>2. Monotone /\ Withdrawal(w)
    BY <1>1, SameTables DEF WithdrawalInv
  <1>3. Withdrawal(w)'
    BY <1>1, <1>2, Unconcerned DEF Handling
  <1> QED
    BY <1>1, <1>2, <1>3, OthersUnconcerned

\* Cancelling: what is no longer owed is cancelled, and a request that has cancelled
\* the requests still owes the calls.
LEMMA CancelWithdrawal ==
  ASSUME AdminInv, AdminInv', WithdrawalInv, NEW w \in Work, CancelRequests(w) \/ CancelCalls(w)
  PROVE  WithdrawalInv'
  <1>1. work \in [Work -> WorkRecords] /\ work[w] \in WorkRecords
    BY DEF AdminInv, TypeOK
  <1>2. Monotone
    BY SameTables DEF CancelRequests, CancelCalls, tables
  <1>3. /\ \A v \in Work \ {w} : work'[v] = work[v]
        /\ withdrawn' \subseteq withdrawn
        /\ \/ Withdrawal(w)'
           \/ /\ work[w].stage = "cancel requests" /\ work'[w].stage = "cancel calls"
              /\ work'[w].target = work[w].target /\ SameCaller(w)
    <2>1. CASE \E jobs : End(w, jobs)
      BY <1>1, <2>1, EndedWork
    <2>2. CASE /\ work[w].stage = "cancel requests"
               /\ work' = [work EXCEPT ![w].stage = "cancel calls"] /\ UNCHANGED withdrawn
      BY <1>1, <2>2 DEF SameCaller, WorkRecords
    <2> QED
      BY <2>1, <2>2 DEF CancelRequests, CancelCalls
  <1>4. ASSUME NEW x \in Work, x # w, work[x].stage \in Handling,
               x \in cancelled \/ \E v \in Work : OwedBy(v, x)
        PROVE  x \in cancelled' \/ \E v \in Work : OwedBy(v, x)'
    <2>1. work'[x] = work[x] /\ x \in Registered
      BY <1>3, <1>4 DEF Registered, Handling
    <2>2. CASE x \in cancelled
      BY <1>4, <2>2 DEF CancelRequests, CancelCalls, End
    <2>3. CASE \E v \in Work \ {w} : OwedBy(v, x)
      BY <1>3, <2>1, <2>3 DEF OwedBy
    <2>4. CASE OwedBy(w, x) /\ x \in Requests
      <3>1. x \in RequestsOf(work[w].target, work[w].keep)
        BY <2>1, <2>4 DEF OwedBy, RequestsOf
      <3> QED
        BY <1>4, <2>4, <3>1 DEF OwedBy, CancelRequests, CancelCalls, End
    <2>5. CASE OwedBy(w, x) /\ x \in Calls /\ CancelCalls(w)
      <3>1. x \in Jobs(work[w].target)
        BY <2>1, <2>5 DEF OwedBy, Jobs
      <3> QED
        BY <1>4, <2>5, <3>1 DEF CancelCalls, End
    <2>6. CASE OwedBy(w, x) /\ x \in Calls /\ CancelRequests(w)
      <3>1. x \notin Requests
        BY <2>6
      <3>2. work[w].keep = Nothing /\ work[w].target = work[x].who
        BY <2>6, <3>1 DEF OwedBy, CancelRequests
      <3>3. work' = [work EXCEPT ![w].stage = "cancel calls"]
        BY <2>6, <3>2 DEF CancelRequests
      <3>4. work'[w].stage = "cancel calls" /\ work'[w].target = work[w].target
        BY <1>1, <3>3 DEF WorkRecords
      <3> QED
        BY <2>1, <3>1, <3>2, <3>4 DEF OwedBy
    <2> QED
      BY <1>4, <2>2, <2>3, <2>4, <2>5, <2>6 DEF Work
  <1> SUFFICES ASSUME NEW x \in Work PROVE Withdrawal(x)'
    BY DEF WithdrawalInv
  <1>5. CASE x # w
    <2>1. work'[x] = work[x] /\ SameCaller(x) /\ Withdrawal(x)
      BY <1>3, <1>5 DEF SameCaller, WithdrawalInv
    <2> QED
      BY <1>2, <1>3, <1>4, <1>5, <2>1, Unconcerned
  <1>6. CASE x = w
    BY <1>2, <1>3, <1>6, Unconcerned DEF WithdrawalInv, Handling
  <1> QED
    BY <1>5, <1>6

\* A change by w that withdraws the sessions the requests R of a use, or the token the
\* calls C of a present, and goes on to cancel them.
Withdrawing(w, a, stage, keep, R, C) ==
  /\ GoOn(w, stage, a, keep)
  /\ withdrawn' = withdrawn \union R \union C /\ cancelled' = cancelled
  /\ \A r \in R : /\ stage = "cancel requests"
                  /\ work[r].who = a /\ work[r].session \in Sessions
                  /\ work[r].session # keep /\ session'[work[r].session] = Nothing
  /\ \A c \in C : /\ keep = Nothing /\ work[c].who = a
                  /\ identity'[a].revision = identity[a].revision + 1

LEMMA OneMoreRevision ==
  \A i, j \in Nat : i <= j => i <= j + 1 /\ i < j + 1
  OBVIOUS

LEMMA ChangeWithdrawal ==
  ASSUME AdminInv, AdminInv', WithdrawalInv, Monotone, NEW w \in Work,
         work[w].stage \in {"running", "updating"}, NEW a \in Administrators,
         NEW stage \in {"cancel requests", "cancel calls"},
         NEW keep \in Sessions \union {Nothing},
         NEW R \in SUBSET Requests, NEW C \in SUBSET Calls, Withdrawing(w, a, stage, keep, R, C)
  PROVE  WithdrawalInv'
  <1>1. TypeOK /\ TypeOK'
    BY DEF AdminInv
  <1>2. /\ \A v \in Work \ {w} : work'[v] = work[v]
        /\ work'[w].stage = stage /\ work'[w].target = a /\ work'[w].keep = keep
        /\ SameCaller(w)
    <2>1. GoOn(w, stage, a, keep)
      BY DEF Withdrawing
    <2>2. /\ \A v \in Work \ {w} : work'[v] = work[v]
          /\ work'[w].stage = stage /\ work'[w].target = a /\ work'[w].keep = keep
          /\ work'[w].who = work[w].who /\ work'[w].session = work[w].session
          /\ work'[w].version = work[w].version /\ work'[w].role = work[w].role
          /\ work'[w].limited = work[w].limited
      <3>1. CASE stage = "cancel requests"
        BY <1>1, <2>1, <3>1, GoOnTyped
      <3>2. CASE stage = "cancel calls"
        BY <1>1, <2>1, <3>2, GoOnTyped
      <3> QED
        BY <3>1, <3>2
    <2> QED
      BY <2>2 DEF SameCaller
  <1>3. \A x \in Work : SameCaller(x) /\ (work'[x].stage = "idle" <=> work[x].stage = "idle")
    BY <1>2 DEF SameCaller
  <1> SUFFICES ASSUME NEW x \in Work PROVE Withdrawal(x)'
    BY DEF WithdrawalInv
  <1>4. Withdrawal(x)
    BY DEF WithdrawalInv
  <1>5. /\ work'[x].who = work[x].who /\ work'[x].session = work[x].session
        /\ work'[x].version = work[x].version
    BY <1>3 DEF SameCaller
  <1>6. CASE x \in R
    <2>1. x \in Requests /\ x \notin Calls
      BY <1>6
    <2>2. work'[x].stage # "idle"
      BY <1>3, <1>4, <1>6 DEF Withdrawal, Withdrawing
    <2>3. session'[work'[x].session] = Nothing
      BY <1>5, <1>6 DEF Withdrawing
    <2>4. OwedBy(w, x)'
      BY <1>2, <1>5, <1>6, <2>1 DEF Withdrawing, OwedBy
    <2> QED
      BY <2>1, <2>2, <2>3, <2>4 DEF Withdrawal
  <1>7. CASE x \in C
    <2>1. x \in Calls /\ x \notin Requests /\ work[x].who = a
      BY <1>7 DEF Withdrawing
    <2>2. work[x].stage # "idle" /\ work'[x].stage # "idle"
      BY <1>3, <1>4, <2>1 DEF Withdrawal
    <2>3. work[x].version <= identity[a].revision
      BY <1>4, <2>1, <2>2 DEF Withdrawal
    <2>4. identity'[a].revision = identity[a].revision + 1
      BY <1>7 DEF Withdrawing
    <2>5. work[x].version \in Nat /\ identity[a].revision \in Nat
      BY <1>1, RevisionsTyped
    <2>6. /\ work[x].version <= identity[a].revision + 1
          /\ work[x].version < identity[a].revision + 1
      BY <2>3, <2>5, OneMoreRevision
    <2>7. /\ work'[x].version <= identity'[work'[x].who].revision
          /\ work'[x].version < identity'[work'[x].who].revision
      BY <1>5, <2>1, <2>4, <2>6
    <2>8. OwedBy(w, x)'
      BY <1>2, <1>5, <1>7, <2>1 DEF Withdrawing, OwedBy
    <2> QED
      BY <2>1, <2>2, <2>7, <2>8 DEF Withdrawal
  <1>8. CASE x \notin R /\ x \notin C
    <2>1. (\E v \in Work : OwedBy(v, x)) => \E v \in Work : OwedBy(v, x)'
      BY <1>2, <1>3, OwedStill
    <2>2. work'[x].stage \in Handling => work[x].stage \in Handling
      BY <1>2 DEF Handling
    <2>3. (x \in withdrawn' => x \in withdrawn) /\ cancelled' = cancelled
      BY <1>8 DEF Withdrawing
    <2> QED
      BY <1>3, <1>4, <2>1, <2>2, <2>3, Unconcerned
  <1> QED
    BY <1>6, <1>7, <1>8

\* What a change leaves of the sessions and revisions, for each of its shapes.
LEMMA DeletedSessions ==
  ASSUME AdminInv, NEW a \in Administrators, NEW keep \in Sessions \union {Nothing},
         \A s \in Sessions : s # keep => session'[s] = WithoutSessions(Doomed(a, keep))[s],
         keep # Nothing => session[keep] # Nothing
  PROVE  /\ \A r \in Requests : work[r].stage # "idle" /\ session[work[r].session] = Nothing =>
              session'[work[r].session] = Nothing
         /\ \A r \in Using(Doomed(a, keep)) :
              /\ work[r].session \in Sessions /\ work[r].session # keep
              /\ session'[work[r].session] = Nothing
              /\ session[work[r].session] # Nothing /\ session[work[r].session].who = a
  <1>1. \A r \in Requests : work[r].stage # "idle" => work[r].session \in Sessions
    BY DEF AdminInv, WorkInv, Snapshot, Work
  <1>2. \A s \in Sessions : session[s] = Nothing => s # keep /\ session'[s] = Nothing
    BY DEF WithoutSessions
  <1>3. \A s \in Doomed(a, keep) : s \in Sessions /\ s # keep /\ session'[s] = Nothing
    BY DEF WithoutSessions, Doomed
  <1> QED
    BY <1>1, <1>2, <1>3 DEF Using, Doomed

LEMMA UsersActForOwner ==
  ASSUME AdminInv, WithdrawalInv, NEW r \in Requests, work[r].session \in Sessions,
         session[work[r].session] # Nothing
  PROVE  work[r].who = session[work[r].session].who
  <1>1. work[r].stage # "idle"
    BY DEF WithdrawalInv, Withdrawal, Work
  <1> QED
    BY <1>1 DEF AdminInv, WorkInv, Snapshot, Work

LEMMA RevisedOnce ==
  ASSUME AdminInv, NEW a \in Administrators, NEW live, identity' = Revised(a, live)
  PROVE  /\ identity'[a].revision = identity[a].revision + 1
         /\ \A b \in Administrators : identity[b].revision <= identity'[b].revision
  <1>1. \A b \in Administrators : identity[b].revision \in Nat
    BY DEF AdminInv, TypeOK
  <1>2. /\ identity'[a].revision = identity[a].revision + 1
        /\ \A b \in Administrators \ {a} : identity'[b].revision = identity[b].revision
    BY DEF Revised, AdminInv, TypeOK
  <1>3. identity[a].revision <= identity'[a].revision
    BY <1>1, <1>2
  <1>4. \A b \in Administrators \ {a} : identity[b].revision <= identity'[b].revision
    BY <1>1, <1>2
  <1> QED
    BY <1>2, <1>3, <1>4

\* An update or a reset withdraws all its account holds.
LEMMA AccountWithdrawal ==
  ASSUME AdminInv, AdminInv', WithdrawalInv, NEW w \in Work,
         work[w].stage \in {"running", "updating"}, NEW a \in Administrators,
         session' = WithoutSessions(Doomed(a, Nothing)), identity' = Revised(a, FALSE),
         withdrawn' = withdrawn \union Using(Doomed(a, Nothing)) \union CallsOf(a),
         cancelled' = cancelled, GoOn(w, "cancel requests", a, Nothing)
  PROVE  WithdrawalInv'
  <1>0. /\ \A r \in Requests : work[r].stage # "idle" /\ session[work[r].session] = Nothing =>
              session'[work[r].session] = Nothing
        /\ \A r \in Using(Doomed(a, Nothing)) :
              /\ work[r].session \in Sessions /\ work[r].session # Nothing
              /\ session'[work[r].session] = Nothing
              /\ session[work[r].session] # Nothing /\ session[work[r].session].who = a
    BY DeletedSessions
  <1>1. Monotone
    BY <1>0, RevisedOnce DEF Monotone
  <1>2. \A r \in Using(Doomed(a, Nothing)) :
          /\ work[r].who = a /\ work[r].session \in Sessions
          /\ work[r].session # Nothing /\ session'[work[r].session] = Nothing
    <2>1. Using(Doomed(a, Nothing)) \subseteq Requests
      BY DEF Using
    <2> QED
      BY <1>0, <2>1, UsersActForOwner
  <1>3. \A c \in CallsOf(a) :
          work[c].who = a /\ identity'[a].revision = identity[a].revision + 1
    BY RevisedOnce DEF CallsOf
  <1>4. Withdrawing(w, a, "cancel requests", Nothing, Using(Doomed(a, Nothing)), CallsOf(a))
    BY <1>2, <1>3 DEF Withdrawing
  <1>5. Using(Doomed(a, Nothing)) \in SUBSET Requests /\ CallsOf(a) \in SUBSET Calls
    BY DEF Using, CallsOf
  <1> QED
    BY <1>1, <1>4, <1>5, ChangeWithdrawal

LEMMA PasswordWithdrawal ==
  ASSUME AdminInv, AdminInv', WithdrawalInv, NEW w \in Work, ChangePassword(w)
  PROVE  WithdrawalInv'
  <1>1. PICK a, keep : a = work[w].who /\ keep = work[w].session
    OBVIOUS
  <1>2. /\ w \in Requests /\ work[w].stage = "running" /\ Valid(w)
        /\ session' = [WithoutSessions(Doomed(a, keep)) EXCEPT
                          ![keep].password = account'[a].password]
        /\ withdrawn' = withdrawn \union Using(Doomed(a, keep))
        /\ GoOn(w, "cancel requests", a, keep)
        /\ identity' = identity /\ cancelled' = cancelled
    BY <1>1 DEF ChangePassword, Checked
  <1>3. /\ a \in Administrators /\ keep \in Sessions /\ session[keep] # Nothing
    BY <1>1, <1>2, ValidRequest
  <1>4. \A s \in Sessions : s # keep => session'[s] = WithoutSessions(Doomed(a, keep))[s]
    BY <1>2 DEF WithoutSessions
  <1>5. /\ \A r \in Requests : work[r].stage # "idle" /\ session[work[r].session] = Nothing =>
              session'[work[r].session] = Nothing
        /\ \A r \in Using(Doomed(a, keep)) :
              /\ work[r].session \in Sessions /\ work[r].session # keep
              /\ session'[work[r].session] = Nothing
              /\ session[work[r].session] # Nothing /\ session[work[r].session].who = a
    BY <1>3, <1>4, DeletedSessions
  <1>6. Monotone
    <2>1. \A b \in Administrators : identity[b].revision <= identity'[b].revision
      <3>1. \A b \in Administrators : identity[b].revision \in Nat
        BY DEF AdminInv, TypeOK
      <3>2. \A i \in Nat : i <= i
        OBVIOUS
      <3> QED
        BY <1>2, <3>1, <3>2
    <2> QED
      BY <1>5, <2>1 DEF Monotone
  <1>7. \A r \in Using(Doomed(a, keep)) :
          /\ work[r].who = a /\ work[r].session \in Sessions
          /\ work[r].session # keep /\ session'[work[r].session] = Nothing
    BY <1>5, UsersActForOwner DEF Using
  <1>8. Withdrawing(w, a, "cancel requests", keep, Using(Doomed(a, keep)), {})
    BY <1>2, <1>7 DEF Withdrawing
  <1>9. Using(Doomed(a, keep)) \in SUBSET Requests
    BY DEF Using
  <1> QED
    BY <1>2, <1>3, <1>6, <1>8, <1>9, ChangeWithdrawal

LEMMA TokenWithdrawal ==
  ASSUME AdminInv, AdminInv', WithdrawalInv, NEW w \in Work,
         IssueToken(w) \/ \E a \in Administrators : RevokeToken(w, a)
  PROVE  WithdrawalInv'
  <1>1. w \in Requests /\ work[w].stage = "running"
    BY DEF IssueToken, RevokeToken, MayChange
  <1>2. work[w].who \in Administrators
    BY <1>1 DEF AdminInv, WorkInv
  <1>3. PICK a \in Administrators, live \in BOOLEAN : SetToken(w, a, live)
    BY <1>2 DEF IssueToken, RevokeToken
  <1>4. Monotone
    <2>1. identity' = Revised(a, live) /\ session' = session
      BY <1>3 DEF SetToken
    <2>2. \A b \in Administrators : identity[b].revision <= identity'[b].revision
      BY <2>1, RevisedOnce
    <2> QED
      BY <2>1, <2>2 DEF Monotone
  <1>5. Withdrawing(w, a, "cancel calls", Nothing, {}, CallsOf(a))
    BY <1>3, RevisedOnce DEF SetToken, CallsOf, Withdrawing
  <1>6. CallsOf(a) \in SUBSET Calls
    BY DEF CallsOf
  <1> QED
    BY <1>1, <1>4, <1>5, <1>6, ChangeWithdrawal

LEMMA NextWithdrawal ==
  AdminInv /\ AdminInv' /\ WithdrawalInv /\ [Next]_vars => WithdrawalInv'
  <1> SUFFICES ASSUME AdminInv, AdminInv', WithdrawalInv, [Next]_vars PROVE WithdrawalInv'
    OBVIOUS
  <1>1. CASE \/ \E l \in Logins :
                  \/ \E a \in Administrators : Setup(l, a) \/ Verify(l, a)
                  \/ LockRow(l)
                  \/ \E s \in Sessions : IssueSession(l, s)
                  \/ LoginFails(l)
             \/ \E s \in Sessions : EndSession(s)
             \/ \E a \in Administrators : Lapse(a) \/ ExpireToken(a)
    BY <1>1, QuietWithdrawal
  <1>2. CASE \/ \E r \in Requests, s \in Sessions : Arrive(r, s)
             \/ \E c \in Calls, a \in Administrators : Present(c, a)
    BY <1>2, ArrivalWithdrawal DEF Work
  <1>3. ASSUME NEW w \in Work, Register(w) \/ Recheck(w) PROVE WithdrawalInv'
    BY <1>3, AdvanceWithdrawal
  <1>4. ASSUME NEW w \in Work,
               \/ Return(w) \/ Mutate(w)
               \/ \E a \in Administrators, role \in Roles : CreateAdministrator(w, a, role)
        PROVE  WithdrawalInv'
    <2>1. /\ work[w].stage \notin {"cancel requests", "cancel calls"} /\ End(w, cancelled)
          /\ UNCHANGED <<session, identity>>
      BY <1>4 DEF Return, Mutate, CreateAdministrator, MayAdminister, MayChange, tables
    <2> QED
      BY <2>1, SameTables, EndWithdrawal
  <1>5. ASSUME NEW w \in Work, CommitUpdate(w) PROVE WithdrawalInv'
    <2>1. PICK a \in Administrators : a = work[w].target /\ work[w].stage = "updating"
      BY <1>5 DEF CommitUpdate, AdminInv, WorkInv, Update
    <2>2. CASE Withdraws(account[a], work[w].row)
      BY <1>5, <2>1, <2>2, AccountWithdrawal DEF CommitUpdate
    <2>3. CASE ~Withdraws(account[a], work[w].row)
      <3>1. UNCHANGED <<session, identity>> /\ End(w, cancelled)
        BY <1>5, <2>1, <2>3 DEF CommitUpdate
      <3> QED
        BY <2>1, <3>1, SameTables, EndWithdrawal
    <2> QED
      BY <2>2, <2>3
  <1>6. ASSUME NEW w \in Work, NEW a \in Administrators, ResetPassword(w, a)
        PROVE  WithdrawalInv'
    <2>1. work[w].stage = "running"
      BY <1>6 DEF ResetPassword, MayAdminister, MayChange
    <2> QED
      BY <1>6, <2>1, AccountWithdrawal DEF ResetPassword
  <1>7. ASSUME NEW w \in Work, NEW a, NEW row, StartUpdate(w, a, row) PROVE WithdrawalInv'
    BY <1>7, UpdatingWithdrawal DEF StartUpdate, MayAdminister, MayChange
  <1>8. ASSUME NEW w \in Work,
               \/ ChangePassword(w) \/ CancelRequests(w) \/ CancelCalls(w)
               \/ IssueToken(w) \/ \E a \in Administrators : RevokeToken(w, a)
        PROVE  WithdrawalInv'
    BY <1>8, PasswordWithdrawal, CancelWithdrawal, TokenWithdrawal
  <1>9. CASE UNCHANGED vars
    <2>1. /\ work' = work /\ withdrawn' = withdrawn /\ cancelled' = cancelled
          /\ UNCHANGED <<session, identity>>
      BY <1>9 DEF vars, tables
    <2> QED
      BY <2>1, SameTables, NoWorkStep
  <1> QED
    BY <1>1, <1>2, <1>3, <1>4, <1>5, <1>6, <1>7, <1>8, <1>9 DEF Next

\* Its strengthening, in every reachable state.
THEOREM WithdrawalInvariant == Spec => []WithdrawalInv
  <1>1. Init => WithdrawalInv
    BY DEF Init, Idle, WithdrawalInv, Withdrawal
  <1> QED
    BY <1>1, NextWithdrawal, AdminInvariant, PTL DEF Spec

\* A change that withdraws a session or a token reaches all work done with it: what has
\* registered is cancelled, by the handler of the change if not yet, and what registers
\* later is refused.
THEOREM WithdrawnWorkEnds == Spec => []WithdrawnWorkIsCancelled
  <1>1. AdminInv /\ WithdrawalInv => WithdrawnWorkIsCancelled
    <2> SUFFICES ASSUME AdminInv, WithdrawalInv, NEW w \in withdrawn,
                        work[w].stage = "running", ~Owed(w)
                 PROVE  w \in cancelled
      BY DEF WithdrawnWorkIsCancelled
    <2>0. w \in Work
      BY DEF AdminInv, TypeOK
    <2>1. w \in cancelled \/ \E v \in Work : OwedBy(v, w)
      BY <2>0 DEF WithdrawalInv, Withdrawal, Handling
    <2>2. \A v \in Work : OwedBy(v, w) => Owed(w)
      BY <2>0 DEF OwedBy, Owed, Work
    <2> QED
      BY <2>1, <2>2
  <1> QED
    BY <1>1, WithdrawalInvariant, AdminInvariant, PTL
=============================================================================

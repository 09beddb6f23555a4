---------------------------- MODULE OAuthGrants ----------------------------
(***************************************************************************)
(* OAuth grants, from the authorization request to the last use of their    *)
(* tokens (internal/oauth; internal/server: agents.go, server.go).         *)
(*                                                                         *)
(* A grant is one authorization request with the consent, the Agent and    *)
(* the tokens that come of it; its id stands for all their ids.  Rows of    *)
(* the table oauth are deleted, or turned inactive so that their reuse can *)
(* be recognized.  tokenMu serializes token exchange, consent, revocation  *)
(* and client changes; Store.Mutations the changes of Agents; a request    *)
(* presenting an access token and the first half of an authorization take  *)
(* neither.  No handler but saveClient uses a transaction: it may fail, or  *)
(* the process die, between any two statements.                            *)
(*                                                                         *)
(* The Fosite library is modelled by the calls it makes to storage.  Left  *)
(* out: names, secrets, scopes other than offline_access, audiences, and   *)
(* requests that fail before they change anything.                         *)
(***************************************************************************)
EXTENDS Integers, FiniteSets

CONSTANTS
  Grants,
  Clients,
  Redirects,      \* redirect URIs a client may register
  Calls,          \* requests that use an access token
  Nothing,
  MaxIssues,      \* bound: how often tokens are issued to one grant
  MaxGenerations  \* bound: invalidating changes of one client

VARIABLES
  client,     \* the client rows
  request,    \* the authorization requests
  preparing,  \* requests that are validated but not stored yet
  rows,       \* the table oauth, but for clients
  agent,      \* the Agent of each grant
  tokenMu,    \* Nothing, or what its holder is about to do
  mutations,  \* Store.Mutations: Nothing, or the Agents its holder still has to cancel
  call,       \* the requests using access tokens, with their local variables
  cancelled,  \* calls whose job was cancelled
  generation, \* history: invalidating changes of each client so far
  granted,    \* history: the client's generation when consent was given
  ended,      \* history: grants ended by a replay or a revocation
  withdrawn   \* history: grants whose revocation is complete

tables == <<client, rows, agent>>
history == <<generation, granted, ended, withdrawn>>
calls == <<call, cancelled>>
vars == <<tables, request, preparing, tokenMu, mutations, calls, history>>

ASSUME BoundsAreNaturals == MaxIssues \in Nat /\ MaxGenerations \in Nat
ASSUME NothingIsNothing ==
  /\ Nothing \notin Grants
  /\ \A some \in SUBSET Grants : some # Nothing
  /\ \A c \in Clients, redirect \in Redirects, n \in 0..MaxGenerations :
       [client |-> c, redirect |-> redirect, generation |-> n] # Nothing

Issues == 0..MaxIssues
Rows == [kind: {"consent", "code", "pkce", "access", "refresh"}, grant: Grants,
         n: Issues, active: BOOLEAN]

Row(kind, g, n) == [kind |-> kind, grant |-> g, n |-> n, active |-> TRUE]
Spent(row) == [row EXCEPT !.active = FALSE]
OfGrant(kind, g) == {r \in rows : r.kind = kind /\ r.grant = g}

\* RevokeAccessToken deletes, RevokeRefreshToken turns inactive.
WithoutAccess(g) == rows \ OfGrant("access", g)
WithoutRefresh(g) ==
  (rows \ OfGrant("refresh", g)) \union {Spent(r) : r \in OfGrant("refresh", g)}

Places == {"agent", "spend", "old access", "access", "refresh",
           "revoke refresh", "revoke access", "cancel", "client"}
Idle == [stage |-> "idle", pass |-> 1, grant |-> Nothing, n |-> 0, late |-> FALSE]

\* The values are of their types, and codes and tokens have an Agent (Consent saves it
\* first).
TypeOK ==
  /\ client \in [Clients -> [redirect: Redirects, enabled: BOOLEAN] \union {Nothing}]
  /\ request \in [Grants -> [client: Clients, redirect: Redirects, generation: 0..MaxGenerations]
                              \union {Nothing}]
  /\ preparing \subseteq Grants
  /\ rows \subseteq Rows
  /\ \A r \in rows : r.kind # "consent" => agent[r.grant] # "none"
  /\ agent \in [Grants -> {"none", "enabled", "paused", "revoked"}]
  /\ tokenMu \in [place: Places, kind: {"code", "refresh", "revoke", "client"},
                  grant: Grants \union {Nothing}, n: Issues,
                  known: BOOLEAN] \union {Nothing}
  /\ mutations \in (SUBSET Grants) \union {Nothing}
  /\ call \in [Calls -> [stage: {"idle", "introspect", "client", "agent", "register",
                                 "run"},
                         pass: 1..3, grant: Grants \union {Nothing}, n: Issues,
                         late: BOOLEAN]]
  /\ cancelled \subseteq Calls
  /\ generation \in [Clients -> 0..MaxGenerations]
  /\ granted \in [Grants -> 0..MaxGenerations \union {Nothing}]
  /\ ended \subseteq Grants /\ withdrawn \subseteq Grants

Init ==
  /\ client = [c \in Clients |-> Nothing]
  /\ request = [g \in Grants |-> Nothing]
  /\ preparing = {}
  /\ rows = {}
  /\ agent = [g \in Grants |-> "none"]
  /\ tokenMu = Nothing
  /\ mutations = Nothing
  /\ call = [c \in Calls |-> Idle]
  /\ cancelled = {}
  /\ generation = [c \in Clients |-> 0]
  /\ granted = [g \in Grants |-> Nothing]
  /\ ended = {} /\ withdrawn = {}

\* GetClient
Enabled(c) == client[c] # Nothing /\ client[c].enabled
ClientEnabled(g) == request[g] # Nothing /\ Enabled(request[g].client)

(***************************************************************************)
(* Clients                                                                 *)
(***************************************************************************)
\* Register: a new client, or a metadata document seen for the first time.
Register(c, redirect) ==
  /\ tokenMu = Nothing /\ mutations = Nothing
  /\ client[c] = Nothing
  /\ client' = [client EXCEPT ![c] = [redirect |-> redirect, enabled |-> TRUE]]
  /\ UNCHANGED <<rows, agent, request, preparing, tokenMu, mutations, calls, history>>

OfClient(c) == {g \in Grants : request[g] # Nothing /\ request[g].client = c}

\* Sensitivity variant: Agents are found by the requests stored for them only.
AffectedByRows(c) ==
  {g \in OfClient(c) : agent[g] # "none" /\ \E r \in rows : r.grant = g}

\* Agents of a client.  One that is revoked already is revoked once more.
Affected(c) == {g \in OfClient(c) : agent[g] # "none"}

\* saveClient with invalidation: one transaction, then the cancellations, for which
\* all locks are kept.
SaveClient(c, row) ==
  /\ tokenMu = Nothing /\ mutations = Nothing
  /\ generation[c] < MaxGenerations
  /\ client' = [client EXCEPT ![c] = row]
  /\ rows' = {r \in rows : r.grant \notin OfClient(c)}
  /\ agent' = [g \in Grants |-> IF g \in Affected(c) THEN "revoked" ELSE agent[g]]
  /\ generation' = [generation EXCEPT ![c] = @ + 1]
  /\ tokenMu' = [place |-> "client", kind |-> "client", grant |-> Nothing, n |-> 0,
                 known |-> TRUE]
  /\ mutations' = Affected(c)
  /\ UNCHANGED <<request, preparing, calls, granted, ended, withdrawn>>

\* UpdateClient and Register change redirects or access, DeleteClient removes the row;
\* RotateClientSecret changes only what is not modelled here (the redirect is kept).
ChangeClient(c) ==
  /\ client[c] # Nothing
  /\ \/ \E redirect \in Redirects : SaveClient(c, [client[c] EXCEPT !.redirect = redirect])
     \/ SaveClient(c, [client[c] EXCEPT !.enabled = ~@])
     \/ SaveClient(c, Nothing)

\* InvalidateAgent cancels the registered jobs of an Agent.
Jobs(g) ==
  {c \in Calls : call[c].grant = g /\ call[c].pass > 1}

\* The cancellations owed by whoever holds Store.Mutations.
CancelAgents ==
  /\ mutations # Nothing
  /\ cancelled' = cancelled \union UNION {Jobs(g) : g \in mutations}
  /\ mutations' = Nothing
  /\ tokenMu' = IF tokenMu # Nothing /\ tokenMu.place = "client" THEN Nothing ELSE tokenMu
  /\ UNCHANGED <<tables, request, preparing, call, history>>

(***************************************************************************)
(* Agents                                                                  *)
(***************************************************************************)
SetAgent(g, state) ==
  /\ mutations = Nothing
  /\ agent' = [agent EXCEPT ![g] = state]
  /\ mutations' = {g}
  /\ UNCHANGED <<client, rows, request, preparing, tokenMu, calls, history>>

\* saveAgent: a paused or expired Agent can be resumed, a revoked one cannot.
Pause(g) == agent[g] = "enabled" /\ SetAgent(g, "paused")
Resume(g) == agent[g] = "paused" /\ SetAgent(g, "enabled")

\* Its time passes; saveAgent may extend it, which is another Resume.
Lapse(g) ==
  /\ agent[g] = "enabled"
  /\ agent' = [agent EXCEPT ![g] = "paused"]
  /\ UNCHANGED <<client, rows, request, preparing, tokenMu, mutations, calls, history>>

\* revokeAgent; rotateAgent refuses OAuth Agents.
RevokeAgent(g) == agent[g] # "none" /\ SetAgent(g, "revoked")

(***************************************************************************)
(* Authorization and consent                                               *)
(***************************************************************************)
\* Authorize, prepare: the client is enabled and the redirect URI one of its own.
Prepare(g, c, redirect) ==
  /\ request[g] = Nothing
  /\ Enabled(c) /\ client[c].redirect = redirect
  /\ request' = [request EXCEPT ![g] = [client |-> c, redirect |-> redirect,
                                        generation |-> generation[c]]]
  /\ preparing' = preparing \union {g}
  /\ UNCHANGED <<tables, tokenMu, mutations, calls, history>>

\* It is stored after that, without a lock; or the request fails.
StoreRequest(g) ==
  /\ g \in preparing
  /\ preparing' = preparing \ {g}
  /\ rows' \in {rows, rows \union {Row("consent", g, 0)}}
  /\ UNCHANGED <<client, agent, request, tokenMu, mutations, calls, history>>

\* Consent: the stored request is validated again, deleted, and on approval the Agent
\* and then the code are saved; a failure leaves the writes made until then.
Consent(g) ==
  LET undecided == rows \ OfGrant("consent", g) IN
  /\ tokenMu = Nothing /\ mutations = Nothing
  /\ OfGrant("consent", g) # {}
  /\ ClientEnabled(g)
  /\ client[request[g].client].redirect = request[g].redirect
  /\ \/ /\ rows' = undecided
        /\ UNCHANGED <<agent, granted>>
     \/ /\ rows' \in {undecided,
                      undecided \union {Row("code", g, 0)},
                      undecided \union {Row("code", g, 0), Row("pkce", g, 0)}}
        /\ agent' = [agent EXCEPT ![g] = "enabled"]
        /\ granted' = [granted EXCEPT ![g] = generation[request[g].client]]
  /\ UNCHANGED <<client, request, preparing, tokenMu, mutations, calls, generation,
                 ended, withdrawn>>

\* A row expires; it is not found any more, and cleaned up some time.
Expire(row) ==
  /\ row \in rows
  /\ rows' = rows \ {row}
  /\ UNCHANGED <<client, agent, request, preparing, tokenMu, mutations, calls, history>>

(***************************************************************************)
(* The token endpoint                                                      *)
(***************************************************************************)
Holds(place) == tokenMu # Nothing /\ tokenMu.place = place
Hold(place, kind, g, n, known) ==
  tokenMu' = [place |-> place, kind |-> kind, grant |-> g, n |-> n, known |-> known]
Proceed(place) == tokenMu' = [tokenMu EXCEPT !.place = place]
tokenFrame == <<client, agent, request, preparing, mutations, calls, generation,
                granted, withdrawn>>

\* NewAccessRequest with an authorization code.  The verifier is used up; a wrong one
\* ends the request, a spent code the grant.
PresentCode(g) ==
  /\ tokenMu = Nothing
  /\ ClientEnabled(g)
  /\ \E code \in OfGrant("code", g) :
       IF code.active
         THEN /\ OfGrant("pkce", g) # {}
              /\ rows' = rows \ OfGrant("pkce", g)
              /\ Hold("agent", "code", g, 0, TRUE) \/ UNCHANGED tokenMu
         ELSE /\ Hold("revoke refresh", "code", g, 0, TRUE)
              /\ UNCHANGED rows
  /\ UNCHANGED <<tokenFrame, ended>>

\* NewAccessRequest with a refresh token; a spent one ends the grant, and may be
\* forgotten then.
PresentRefresh(g, n) ==
  /\ tokenMu = Nothing
  /\ ClientEnabled(g)
  /\ \E refresh \in OfGrant("refresh", g) :
       /\ refresh.n = n
       /\ IF refresh.active
            THEN Hold("agent", "refresh", g, n, TRUE) /\ UNCHANGED rows
            ELSE /\ Hold("revoke refresh", "refresh", g, n, TRUE)
                 /\ rows' \in {rows, rows \ {refresh}}
  /\ UNCHANGED <<tokenFrame, ended>>

\* Token looks at the Agent before it lets Fosite answer.
CheckAgent ==
  /\ Holds("agent")
  /\ agent[tokenMu.grant] = "enabled"
  /\ Proceed("spend")
  /\ UNCHANGED <<rows, tokenFrame, ended>>

\* Sensitivity variant: rotation leaves the earlier access tokens.
SpendKeepingAccess ==
  /\ Holds("spend")
  /\ LET row == Row(tokenMu.kind, tokenMu.grant, tokenMu.n) IN
     /\ row \in rows
     /\ rows' = (rows \ {row}) \union {Spent(row)}
  /\ Proceed("access")
  /\ UNCHANGED <<tokenFrame, ended>>

\* InvalidateAuthorizeCodeSession, RotateRefreshToken: exactly one active row is
\* turned inactive.
Spend ==
  /\ Holds("spend")
  /\ LET row == Row(tokenMu.kind, tokenMu.grant, tokenMu.n) IN
     /\ row \in rows
     /\ rows' = (rows \ {row}) \union {Spent(row)}
  /\ Proceed(IF tokenMu.kind = "refresh" THEN "old access" ELSE "access")
  /\ UNCHANGED <<tokenFrame, ended>>

\* RotateRefreshToken then deletes the access tokens of the request.
RetireAccess ==
  /\ Holds("old access")
  /\ rows' = WithoutAccess(tokenMu.grant)
  /\ Proceed("access")
  /\ UNCHANGED <<tokenFrame, ended>>

\* CreateAccessTokenSession, and the answer unless offline_access was requested.
IssueAccess ==
  /\ Holds("access")
  /\ tokenMu.n < MaxIssues
  /\ rows' = rows \union {Row("access", tokenMu.grant, tokenMu.n + 1)}
  /\ \/ Proceed("refresh")
     \/ tokenMu.kind = "code" /\ tokenMu' = Nothing
  /\ UNCHANGED <<tokenFrame, ended>>

\* CreateRefreshTokenSession
IssueRefresh ==
  /\ Holds("refresh")
  /\ rows' = rows \union {Row("refresh", tokenMu.grant, tokenMu.n + 1)}
  /\ tokenMu' = Nothing
  /\ UNCHANGED <<tokenFrame, ended>>

\* An error: the lock is released, and what was written stays.
TokenFails ==
  /\ tokenMu # Nothing /\ tokenMu.place # "client"
  /\ tokenMu' = Nothing
  /\ UNCHANGED <<rows, tokenFrame, ended>>

(***************************************************************************)
(* Revocation                                                              *)
(***************************************************************************)
\* Revoke: a token of the grant.  Whose Agent it is may remain unknown: Principal
\* refuses a paused Agent, and its errors are ignored.
Revoke(g) ==
  /\ tokenMu = Nothing
  /\ ClientEnabled(g)
  /\ \E r \in rows, known \in BOOLEAN :
       /\ r.grant = g /\ r.kind \in {"access", "refresh"} /\ r.active
       /\ known => r.kind = "refresh" \/ agent[g] = "enabled"
       /\ Hold("revoke refresh", "revoke", g, r.n, known)
  /\ UNCHANGED <<rows, tokenFrame, ended>>

\* RevokeRefreshToken, for a replay or a revocation.
RevokeRefresh ==
  /\ Holds("revoke refresh")
  /\ rows' = WithoutRefresh(tokenMu.grant)
  /\ Proceed("revoke access")
  /\ UNCHANGED <<tokenFrame, ended>>

\* Sensitivity variant: a replay leaves the access tokens to expire.
RevokeAccessOnRequest ==
  /\ Holds("revoke access")
  /\ rows' = IF tokenMu.kind = "revoke" THEN WithoutAccess(tokenMu.grant) ELSE rows
  /\ ended' = IF tokenMu.known THEN ended \union {tokenMu.grant} ELSE ended
  /\ IF tokenMu.kind = "revoke" /\ tokenMu.known
       THEN Proceed("cancel") ELSE tokenMu' = Nothing
  /\ UNCHANGED tokenFrame

\* RevokeAccessToken
RevokeAccess ==
  /\ Holds("revoke access")
  /\ rows' = WithoutAccess(tokenMu.grant)
  /\ ended' = ended \union {tokenMu.grant}
  /\ IF tokenMu.kind = "revoke" /\ tokenMu.known
       THEN Proceed("cancel") ELSE tokenMu' = Nothing
  /\ UNCHANGED tokenFrame

\* InvalidateAgent ends a revocation.
CancelRevoked ==
  /\ Holds("cancel")
  /\ cancelled' = cancelled \union Jobs(tokenMu.grant)
  /\ tokenMu' = Nothing
  /\ withdrawn' = withdrawn \union {tokenMu.grant}
  /\ UNCHANGED <<tables, request, preparing, mutations, call, generation, granted, ended>>

(***************************************************************************)
(* Requests with an access token                                           *)
(***************************************************************************)
callFrame == <<tables, request, preparing, tokenMu, mutations, history>>

At(c, stage) == call[c].stage = stage
GoTo(c, stage) ==
  /\ call' = [call EXCEPT ![c].stage = stage]
  /\ UNCHANGED <<cancelled, callFrame>>

\* A request that presents an access token issued before, valid or not any more.
Begin(c, g, n) ==
  /\ At(c, "idle")
  /\ agent[g] # "none"
  /\ call' = [call EXCEPT ![c] = [Idle EXCEPT !.stage = "introspect", !.grant = g, !.n = n]]
  /\ UNCHANGED <<cancelled, callFrame>>

\* A check failed, an error, a timeout.
Fail(c) ==
  /\ ~At(c, "idle")
  /\ call' = [call EXCEPT ![c] = Idle]
  /\ cancelled' = cancelled \ {c}
  /\ UNCHANGED callFrame

\* Sensitivity variant: the token itself is looked at only once.
IntrospectOnce(c) ==
  /\ At(c, "introspect")
  /\ call[c].pass = 1 => Row("access", call[c].grant, call[c].n) \in rows
  /\ GoTo(c, "client")

\* Principal, by itself and as Principal.CredentialValid: the token, its client, its
\* Agent.  Authorize reads the Agent again.
Introspect(c) ==
  /\ At(c, "introspect")
  /\ Row("access", call[c].grant, call[c].n) \in rows
  /\ GoTo(c, "client")

ReadClient(c) ==
  /\ At(c, "client")
  /\ ClientEnabled(call[c].grant)
  /\ GoTo(c, "agent")

ReadAgent(c) ==
  /\ At(c, "agent") /\ call[c].pass < 3
  /\ agent[call[c].grant] = "enabled"
  /\ GoTo(c, IF call[c].pass = 1 THEN "register" ELSE "run")

\* Sensitivity variant: what was authorized before registration is not looked at again.
RegisterAndRun(c) ==
  /\ At(c, "register")
  /\ call' = [call EXCEPT ![c].stage = "run", ![c].pass = 2]
  /\ UNCHANGED <<cancelled, callFrame>>

\* The job is registered, and the call authorized a second time.
RegisterJob(c) ==
  /\ At(c, "register")
  /\ call' = [call EXCEPT ![c].stage = "introspect", ![c].pass = 2]
  /\ UNCHANGED <<cancelled, callFrame>>

\* The query ended and was not cancelled: authorized a third time.
QueryEnds(c) ==
  LET l == call[c] IN
  /\ At(c, "run")
  /\ c \notin cancelled
  /\ call' = [call EXCEPT ![c].stage = "introspect", ![c].pass = 3,
       ![c].late = Row("access", l.grant, l.n) \notin rows \/ agent[l.grant] = "revoked"]
  /\ UNCHANGED <<cancelled, callFrame>>

\* The Agent is still enabled, and the result is returned.
Answer(c) ==
  /\ At(c, "agent") /\ call[c].pass = 3
  /\ agent[call[c].grant] = "enabled"
  /\ call' = [call EXCEPT ![c] = Idle]
  /\ cancelled' = cancelled \ {c}
  /\ UNCHANGED callFrame

(***************************************************************************)
(* Specification                                                           *)
(***************************************************************************)
ClientStep ==
  \E c \in Clients :
    \/ ChangeClient(c)
    \/ \E redirect \in Redirects :
         Register(c, redirect) \/ \E g \in Grants : Prepare(g, c, redirect)

GrantStep(g) ==
  \/ StoreRequest(g) \/ Consent(g) \/ Pause(g) \/ Lapse(g) \/ Resume(g)
  \/ RevokeAgent(g) \/ PresentCode(g) \/ Revoke(g) \/ \E n \in Issues : PresentRefresh(g, n)

TokenStep ==
  \/ CheckAgent \/ Spend \/ RetireAccess \/ IssueAccess \/ IssueRefresh
  \/ RevokeRefresh \/ RevokeAccess \/ CancelRevoked \/ TokenFails

CallStep(c) ==
  \/ \E g \in Grants, n \in Issues : Begin(c, g, n)
  \/ Fail(c) \/ Introspect(c) \/ ReadClient(c) \/ ReadAgent(c) \/ RegisterJob(c)
  \/ QueryEnds(c) \/ Answer(c)

Next ==
  \/ ClientStep \/ TokenStep \/ CancelAgents
  \/ \E g \in Grants : GrantStep(g)
  \/ \E row \in rows : Expire(row)
  \/ \E c \in Calls : CallStep(c)

Spec == Init /\ [][Next]_vars

(***************************************************************************)
(* Properties                                                              *)
(***************************************************************************)
\* Nothing that was granted outlives an invalidating change of its client: neither
\* codes and tokens nor an Agent that could be resumed (saveClient against Consent,
\* Token and saveAgent).
GrantsMatchClients ==
  \A g \in Grants :
    \/ agent[g] \in {"paused", "enabled"}
    \/ \E r \in rows : r.grant = g /\ r.kind \in {"code", "access", "refresh"}
    => /\ ClientEnabled(g)
       /\ client[request[g].client].redirect = request[g].redirect
       /\ \/ agent[g] = "revoked"
          \/ granted[g] = generation[request[g].client]

\* The values are of their types, and a grant has one chain of tokens: at most one
\* access and one active refresh token, and none while its code can still be
\* exchanged (Token, RotateRefreshToken).
OneChain ==
  TypeOK /\ \A g \in Grants :
    LET access == OfGrant("access", g)
        refresh == {r \in OfGrant("refresh", g) : r.active}
        code == {r \in OfGrant("code", g) : r.active} IN
    /\ Cardinality(access) <= 1 /\ Cardinality(refresh) <= 1
    /\ code # {} => access = {} /\ refresh = {}

\* Something of the grant still opens access.
Usable(g) ==
  /\ agent[g] # "revoked"
  /\ \/ \E r \in rows : /\ r.grant = g /\ r.active
                          /\ r.kind \in {"code", "access", "refresh"}
     \/ /\ tokenMu # Nothing /\ tokenMu.grant = g
        /\ tokenMu.place \in {"old access", "access", "refresh"}

\* A replayed or revoked grant has no usable token, ever (Fosite on storage).
EndedGrantsAreUseless == \A g \in ended : ~Usable(g)

\* Once a revocation of a grant or its Agent is complete, calls that still run with
\* its tokens are cancelled (InvalidateAgent against registration in execute).
WithdrawnWorkIsCancelled ==
  \A c \in Calls :
    /\ At(c, "run")
    /\ \/ call[c].grant \in withdrawn
       \/ agent[call[c].grant] = "revoked" /\ mutations = Nothing
    => c \in cancelled

\* A call whose token was already gone, or whose Agent revoked, when its query ended
\* returns no result (Principal.CredentialValid in Authorize).
NoLateAnswer == [][ \A c \in Calls : Answer(c) => ~call[c].late ]_vars

\* Once a redirect change, a disabling, a secret rotation or a deletion of a client is
\* complete, none of its earlier authorization requests is pending, as
\* docs/agent-access.md says (Authorize stores what it validated without a lock).
NoPendingSurvives ==
  mutations = Nothing =>
    \A g \in Grants :
      OfGrant("consent", g) # {} => request[g].generation = generation[request[g].client]
=============================================================================

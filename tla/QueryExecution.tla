--------------------------- MODULE QueryExecution ---------------------------
(***************************************************************************)
(* Engine.execute (internal/engine/engine.go) against the administration   *)
(* of sources and Agents (internal/server: sources.go, agents.go,          *)
(* health_check.go) that runs at the same time.                            *)
(*                                                                         *)
(* A call reads its authorization in three places, each a read of the      *)
(* source row followed by a read of the credential and the Agent row:      *)
(* before anything else, after it has registered its job, and after the    *)
(* query.  Administration saves a row and then cancels the jobs the change *)
(* concerns, both under Store.Mutations, which calls do not hold.          *)
(* Admission is the module of that name, whose variables and actions these *)
(* extend; they share ctxDone, the contexts the jobs cancel.  Of the       *)
(* connection cache (ConnectionPool) only the outcome of acquire is kept:  *)
(* a reference, or an error.                                               *)
(*                                                                         *)
(* A stored row is its values the calls depend on: versions a server       *)
(* reports, queries and results are choices left open here.                *)
(***************************************************************************)
EXTENDS Admission

CONSTANTS
  NoCall,      \* what an idle request's locals hold
  MaxChanges   \* bound: changes administrators and upgrades make in a run

VARIABLES
  leased,     \* requests between acquire and release of a connection
  source,     \* the source rows
  agent,      \* the Agent rows
  mutations,  \* holder of Store.Mutations, as the step it still owes
  jobs,       \* requests in Engine.jobs
  pc,         \* where each request is in execute
  principal,  \* the identity, credential and kind of each request's call
  snap,       \* the source row the call works with (src in execute)
  outcome,    \* the result or error execute is about to return
  changes,    \* the changes made so far, counted for the bound only
  edited,     \* history: revision set by the last edit that cancels after saving
  outdated    \* history: calls whose snapshot or credential was gone when the
              \* database answered

gateVars == <<active, activeAgents, activeSources, admission, call, watchers>>
storeVars == <<source, agent, mutations, changes, edited>>
callVars == <<pc, principal, snap, outcome, outdated>>
vars == <<gateVars, storeVars, callVars, leased, jobs, ctxDone>>

ASSUME MaxChangesNatural == MaxChanges \in Nat

Revisions == 1..(MaxChanges + 1)
Tokens == 1..(MaxChanges + 1)

SourceRows == [status: {"enabled", "disabled", "deleted"}, revision: Revisions,
               limit: Limits]
AgentRows == [status: {"enabled", "paused", "expired", "revoked"}, token: Tokens]
Principals == [agent: Agents, token: Tokens, source: Sources, template: BOOLEAN]

ASSUME NoCallIsNoCall == NoCall \notin Principals \union SourceRows

Free == [owed |-> "nothing"]
Owed ==
  {Free} \union
  [owed: {"cancel source", "save version"}, source: Sources] \union
  [owed: {"cancel upgraded source"}, source: Sources, by: Requests] \union
  [owed: {"cancel agent"}, agent: Agents]

\* Stages of execute between the job's registration and its deregistration.
Registered == {"reauthorize", "regrant", "admit", "acquire", "probe", "record",
               "query", "check", "finalread", "finalgrant", "unwind"}

TypeOK ==
  /\ AdmissionTypeOK
  /\ leased \subseteq Requests
  /\ source \in [Sources -> SourceRows]
  /\ agent \in [Agents -> AgentRows]
  /\ mutations \in Owed
  /\ jobs = {r \in Requests : pc[r] \in Registered}
  /\ pc \in [Requests -> Registered \union
                         {"idle", "authorize", "grant", "register", "audit"}]
  /\ principal \in [Requests -> Principals \union {NoCall}]
  /\ snap \in [Requests -> SourceRows \union {NoCall}]
  /\ \A r \in Requests : pc[r] # "idle" => principal[r] # NoCall
  /\ outcome \in [Requests -> {"none", "result", "error"}]
  /\ changes \in 0..MaxChanges
  /\ edited \in [Sources -> Revisions]
  /\ outdated \subseteq Requests

Init ==
  /\ AdmissionInit
  /\ leased = {}
  /\ \E l \in Limits :
       source = [s \in Sources |-> [status |-> "enabled", revision |-> 1, limit |-> l]]
  /\ agent = [a \in Agents |-> [status |-> "enabled", token |-> 1]]
  /\ mutations = Free
  /\ jobs = {}
  /\ pc = [r \in Requests |-> "idle"]
  /\ principal = [r \in Requests |-> NoCall]
  /\ snap = [r \in Requests |-> NoCall]
  /\ outcome = [r \in Requests |-> "none"]
  /\ changes = 0
  /\ edited = [s \in Sources |-> 1]
  /\ outdated = {}

SourceOf(r) == principal[r].source
AgentOf(r) == agent[principal[r].agent]

Goto(r, place) == pc' = [pc EXCEPT ![r] = place]

\* return nil, err: straight to the audit before the job is registered, through
\* the deferred releases afterwards.
Fail(r) ==
  /\ Goto(r, IF pc[r] \in Registered THEN "unwind" ELSE "audit")
  /\ outcome' = [outcome EXCEPT ![r] = "error"]

(***************************************************************************)
(* execute, up to the registration of the job                              *)
(***************************************************************************)
\* A request authenticated with the Agent's current token enters execute.
Start(r, p) ==
  /\ pc[r] = "idle"
  /\ agent[p.agent] = [status |-> "enabled", token |-> p.token]
  /\ principal' = [principal EXCEPT ![r] = p]
  /\ Goto(r, "authorize")
  /\ UNCHANGED <<gateVars, leased, storeVars, snap, outcome, outdated, jobs, ctxDone>>

\* The source row Authorize reads: src the first time, compared with src later.
ReadSource(r) ==
  LET row == source[SourceOf(r)] IN
  /\ \/ /\ pc[r] = "authorize"
        /\ row.status = "enabled"
        /\ snap' = [snap EXCEPT ![r] = row]
        /\ Goto(r, "grant")
        /\ UNCHANGED outcome
     \/ /\ pc[r] \in {"reauthorize", "finalread"}
        /\ row.status = "enabled" /\ row.revision = snap[r].revision
        /\ Goto(r, IF pc[r] = "reauthorize" THEN "regrant" ELSE "finalgrant")
        /\ UNCHANGED <<snap, outcome>>
     \/ /\ pc[r] \in {"authorize", "reauthorize", "finalread"}
        /\ \/ row.status # "enabled"
           \/ pc[r] # "authorize" /\ row.revision # snap[r].revision
        /\ Fail(r)
        /\ UNCHANGED snap
  /\ UNCHANGED <<gateVars, leased, storeVars, principal, outdated, jobs, ctxDone>>

\* The credential and the Agent row of Authorize.
Granted(r) == AgentOf(r) = [status |-> "enabled", token |-> principal[r].token]

Denied(r) ==
  /\ pc[r] \in {"grant", "regrant", "finalgrant"}
  /\ ~Granted(r)
  /\ Fail(r)
  /\ UNCHANGED <<gateVars, leased, storeVars, principal, snap, outdated, jobs, ctxDone>>

CheckGrant(r) ==
  /\ pc[r] = "grant"
  /\ Granted(r)
  /\ Goto(r, "register")
  /\ UNCHANGED <<gateVars, leased, storeVars, principal, snap, outcome, outdated,
                 jobs, ctxDone>>

\* Wrong tool, a limit raised, an invalid cursor: refused with no job registered.
Refuse(r) ==
  /\ pc[r] = "register"
  /\ Fail(r)
  /\ UNCHANGED <<gateVars, leased, storeVars, principal, snap, outdated, jobs, ctxDone>>

\* Sensitivity variant: no second look at the authorization once registered.
RegisterWithoutRecheck(r) ==
  /\ pc[r] = "register"
  /\ jobs' = jobs \union {r}
  /\ Goto(r, "admit")
  /\ Ask(r, [agent |-> principal[r].agent, source |-> SourceOf(r),
                  limit |-> snap[r].limit])
  /\ UNCHANGED <<leased, storeVars, principal, snap, outcome, outdated>>

Register(r) ==
  /\ pc[r] = "register"
  /\ jobs' = jobs \union {r}
  /\ Goto(r, "reauthorize")
  /\ UNCHANGED <<gateVars, leased, storeVars, principal, snap, outcome, outdated, ctxDone>>

(***************************************************************************)
(* Admission and the connection                                            *)
(***************************************************************************)
\* Authorized again: call admit.
AskAdmission(r) ==
  /\ pc[r] = "regrant"
  /\ Granted(r)
  /\ Ask(r, [agent |-> principal[r].agent, source |-> SourceOf(r),
                  limit |-> snap[r].limit])
  /\ Goto(r, "admit")
  /\ UNCHANGED <<leased, storeVars, principal, snap, outcome, outdated, jobs>>

WaitAdmission(r) ==
  /\ pc[r] = "admit"
  /\ Sleep(r) \/ Wake(r)
  /\ UNCHANGED <<leased, storeVars, callVars, jobs>>

Admitted(r) ==
  /\ pc[r] = "admit"
  /\ Reserve(r)
  /\ Goto(r, "acquire")
  /\ UNCHANGED <<leased, storeVars, principal, snap, outcome, outdated, jobs>>

NotAdmitted(r) ==
  /\ pc[r] = "admit"
  /\ GiveUp(r)
  /\ Fail(r)
  /\ UNCHANGED <<leased, storeVars, principal, snap, outdated, jobs>>

\* acquire returned a connection: a template probes it first, a native query runs.
Acquired(r) ==
  /\ pc[r] = "acquire"
  /\ leased' = leased \union {r}
  /\ Goto(r, IF principal[r].template THEN "probe" ELSE "query")
  /\ UNCHANGED <<gateVars, storeVars, principal, snap, outcome, outdated, jobs, ctxDone>>

\* It returned an error, its own reference dropped: opening failed, or ctx is done.
NotAcquired(r) ==
  /\ pc[r] = "acquire"
  /\ Fail(r)
  /\ UNCHANGED <<gateVars, leased, storeVars, principal, snap, outdated, jobs, ctxDone>>

(***************************************************************************)
(* recordDatabaseVersion: a template call that finds the server upgraded   *)
(***************************************************************************)
\* The probe fails, reports the version in the call's snapshot, or another one.
Probe(r) ==
  /\ pc[r] = "probe"
  /\ \/ Fail(r)
     \/ \E next \in {"query", "record"} : Goto(r, next) /\ UNCHANGED outcome
  /\ UNCHANGED <<gateVars, leased, storeVars, principal, snap, outdated, jobs, ctxDone>>

Unchanged(r) ==
  source[SourceOf(r)].status # "deleted" /\ source[SourceOf(r)].revision = snap[r].revision

\* Sensitivity variant: the early return leaves Store.Mutations locked.
RecordConflictLocked(r) ==
  /\ pc[r] = "record" /\ mutations = Free
  /\ ~Unchanged(r)
  /\ mutations' = [owed |-> "cancel upgraded source", source |-> SourceOf(r), by |-> r]
  /\ Fail(r)
  /\ UNCHANGED <<gateVars, leased, source, agent, changes, edited, principal, snap, outdated,
                 jobs, ctxDone>>

RecordConflict(r) ==
  /\ pc[r] = "record" /\ mutations = Free
  /\ ~Unchanged(r)
  /\ Fail(r)
  /\ UNCHANGED <<gateVars, leased, storeVars, principal, snap, outdated, jobs, ctxDone>>

\* Already recorded by another call: go on.  First version seen, or a failed
\* save: the call fails, the revision stays.
RecordKept(r) ==
  /\ pc[r] = "record" /\ mutations = Free
  /\ Unchanged(r)
  /\ \/ Goto(r, "query") /\ UNCHANGED outcome
     \/ Fail(r)
  /\ UNCHANGED <<gateVars, leased, storeVars, principal, snap, outdated, jobs, ctxDone>>

Change == changes < MaxChanges /\ changes' = changes + 1

NewRevision(s, status, l) ==
  source' = [source EXCEPT ![s] = [status |-> status, revision |-> @.revision + 1,
                                   limit |-> l]]

\* A known version changed: save the new revision, owe the cancellations.
RecordUpgrade(r) ==
  LET s == SourceOf(r) IN
  /\ pc[r] = "record" /\ mutations = Free
  /\ Unchanged(r)
  /\ Change
  /\ NewRevision(s, source[s].status, source[s].limit)
  /\ edited' = [edited EXCEPT ![s] = source'[s].revision]
  /\ mutations' = [owed |-> "cancel upgraded source", source |-> s, by |-> r]
  /\ UNCHANGED <<gateVars, leased, agent, callVars, jobs, ctxDone>>

\* InvalidateSource: cancel the source's jobs (and forget its connection).
InvalidateSource(s) ==
  /\ ctxDone' = ctxDone \union {r \in jobs : SourceOf(r) = s}
  /\ UNCHANGED <<gateVars, leased, jobs>>

RecordCancels(r) ==
  /\ pc[r] = "record"
  /\ mutations = [owed |-> "cancel upgraded source", source |-> SourceOf(r), by |-> r]
  /\ InvalidateSource(SourceOf(r))
  /\ mutations' = Free
  /\ Fail(r)
  /\ UNCHANGED <<source, agent, changes, edited, principal, snap, outdated>>

(***************************************************************************)
(* The query, the last checks and the deferred releases                    *)
(***************************************************************************)
\* What no later administration brings back: the snapshot's revision, the token.
Outdated(r) ==
  \/ source[SourceOf(r)].status = "deleted"
  \/ source[SourceOf(r)].revision # snap[r].revision
  \/ AgentOf(r).status = "revoked"
  \/ AgentOf(r).token # principal[r].token

QueryEnds(r) ==
  /\ pc[r] = "query"
  /\ \/ Goto(r, "check") /\ UNCHANGED outcome
     \/ Fail(r)
  /\ outdated' = IF Outdated(r) THEN outdated \union {r} ELSE outdated
  /\ UNCHANGED <<gateVars, leased, storeVars, principal, snap, jobs, ctxDone>>

\* Sensitivity variant: the result is not checked against the authorization again.
CheckContextOnly(r) ==
  /\ pc[r] = "check"
  /\ IF r \in ctxDone THEN Fail(r)
       ELSE Goto(r, "unwind") /\ outcome' = [outcome EXCEPT ![r] = "result"]
  /\ UNCHANGED <<gateVars, leased, storeVars, principal, snap, outdated, jobs, ctxDone>>

CheckContext(r) ==
  /\ pc[r] = "check"
  /\ IF r \in ctxDone THEN Fail(r) ELSE Goto(r, "finalread") /\ UNCHANGED outcome
  /\ UNCHANGED <<gateVars, leased, storeVars, principal, snap, outdated, jobs, ctxDone>>

\* Authorized a third time: a result, unless its encoding is too large.
FinalGrant(r) ==
  /\ pc[r] = "finalgrant"
  /\ Granted(r)
  /\ Goto(r, "unwind")
  /\ \E o \in {"result", "error"} : outcome' = [outcome EXCEPT ![r] = o]
  /\ UNCHANGED <<gateVars, leased, storeVars, principal, snap, outdated, jobs, ctxDone>>

ReturnConnection(r) ==
  /\ pc[r] = "unwind"
  /\ r \in leased
  /\ leased' = leased \ {r}
  /\ UNCHANGED <<gateVars, storeVars, callVars, jobs, ctxDone>>

ReturnAdmission(r) ==
  /\ pc[r] = "unwind"
  /\ r \notin leased
  /\ Release(r)
  /\ UNCHANGED <<leased, storeVars, callVars, jobs>>

\* Sensitivity variant: the release of the admission is deferred after acquire.
UnregisterHolding(r) ==
  /\ pc[r] = "unwind"
  /\ r \notin leased
  /\ jobs' = jobs \ {r}
  /\ ctxDone' = ctxDone \union {r}
  /\ Goto(r, "audit")
  /\ UNCHANGED <<gateVars, leased, storeVars, principal, snap, outcome, outdated>>

\* delete(e.jobs, id), then cancel().
Unregister(r) ==
  /\ pc[r] = "unwind"
  /\ r \notin leased /\ admission[r] = "idle"
  /\ jobs' = jobs \ {r}
  /\ ctxDone' = ctxDone \union {r}
  /\ Goto(r, "audit")
  /\ UNCHANGED <<gateVars, leased, storeVars, principal, snap, outcome, outdated>>

\* The audit record is committed, or the result is withheld; execute returns.
Return(r) ==
  /\ pc[r] = "audit"
  /\ Goto(r, "idle")
  /\ outcome' = [outcome EXCEPT ![r] = "none"]
  /\ outdated' = outdated \ {r}
  /\ ctxDone' = ctxDone \ {r}
  /\ principal' = [principal EXCEPT ![r] = NoCall]
  /\ snap' = [snap EXCEPT ![r] = NoCall]
  /\ UNCHANGED <<gateVars, leased, storeVars, jobs>>

\* The client disconnects or context.WithTimeout fires.
CancelContext(r) ==
  /\ r \in jobs \ ctxDone
  /\ ctxDone' = ctxDone \union {r}
  /\ UNCHANGED <<gateVars, leased, storeVars, callVars, jobs>>

(***************************************************************************)
(* Administration                                                          *)
(***************************************************************************)
\* saveSource with another connection, state or limit (a display edit keeps the
\* execution revision and cancels nothing).
SaveSource(s, status, l) ==
  /\ mutations = Free /\ Change
  /\ source[s].status # "deleted"
  /\ NewRevision(s, status, l)
  /\ edited' = [edited EXCEPT ![s] = source'[s].revision]
  /\ mutations' = [owed |-> "cancel source", source |-> s]
  /\ UNCHANGED <<gateVars, leased, agent, callVars, jobs, ctxDone>>

DeleteSource(s) ==
  /\ mutations = Free /\ Change
  /\ source[s].status # "deleted"
  /\ source' = [source EXCEPT ![s].status = "deleted"]
  /\ mutations' = [owed |-> "cancel source", source |-> s]
  /\ UNCHANGED <<gateVars, leased, agent, edited, callVars, jobs, ctxDone>>

CancelSource(s) ==
  /\ mutations = [owed |-> "cancel source", source |-> s]
  /\ InvalidateSource(s)
  /\ mutations' = Free
  /\ UNCHANGED <<source, agent, changes, edited, callVars>>

\* testSource and checkSourceHealth: a connection check found another server
\* version.  They cancel first and save afterwards.
ObserveUpgrade(s) ==
  /\ mutations = Free /\ Change
  /\ source[s].status # "deleted"
  /\ InvalidateSource(s)
  /\ mutations' = [owed |-> "save version", source |-> s]
  /\ UNCHANGED <<source, agent, edited, callVars>>

SaveVersion(s) ==
  /\ mutations = [owed |-> "save version", source |-> s]
  /\ \/ NewRevision(s, source[s].status, source[s].limit)
     \/ UNCHANGED source
  /\ mutations' = Free
  /\ UNCHANGED <<gateVars, leased, agent, changes, edited, callVars, jobs, ctxDone>>

OweAgentCancel(a) ==
  /\ mutations' = [owed |-> "cancel agent", agent |-> a]
  /\ UNCHANGED <<gateVars, leased, source, edited, callVars, jobs, ctxDone>>

\* saveAgent: pause, resume, extend, or change the sources granted.
SaveAgent(a, status) ==
  /\ mutations = Free /\ Change
  /\ agent[a].status \notin {"revoked", status}
  /\ agent' = [agent EXCEPT ![a].status = status]
  /\ OweAgentCancel(a)

RevokeAgent(a) ==
  /\ mutations = Free /\ Change
  /\ agent[a].status # "revoked"
  /\ agent' = [agent EXCEPT ![a].status = "revoked"]
  /\ OweAgentCancel(a)

\* Rotation enables a revoked Agent again, under its old identity and a new token.
RotateAgent(a) ==
  /\ mutations = Free /\ Change
  /\ agent[a].status # "expired"
  /\ agent' = [agent EXCEPT ![a].token = @ + 1,
                            ![a].status = IF @ = "revoked" THEN "enabled" ELSE @]
  /\ OweAgentCancel(a)

CancelAgent(a) ==
  /\ mutations = [owed |-> "cancel agent", agent |-> a]
  /\ ctxDone' = ctxDone \union {r \in jobs : principal[r].agent = a}
  /\ mutations' = Free
  /\ UNCHANGED <<gateVars, leased, source, agent, changes, edited, callVars, jobs>>

\* ExpiresAt passes: nobody cancels anything.
Expire(a) ==
  /\ Change
  /\ agent[a].status = "enabled"
  /\ agent' = [agent EXCEPT ![a].status = "expired"]
  /\ UNCHANGED <<gateVars, leased, source, mutations, edited, callVars, jobs, ctxDone>>

CallStep(r) ==
  \/ ReadSource(r) \/ CheckGrant(r) \/ Denied(r) \/ Refuse(r) \/ Register(r)
  \/ AskAdmission(r) \/ WaitAdmission(r) \/ Admitted(r) \/ NotAdmitted(r)
  \/ Acquired(r) \/ NotAcquired(r)
  \/ Probe(r) \/ RecordCancels(r)
  \/ QueryEnds(r) \/ CheckContext(r) \/ FinalGrant(r)
  \/ ReturnConnection(r) \/ ReturnAdmission(r) \/ Unregister(r) \/ Return(r)

Record(r) == RecordConflict(r) \/ RecordKept(r) \/ RecordUpgrade(r)

Owing ==
  \/ \E s \in Sources : CancelSource(s) \/ SaveVersion(s)
  \/ \E a \in Agents : CancelAgent(a)

Next ==
  \/ \E r \in Requests :
       \/ \E p \in Principals : Start(r, p)
       \/ CallStep(r)
       \/ Record(r)
       \/ CancelContext(r)
  \/ Owing
  \/ \E s \in Sources :
       \/ \E status \in {"enabled", "disabled"}, l \in Limits : SaveSource(s, status, l)
       \/ DeleteSource(s)
       \/ ObserveUpgrade(s)
  \/ \E a \in Agents :
       \/ \E status \in {"enabled", "paused"} : SaveAgent(a, status)
       \/ RevokeAgent(a)
       \/ RotateAgent(a)
       \/ Expire(a)

\* Goroutines run, adapters return once their context is done, the context of a
\* call is done after at most TimeoutSeconds, and a sync.Mutex is handed to a
\* waiter in the end.
Fairness ==
  /\ \A r \in Requests : /\ WF_vars(CallStep(r))
                         /\ WF_vars(CancelContext(r))
                         /\ SF_vars(Record(r))
  /\ WF_vars(Owing)

Spec == Init /\ [][Next]_vars
FairSpec == Spec /\ Fairness

(***************************************************************************)
(* Properties                                                              *)
(***************************************************************************)
\* Past the check that follows registration and not yet at the last one.
Working(r) == pc[r] \in {"admit", "acquire", "probe", "record", "query"}

\* "Grant changes cancel affected work" (docs/agent-access.md): once a pause,
\* revocation, rotation, edit or deletion has been carried through, every call
\* still at work under what it replaced has been cancelled, wherever the change
\* fell between the call's first authorization and its registration.
WithdrawnWorkIsCancelled ==
  mutations = Free =>
    \A r \in Requests :
      /\ Working(r)
      /\ \/ AgentOf(r).status \in {"paused", "revoked"}
         \/ AgentOf(r).token # principal[r].token
         \/ source[SourceOf(r)].status = "deleted"
         \/ snap[r].revision < edited[SourceOf(r)]
      => r \in ctxDone

\* A result is never returned when the revision it was computed under, or the
\* credential it was asked with, was already gone when the database answered.
NoOutdatedResult ==
  \A r \in Requests : outcome[r] = "result" => r \notin outdated

\* The values are of their types and, whatever path a call took, when it is audited
\* it holds no job, no admission and no connection.
NothingHeldAtReturn ==
  TypeOK /\ \A r \in Requests : pc[r] \in {"audit", "idle"} =>
    r \notin jobs /\ admission[r] = "idle" /\ r \notin leased

\* "An observed upgrade expires approval and cancels source work."
\* (docs/semantics.md:27), by whoever observes it.
UpgradeCancelsWork ==
  mutations = Free =>
    \A r \in Requests :
      Working(r) /\ snap[r].revision < source[SourceOf(r)].revision => r \in ctxDone

\* Every call ends, through queues, opening connections, upgrades and edits.
EveryCallEnds == \A r \in Requests : pc[r] # "idle" ~> pc[r] = "idle"
=============================================================================

# Specifications of ContextGate

ContextGate (`cmd/mcpdbhub`) is one Go process in front of many databases.
Agents call it over MCP or HTTP with a token; administrators configure sources,
Agents, semantics and ontologies; one PostgreSQL database holds every row, the
audit table included. What makes it hard is what happens *at the same time*:
calls run while the configuration they were authorized against is edited, share
connections that edits retire, wait for each other under three limits, and leave
an audit trail that a background worker delivers through failures. In front of the
process stands the management console, a single-page application in TypeScript
(`web/src`), which keeps its own copies of the server's records, and forms opened
from them, while requests are in flight and other administrators write.

This directory models both in TLA+, checks them with TLC and proves part of it
with TLAPS. `PROJECT.json` maps every definition to the lines it models, lists
the hazards with the properties that would catch them, the runs, the mutants
(a plausible bug per property, which TLC must find) and the theorems.

    tlc -config MCAdmission.cfg MCAdmission      # and so on, one cfg per run
    tlapm ConnectionPoolProofs.tla
    tlapm AdministratorSecurityProofs.tla
    tlapm QueryExecutionProofs.tla               # admission as well
    tlapm SemanticPublicationProofs.tla
    tlapm AuditExportProofs.tla
    tlapm OAuthGrantsProofs.tla
    tlapm ConsolePagesProofs.tla                 # a third of an hour, and so is
    tlapm ConsoleProofs.tla                      # this: the frame, and all pages together

## 1. Inventory

| Component | State | Operations | Hard behaviour | What makes it correct | Status |
|---|---|---|---|---|---|
| Query admission (`engine/admission.go`) | three counters, `capacityChanged` channel | `admit`, `releaseAdmission` | sleepers, broadcast, cancellation, edited limits | counters exact, limits kept, no lost wakeup, queue drains | `Admission` |
| Connection cache (`engine/engine.go`) | `connections`, entries with `refs`, `retired`, `ready` | `acquire`, `release`, `InvalidateSource` | shared opening outside the lock, replacement and invalidation meanwhile | never used after close, closed exactly once, serves its own revision | `ConnectionPool` |
| Query execution (`engine/engine.go`, `semantics.go`) | `jobs`, locals of each call | `execute`, `Authorize`, `recordDatabaseVersion` | three authorizations, cancellation, deferred releases | withdrawn work is cancelled, no outdated result, nothing left held, every call ends | `QueryExecution`, template calls in `SemanticPublication` (cursors left) |
| Source and Agent administration (`server/sources.go`, `agents.go`, `health_check.go`) | source, credential and Agent rows; `Store.Mutations` | save, delete, test, pause, revoke, rotate, expire | save-then-cancel against running calls | as above | `QueryExecution` (revision conflicts of the forms left) |
| Audit and export (`store/audit.go`, `cleanup.go`, `auditexport/`) | audit table, manager state, checkpoint | insert, retention, worker cycle, `Update`, `Close`, restart | concurrent writers, lost answers, unsaved checkpoints, reconfiguration in mid-flight | at-least-once while on, never while off, counters exact, backlog drains | `AuditExport` implements `AuditDelivery` |
| Semantic catalog (`engine/semantics.go`, `store/semantics.go`, `server/semantics.go`) | draft, published version, trial evidence, proofs | draft CAS, trials, publish, invalidate templates | evidence outdated between trial and publication | only proved templates run, a version means one definition | `SemanticPublication` (ontology mapping evidence, source deletion left) |
| Semantic binding and validation (`semantic/`) | none | pure checks over definitions | values and types of parameters | a bound query has the declared shape | not modelled: string-level, pure |
| Ontologies (`engine/ontology.go`, `store/ontologies.go`) | draft, versions, bindings | CAS save, publish, bind, delete version | reference against deletion | a referenced version exists | the server side of `OntologyConsole` (bindings in the store planned) |
| Administrators and sessions (`server/administrators.go`, `auth.go`, `store/administrator*.go`, `password.go`) | rows with `SecurityVersion`, sessions, running requests | setup, login, create, update, reset, own password | administrators who disable each other, a login overlapping a password change, cancellations after the lock | one of them stays in charge, no session or job outlives its security version, nothing comes back | `AdministratorSecurity` (recovery by the CLI left) |
| Configuration MCP (`server/configuration*.go`, `store/configuration.go`) | identity rows, `configurationJobs` | issue, rotate, revoke, call | a call registering while its token is rotated | no withdrawn token changes anything or keeps running | `AdministratorSecurity` (tools are the handlers of other parts) |
| OAuth server (`oauth/`) | clients, requests, codes, access and refresh rows | authorize, consent, exchange, rotate, revoke, change a client | lost answers, replays, failures between statements, a client edited meanwhile | one live chain per grant, nothing outlives its client or comes back | `OAuthGrants` (registration limit, metadata, ambiguous commits left) |
| Management audit (`server/management_audit.go`) | intent and outcome rows | `adminChange` | crash between intent, mutation and outcome | no mutation without a recorded intent | planned |
| Source health (`server/health*.go`, `store/health.go`) | baseline, last check | check, accept, save | check overtaken by an edit | a baseline is of the checked revision | the server side of `HealthConsole`, version save in `QueryExecution` (periodic loop planned) |
| Evaluations (`server/evaluation*.go`, `store/evaluation.go`) | capture row, runs | start, collect, abandon | one active capture, late answers | one outcome per run | the server side of `EvaluationConsole` (capture of calls planned) |
| Mongo cursors (`adapter/mongo.go`) | `cursors` map with timers | store, take, expire, close | expiry against use | consumed once, closed once | planned |
| Other adapters, `adapter/guard.go` | driver pools | open, query | external protocols, text analysis | – | not modelled |
| HTTP surface, MCP server, catalogs | none | decode, list | pages of a changing catalog | a page belongs to the revision it continues | readiness and business catalog are the server side of their pages; decoding is not modelled |
| Encryption, password hashing (`secure/`, `store/password.go`) | keys | library cryptography | – | – | not modelled |
| Process start, CLI (`cmd/mcpdbhub`) | – | start, shut down | `Engine.Close` against opens | nothing stays open | shutdown planned |
| Console frame (`App.tsx`, `api.ts`, `Login.tsx`, `useNavigationGuard.ts`) | session, CSRF token, path, history index, lists | sign in and out, navigate, reload, expire, change the password | browser traversals are queued, answers of ended sessions and of forms that have gone | page, address and history entry agree; the token is the shown session's; loading ends | `ConsoleShell` |
| Semantics page (`Semantics.tsx`, `Semantic*.tsx`) | state, edited entry, review, history | edit, try, review, publish, restore, import | another administrator's draft; late impact | a write replaces what was shown | `SemanticsConsole` |
| Query publishing (`QueryPublishing.tsx`, `QueryDraftEditor.tsx`, `QueryClientSetup.tsx`, `readiness.ts`) | state, draft form, readiness, waiting | save, try, publish, choose an Agent, wait for its call | three reads of different times on one screen | confirmed only on a call of this version by this Agent | `QueryToolsConsole` |
| Sources (`Sources.tsx`, `SourceEditor.tsx`, `SourceSetup.tsx`, `SourceDetails.tsx`) | list, form, probe, explorer | save, test, delete, browse, query | the connection is edited while it is tested | a probe is stored for what it tested | `SourcesConsole`, `SourceExplorer` |
| Ontologies, mappings, concepts (`Ontologies.tsx`, `Ontology*.tsx`, `ConceptUsage.tsx`) | draft copy, versions, bindings, source on screen | edit, publish, import, delete, bind, link | late answers, the source on screen moves | as above | `OntologyConsole`, `MappingConsole`, `ConceptConsole` (canvas not) |
| Business catalog (`BusinessCatalog.tsx`) | rows, filters, position, entry | search, page, open, return, test | the catalog changes between pages | rows belong to the filters and revision shown | `CatalogConsole` |
| Home (`Home.tsx`, `RecentQueries.tsx`) | health, overview, journeys | refresh, check, select, resume | check, reload and read after each other; two reads of one query | what is shown is of what is on screen, and new enough | `HomeConsole`, `ResumeConsole` |
| Settings (`SettingsPage.tsx`, `Administrators.tsx`, `ConfigurationMCP.tsx`, `AuditExport.tsx`) | mounted sections, one-time tokens | issue, revoke, edit, export on/off, poll | hidden sections with work, conflicts, polls | one-time credentials are not lost | `SettingsConsole` |
| Health, evaluations (`Health.tsx`, `QueryEvaluation.tsx`, `Evaluation*.tsx`) | pages, forms, runs | check, accept, schedule; save, run, review | polls and refreshes overtake typing | edits survive reads | `HealthConsole`, `EvaluationConsole` |
| Agents, OAuth clients, audit log (`Agents.tsx`, `OAuthClient.tsx`, `Audit.tsx`) | lists, forms, tokens and secrets, page of the log | create, rotate, revoke, delete; page | lost or late answers; a growing log | as above; no record passed over | `AgentsConsole`, `OAuthClientsConsole`, `AuditConsole` |
| Presentation (`components.tsx`, `i18n.ts`, `OntologyGraph.tsx`, ...) | – | rendering, layout | – | – | not modelled |

**How they interact.** `Server.principal` authenticates a request and calls
`Engine.execute`. `execute` authorizes, registers a *job* (id, principal, source,
cancel function) under `Engine.mu`, authorizes again, calls `admit` and
`acquire`, queries, authorizes a third time, and undoes everything by deferred
calls before its audit record is committed. Administration takes
`Store.Mutations`, saves a row, then calls `InvalidateSource` or
`InvalidateAgent`, which cancel the jobs concerned; calls never hold that mutex,
except inside `recordDatabaseVersion`. The export worker shares only the audit
table and `Manager.mu` with the rest. The console talks to the handlers of
administration only by HTTP: a page reads records with their revisions, keeps them in
React state, and writes back naming the revision it read; the server refuses a write
that names another. The frame shows one page, owns the session and the address, and
asks the page's guards before it leaves it.

## 2. Modules

### Admission
One variable per field of `Engine` that admission touches, plus `admission[r]`,
where the request goroutine stands in `admit`: `asking` (about to run the
critical section), `waiting` (in the `select`), `holding` (between `admit` and
the deferred `releaseAdmission`). A critical section is one action, because
`Engine.mu` makes it so. `watchers` stands for the channel: the requests asleep
on the channel `capacityChanged` holds *now*; closing it empties the set. The
limit of a source travels in the call's snapshot (`call[r].limit`), so that an
edited limit makes two calls on one source disagree about it.

### ConnectionPool
`entry[e]` is an `entry` object, `connections` the map, `lease[r]` the
goroutine's place in `acquire`/`release`. Opening, waiting for `ready` and using a
connection happen outside the lock and are separate steps. `closes` counts calls
of `conn.Close()`, counted from the decision under the lock. Entry identities
are reused once no map slot and no caller refers to them, as collected objects
are.

### QueryExecution
Extends `Admission`, whose variables are its own and whose actions its steps
call (`ctxDone` is shared with the jobs that are cancelled), with the
three authorizations of `execute`, the job registry, the template probe with
`recordDatabaseVersion`, and the administrative handlers. An authorization is
two steps, since `Authorize` reads the source row and then the credential and the
Agent row in separate statements. `mutations` is `Store.Mutations`: free, or the
second half its holder still owes (`saveSource` has saved but not cancelled yet;
`testSource` has cancelled but not saved yet). A *saved row* is what calls depend
on: state, execution revision and limit of a source; state and token of an Agent.

*Abstractions.* Of the connection cache only the outcome of `acquire` is kept
(a reference, or an error): the cache is checked on its own in `ConnectionPool`,
and the joint state space is out of reach. What the server reports, whether a
probe or query fails, and whether a save succeeds are nondeterministic.
A change of an Agent's granted sources is represented by its pause, which makes
the same check fail. Both names of `InvalidateSource` are the same code:
`QueryExecution` models its cancellations, `ConnectionPool!Forget` its effect on
the cache. Saves are modelled as atomic and reported truthfully here (the
ambiguous commit is modelled in `AuditExport`, where memory depends on it).

### SemanticPublication
The query templates of one source, from the draft to the answer. `catalog` is the
`semantics_state` row: revision, publication number, the draft and the published
snapshot, each reduced to its templates; `archive` is `semantics_versions`.
`evidence`, `results` and `approval` are the three kinds of proof the code stores
separately: the connection proof of the last successful trial of a definition, the
outcome of the last trial of it, and the proof an execution version was given when
it was published. A proof is a pair of connection revision and observed server
version, which is what `connectionProof` hashes. `mutations` is again
`Store.Mutations` with the second half its holder owes: `Publish` commits and then
cancels (`CancelTemplates`), `EditSource` saves and then cancels, `ObserveVersion`
cancels and then saves.

A call goes three times through `publishedTemplate`, which reads the catalog, the
evidence and the approval in three statements without any lock, and each is a
step (`ReadCatalog`, `ReadEvidence`, `ReadApproval`, `local[c].pass` = 1..3); in
between it registers its job, is authorized again, probes the server and runs.
A trial is three steps (record what the probe reported, run the cases, settle
under the lock). The server version is not state: every probe may report any
version, so that upgrades happen anywhere.

*Abstractions.* A definition is its `query` (what `semantic.Definition` hashes,
with `enabled`) and its `tests` (what only `EvidenceDefinition` adds). Template
texts, guidance, ontology mappings and the validation of definitions are left out.
`TrialAfter`, a time, is the set `outdated` of the evidence older than it. The
cases of one trial are a single step, because its settlement compares the proof
before with the proof after and a proof never comes back. A request that names an
outdated catalog revision is refused without effect and is no step. Errors,
timeouts and a cancelled request are `Fail` and `TrialFails`. Admission, the
connection cache and Agents are in the modules above. The histories `proven` and
`meaning` guard no step the code would not guard: `Begin` uses `meaning` only to
start from versions that were published once.

### OAuthGrants
A *grant* is one authorization request with the consent, the Agent, the code and
the tokens that come of it; its id stands for all their ids, and `n` counts the
token pairs issued to it. `rows` is the table `oauth`: a row is deleted or made
inactive exactly where the code does the one or the other, because a row that is
inactive is how a replay is recognized. No handler but `saveClient` uses a
transaction, so each statement is a step and may be the last: `tokenMu` says what
its holder is about to do next. `mutations` holds the Agents whose jobs the holder
of `Store.Mutations` has still to cancel. `Expire` removes any row at any time,
`Lapse` and `Pause` disable an Agent, `Resume` enables it again.

Authorization comes in two halves, since `Authorize` validates a request and stores
it afterwards without a lock (`Prepare`, `StoreRequest`). A call introspects its
token, its client and its Agent, registers, is authorized a second time, runs and
is authorized a third time (`call[c].pass`).

*Abstractions.* Fosite is external: it is modelled by the calls it makes to
`storage.go`, which is this repository's. A client is its redirect URI and whether it
is enabled; rotating its secret is `ChangeClient` keeping the redirect, and editing
its name is no step. A replay ends the grant's tokens but cancels no job: the result
is refused by the third authorization (`NoLateAnswer`). Revoking through a token
whose Agent is paused does not find the Agent (`p, _ :=` in `oauth/server.go`), so
`WithdrawnWorkIsCancelled` speaks of the revocations that did.

### AdministratorSecurity
`account`, `session` and `identity` are the three tables, a password is its
generation, a configuration token the revision its identity got with it. `work[w]`
is a request of the console or a call of the configuration MCP: `arrived` (the
credential was looked up, what it said is kept in the record), `registered` (in the
server's map, session or identity read again), `running` (account read again, in the
handler), `updating` (inside `UpdateAdministrator`), `cancel requests` and
`cancel calls` (a change is committed, `Store.Mutations` is free again, the
cancellations are still owed). Every change is one action that takes the mutex,
checks the credential again and commits, except `UpdateAdministrator`, which is two:
it locks the table and then waits for the account's row. A login is three steps
(verify the password, lock the row and compare, insert the session).

*Locks of the database* (external, PostgreSQL's documented conflicts): `LOCK TABLE ...
SHARE ROW EXCLUSIVE` conflicts with a row update but not with `SELECT ... FOR
UPDATE`. `IssueSession` therefore waits for an update of any account, and
`CommitUpdate` for a login to the same one; if both happen, each waits for the other
(`LockRow`, then `StartUpdate`) and PostgreSQL ends one of them, which is
`LoginFails` or `Return`. The comment at `store/administrator_sessions.go:16` speaks
of the row lock serializing the two; what it promises, that a login verified before
either cannot recreate a session, holds in every interleaving
(`SessionsProvePassword`), at the price of an error for one side.

*Abstractions.* Names, usernames and the revisions of forms are left out: an outdated
form is refused without effect. A session ends by logout or expiry only while no
request uses it, since an earlier end would only refuse that request; revoking where
there is no token is left out. Commits are reported truthfully. Recovery of a
password by the CLI is not modelled: the service is stopped for it.

### AuditDelivery and AuditExport
`AuditDelivery` is the promise of `docs/audit-export.md` without a worker, a
checkpoint or a failure: an event recorded while the export is on is *owed* until
it was sent and settled, the export was switched off, or retention removed it; it
may be sent several times, never once settled. `AuditExport` is the code:
`Store.audit` inserts under `LOCK TABLE`, the worker's cycle copies the manager's
state, reads a page and sends a prefix of it without the lock, and settles the
outcome under it; `Update` replaces the settings; persisting fails, or takes
effect and reports failure; the process closes, dies and restarts from the
checkpoint. It implements `AuditDelivery` under
`owed <- Owed, settled <- Effective.settled, on <- Effective.enabled`, where
`Effective` is the manager's memory while the process is up and the checkpoint
while it is down.

*Abstractions.* An event is its id. Backoff times and hints are left out: a cycle
may start at any time. The export starts from an empty table: events older than
switching on are those recorded while it was off. A permanent refusal before
anything was sent (an endpoint or a payload that cannot be built) is excluded:
`Update` validates both. `View` and `Test` change no state.

### The console: ConsoleShell
`entries`, `at` and `pending` are the browser: its session history, where it is in
it, and the traversals that `history.go` or the buttons have queued; `pushState` takes
effect at once (the HTML standard; external). `index`, `address`, `path` and
`restoring` are what `App` keeps of it (`historyIndex`, `currentURL`, `path`,
`restoringHistory`), `view`, `csrf` and
`shown` for the session on screen, `cookie` and `live` for the server's. A request
carries the cookie and token it was sent with; the server decides it in one step
(`Serve`), the browser continues in another (`Deliver`), in any order. A page is a path
with a guard that is up or down. A login starts a session; a new password, whether it
replaces a temporary one (`SubmitPassword`) or comes from the form of the settings page
(`ChangePassword`), keeps the caller's and answers with its token (`ServePassword`). Both
forms and the login hold their button while they are on screen (`Hosted`, the field `here`
of a request); when the screen goes, by a 401, a sign-out or a retry, the button goes and
the continuation stays: `SignInArrives` shows the answer's session, `PasswordChanged`
replaces the token alone. Some late answers break what the console otherwise keeps, and
are told by history variables: `outlived` (the token is of another session than the one
shown, or of none) and `stranded` (a late `loggedIn` waits for lists nobody reads).
`home` and `skewed` are history variables: where the
page on screen was put, and whether one of the three things happened after which the code
loses track: a third traversal pressed while two are still queued (`restoringHistory`
is one flag, not the traversal it stands for), an entry pushed while the browser was on
its way back, and a document reloaded among other entries (`App.tsx:188` restarts the
index at 0).

### The console's pages
Each page is a module of three variables. `server` is what the server knows that the
page can touch; `ui` is the page's React state, one field per state variable that
decides something; `calls` are its requests. An operation of the page is an action:
its guard is what enables its button (`busy` disables every button that has it, a
drawer is modal), its request names the revision the code sends, and it aborts what the
code aborts. `Serve` is the handler of the Go server, `Deliver` the continuation.
Another administrator writes at any time, through the same revisions. A record is the
*revision that last changed it*, and so is a part of it that is edited on its own: that
tells whether a write was made looking at what it replaces, and `server.careless`
remembers one that was not.

| Module | Page | What is particular |
|---|---|---|
| `SemanticsConsole` | the draft of one source | a draft is an overview and an entry; one dialog at a time; review of the impact |
| `QueryToolsConsole` | the workspace of one query | state, readiness (keyed by source, revision, query and Agent) and form are of different times; the wait for a call can be given up |
| `SourcesConsole` | list, setup and editor of a source | a save is three requests (save, check, list) that go on when the drawer is closed; the check probes without the lock |
| `SourceExplorer` | browsing and querying a source | a request aborts the one before, which may still be answered |
| `OntologyConsole` | one ontology | the page holds the state it was told and a draft of its own; versions page by page |
| `MappingConsole` | bindings of a source to an ontology | tab and page each have a busy flag that does not know the other's |
| `ConceptConsole` | the queries of a concept | the source on screen is picked, or mapped, or the first; a section is mounted anew for each |
| `CatalogConsole` | the business catalog | the search is the address; pages of one search share a revision |
| `HomeConsole`, `ResumeConsole` | the home page | a check is followed by two reads; the resumed query by two others |
| `SettingsConsole` | the sections of the settings | visited sections stay mounted, hidden; the page's guard asks all of them |
| `HealthConsole` | health, baselines, schedule | two pages of sources; checks run without the lock |
| `EvaluationConsole` | evaluations | polled run, library of two lists by cursors |
| `AgentsConsole`, `OAuthClientsConsole` | credentials | a token or secret is shown once |
| `AuditConsole` | the log | keyset pages of a log that grows and is trimmed |

`ConsolePages` composes them: one page is on screen, and its properties are those the
pages have in common, each a conjunction of the pages' own. Each module has a
specification of its own as well. How pages are left is `ConsoleShell`'s.

*Abstractions.* Texts of forms are reduced to whether they were changed, and where two
readers matter to the revision they were taken from. A list is one or two rows.
Validation that keeps a form from being sent is the choice not to send it. A read
answers what the server holds when it is decided. Whether or not a request was decided,
and applied, the page may be told that it failed: the connection, or the answer, was
lost (`Heard`). A 401 does more: it ends the session and unmounts the page. The three pages
that show a credential once have it as an action (`SessionExpired`: `Unmounted` on Agents
and OAuth clients, `SignedOut` on the settings), since it takes the credential along. The
other pages hear it as a failure; that it discards a form of theirs without asking is said
below. Aborted reads are dropped, since their continuations check
the signal; where one does not, the late answer is kept. Polling is an action that may
happen at any time.

## 3. Runs

| Run | Asks | Bounds | Result |
|---|---|---|---|
| `admission` | do limits and counters survive waiting, cancellation and edited limits, and does the broadcast alone empty the queue? | 3 calls, 3 Agents, 1 source, limits {1,2}, 2 in all, 1 per Agent | holds |
| `pool` | is a connection shared, replaced and closed exactly once, do waiters resume? | 2 callers, 1 source, 2 revisions, 3 entries | holds |
| `execution` | are calls racing with administration cancelled or refused, and everything returned? | 2 calls, 1 source, 1 Agent, limits {1,2}, 2 changes | holds |
| `execution_live` | does every call end? | 2 calls, limit 1, 1 change | holds |
| `upgrade_cancels` | does an observed upgrade cancel source work? | as `execution` | **violated**, see below |
| `publication` | does only what was tried become executable, does a version mean one thing, are calls racing with publications right or cancelled? | 1 call, 2 queries, 1 test set, 4 catalog writes, or 3 and an edit or upgrade of the source, 2 server versions | holds |
| `oauth` | is there one live chain, does nothing outlive a replay, a revocation or a client change? | 1 grant, 3 token pairs, 2 client changes, 2 redirects, 1 call | holds |
| `oauth_pending` | does a client change end pending authorizations? | 1 grant, 1 client change | **violated**, see below |
| `administrators` | does one stay in charge, is no withdrawn credential used or brought back? | 2 administrators, 2 sessions, 2 requests, 1 call, 1 login, 2 changes | holds |
| `export` | is `AuditDelivery` implemented, are counters and disabled periods right, does the backlog drain? | 2 events, pages of 2, 3 updates, 1 stop | holds |
| `console_shell` | do page, address and session stay together, does loading end? | 2 pages, position in the history and sessions 4 together, 2 sessions, 2 queued traversals and requests, and a third traversal | holds |
| `console_pages` | does what is shown answer what is asked, do writes replace what was shown, are credentials and edits kept, on each of 16 pages? | 2 requests in flight, 2 to 3 writes by anybody, see below | holds |

**Why the bounds are enough.** Each limit must bind in some state and not be the
only one: three calls of one Agent meet its limit, of three Agents the global one,
and two calls on the source its limit of one. In the pool, a second caller joins,
replaces or invalidates while the first opens; two revisions give both directions of
replacement (an older snapshot may arrive later); one more entry than callers means
that `acquire` never waits for an identity. The proofs below cover any number of
callers for the safety properties of both. In
`execution` two changes can follow each other inside one call, which is what
revoke-then-rotate and edit-back need. `MaxChanges` bounds *changes*, never the
cancellations they owe. In
`publication` four writes are two drafts with their two publications, or a draft,
its publication, a restore or discard and another publication; with three, a draft, its
publication and that of the next trial, the second revision is an edit or an upgrade
anywhere among them (`Bounded`: with four writes there is none), and one call can span
all of it. One set
of tests is enough: a definition that is tried and one that is executed differ in
their query already. In
`oauth` three token pairs are a code exchange, a refresh and another refresh, which is
what a replay of the spent token between them needs; grants meet only in the changes of
their client, which treat each alike. In `administrators` two changes are an account
disabled and enabled again, a reset followed by the owner's own password, a token issued
and withdrawn, or two super administrators who demote each other. In `export` two
events are a full page, or a prefix that fits a request and a rest; three updates are
on, off and on again around a batch in flight. The runs of `publication` and `export`
check safety and the liveness or call properties on one state space.

In `console_shell` two pages and three entries let a traversal be taken for the way back
of a refused one, in both directions, and the way back for one of its own; a third
traversal of the browser is a step of the run, at which the guarantee ends; two sessions
are one whose answers are still to come and one on screen. `MaxSteps` bounds the
position in the history and the sessions started together, so that the longest histories
are explored under the first session and the second finds room for its way home. A
reload by the visitor needs the same room, and a skewed history, about which nothing is
claimed, grows no further. The run has 1.31 million distinct states. In `console_pages`
two requests in flight are an answer that is overtaken by the next, and two writes are
one of this administrator and one of another, in either order; where three steps of the
server matter more is allowed (three publications of a query; three saves of an
evaluation and one of another person). One of the settings' sections that ask the server
is mounted at a time (`MaxMounted`), beside the two that do not: they share nothing but
the guard, which any of them exercises. One link of a concept's query is under way at a
time (`MaxLinks`), and one check finds something (`MaxChecks`). Two Agents and clients,
of which one exists at the start, are a token shown for one while the other is touched;
the log of three records with pages of one record lets records arrive and be removed
between two pages. Browser storage of recent queries holds two, so its cap of five is
not reached. A check of the health page is followed by two reads at once, which may
exceed the bound on requests by one. The run has 2.80 million distinct states.

**Deadlock** is checked for `admission`, `pool` and `console_shell`. In `QueryExecution` no call
can start once the only Agent is revoked and the bound on changes is used up, and
in `AuditExport` nothing remains to be done once the events, updates and stops are
used up, and neither in the other modules once their bounds on writes, issued tokens
or changes are: those runs switch the check off, and `EveryCallEnds` and `BacklogDrains` say what
must not get stuck. A page of `console_pages` may be
left with nothing to do once the bounds on writes are used up.

**Fairness.** Weak fairness of each step of a goroutine that is runnable: the Go
scheduler. An open, a probe or a query ends because `execute` runs it under
`context.WithTimeout` and adapters return when their context is done; therefore
`WF(CancelContext)` in `QueryExecution`. `Admission` assumes no fairness of
cancellation, so `QueueDrains` rests on wakeups alone; it is stated for the time
after which no new call arrives, since the code promises no order among sleepers.
`SF(Record(r))`: a `sync.Mutex` in Go is starvation-free, so a goroutine waiting
for `Store.Mutations` gets it in the end although others take it again and again.
For the export, strong fairness of reading, sending, an acknowledgement and a
saved checkpoint says that the database and the receiver are not down for ever,
never that an attempt succeeds. Nothing is assumed of administrators, of new
calls, of crashes or of `Close`. For the console, weak fairness of `Serve(op)` and
`Deliver(op)`: a request is answered or its connection fails, and the browser then runs
its continuation; nothing is assumed of the administrator.

**The findings.** `docs/semantics.md:27` says "An observed upgrade expires approval
and cancels source work." `testSource` (`server/sources.go:190-204`) and
`checkSourceHealth` (`server/health_check.go:196-208`) cancel *before* they save
the new version, whereas `saveSource` and `recordDatabaseVersion` save first. A
call that registers its job in between is not cancelled, and its second
authorization still sees the old revision: it queries the upgraded server on the
outdated revision to the end. Its result is still refused (`NoOutdatedResult`
holds of these paths as well); what it does not get is the cancellation.
`WithdrawnWorkIsCancelled` therefore speaks of edits that save first (`edited`).

`docs/agent-access.md:46` says that redirect changes, disabling, secret rotation and
deletion of an OAuth client revoke its "pending authorizations". `Authorize`
(`oauth/server.go:105`, `:115`) validates a request and then stores it without
`tokenMu` or `clientMu`. A client change that commits in between does not find the
request; it is stored afterwards and stays pending (`NoPendingSurvives` is violated
after `Prepare`, a change, `StoreRequest`). `Consent` validates again, so such a request
is of use only if its redirect URI is still registered and the client enabled, as after
a rotation of the secret.

**Weak spots met while modelling.** They are behaviour of the code that no run calls a
violation, and that a maintainer may want to know.

*Entries are overwritten silently.* `EntryEditsPreserved` says that an entry of a
draft, an item of an ontology and a row of a mapping are saved over the one the editor
was opened on. The code does not have it, on any of the three pages. On the semantics
page: `Refresh` is clicked; an entry is opened through a link by name, which `busy` does
not disable (`Semantics.tsx:599-610`); another administrator saves that entry; the answer
moves `state.revision`, the form keeps the old entry (`SemanticEditor.tsx:201`), and
saving sends it at the new revision (`Semantics.tsx:781-795`), which the server accepts.
`QueryDraftEditor`, which compares with what it expected, does not have the problem.
`CHANGELOG.md:12` speaks of preserving concurrent edits. To see it, add
`EntryEditsPreserved` to the invariants of `ConsolePages.cfg`.

- *Frame, passwords*: a late answer to the password form of the settings replaces the token
  and not the session (`SettingsPage.tsx:239`). The form is sent, a 401 to another request
  shows the sign-in form, another sign-in starts a session, and the answer then puts the
  token of the earlier session in place of the new one, whose changes are refused until a
  reload. A new password is also answered without a token when its session ends before
  the token is read again (`auth.go:150-153`); the console then shows somebody signed in
  who is not. And `loggedIn` (`App.tsx:271-284`), called for an answer that finds the
  console signed in, sets `loading`, while the effect that clears it (`App.tsx:259-270`)
  does not run again. So when "Sign out" is clicked under a temporary password, which does
  not hold back sending the new one (`Administrators.tsx:113-122`), a 401 to it shows the
  sign-in form, somebody signs in, and the password's answer comes last: the loading
  screen stays until a reload. To see these, drop `outlived` and `stranded` from the two
  properties. Not modelled of `loggedIn`: an address in `next` leaves the console
  (`location.assign`) instead of going home.
- *Frame, the end of a session*: a 401 to any request, background refreshes included,
  unmounts the page without asking its guard (`api.ts:57-64`, `App.tsx:220-228`). A form is
  lost, and so is a token, secret or password that is shown once. "It remains visible if a
  background refresh fails" (`AgentConnection.tsx:86`) does not hold of a refresh that
  fails so.
- *Frame, unsaved work*: the answer to a sign-out and "Retry loading data" unmount a page with unsaved
  work without asking. Three presses of Back or Forward, each before the browser has
  taken the one before, on a page with unsaved work can leave the browser at an entry
  and address that are not the page's (`App.tsx:190-201`): the first is
  refused, the second taken for its way back, the third refused with a way back of its own,
  for which the way back of the first is taken; the last then leads nowhere. To see it, replace `skewed' = (Len(pending) > 1)` in
  `PressBackOrForward` by `UNCHANGED skewed`.
- *Semantics*: the result of a visibility search may be shown under an Agent chosen
  meanwhile.
- *Query publishing*: evidence is matched by id and may be of another published version;
  the server refuses by `execution_version`.
- *Sources*: closing the editor while a save runs lets the continuation close whichever
  editor is open then; a probe that arrives after an edit describes the old form; deletion
  carries no revision; what is typed during a save is overwritten by its answer.
- *Ontologies*: View, Export and Older in the tab of versions clear the shared busy flag
  under a running Reload; Older restores the state of when it was asked for; an id deleted
  and created again starts its revisions anew (not modelled).
- *Mappings*: an unsaved binding is lost when the page's refresh arrives.
- *Concept usage*: a late usage summary moves the source on screen and drops an open form;
  closing the inspector or reloading beside the list while a link runs loses its answer,
  although the draft has changed.
- *Catalog*: evidence of executability changes without moving the catalog's revision, so
  that pages of the query view may shift within one search.
- *Home*: a query published between the two reads of the one to resume leaves its next
  step at "Loading…" without a way to retry (`Home.tsx:430`, `query-publishing.ts:215`).
  The `SourceEditor` of this page is never opened.
- *Settings*: the access is not read again after a conflict on issue; Retry answered
  while its panel is open submits the newer revision with the older name.
- *Health*: after a check, `Promise.all([load(), reloadSources()])` (`Health.tsx:286`)
  frees the page as soon as one of the two fails; a load that comes later overwrites a
  schedule edited meanwhile (`Health.tsx:66-68`, excepted as `stray`). Retry is not
  disabled by `busy`; a failed page leaves the old rows under the new page number; the
  question of a new baseline survives new evidence.
- *Evaluations and audit log*: after a page that failed to load, "Next" or "Older records"
  takes its cursor from the rows still shown and passes a page over
  (`EvaluationLibrary.tsx:481-505`, `Audit.tsx:518-525`).
- *Agents*: the page has no navigation guard, so Back loses a token shown once; rotation
  enables a revoked Agent again; revocation and rotation carry no revision.

## 4. Proofs

| Theorem | Says, for all constants |
|---|---|
| `QueryExecutionProofs!CountersExact` | `AdmissionSpec => [](AdmissionTypeOK /\ CountersMatchHolders)` |
| `QueryExecutionProofs!LimitsHold` | `AdmissionSpec => []LimitsRespected` |
| `QueryExecutionProofs!NoWakeupIsLost` | `AdmissionSpec => []NoLostWakeup` |
| `ConnectionPoolProofs!ExactReferences` | `Spec => [](TypeOK /\ RefsMatchUsers)` |
| `ConnectionPoolProofs!UsedWhileOpen` | `Spec => []NoUseAfterClose` |
| `ConnectionPoolProofs!ClosedExactlyOnce` | `Spec => []ClosedOnce` |
| `ConnectionPoolProofs!RetiredLeaveTheMap` | `Spec => []RetiredIffUnmapped` |
| `ConnectionPoolProofs!RevisionsServed` | `Spec => []ServesItsRevision` |
| `AdministratorSecurityProofs!SuperAdministratorStays` | `Spec => [](TypeOK /\ SuperAdministratorRemains)` |
| `AdministratorSecurityProofs!SessionsFollowPassword` | `Spec => []SessionsProvePassword` |
| `AdministratorSecurityProofs!CommitsAuthorized` | `Spec => CommitsAreAuthorized` |
| `AdministratorSecurityProofs!WithdrawnWorkEnds` | `Spec => []WithdrawnWorkIsCancelled` |
| `QueryExecutionProofs!WithdrawalReachesEveryCall` | `Spec => []WithdrawnWorkIsCancelled` |
| `QueryExecutionProofs!ResultsAreCurrent` | `Spec => []NoOutdatedResult` |
| `QueryExecutionProofs!EverythingIsReturned` | `Spec => []NothingHeldAtReturn` (with `TypeOK`) |
| `SemanticPublicationProofs!AnswersWereProven` | `Spec => AnswersAreProven` |
| `SemanticPublicationProofs!MeaningIsForEver` | `Spec => VersionKeepsItsMeaning` |
| `SemanticPublicationProofs!OnlyTriedArePublished` | `Spec => PublishesOnlyTried` |
| `SemanticPublicationProofs!StaleRunsAreCancelled` | `Spec => ExactlyStaleRunsAreCancelled` |
| `AuditExportProofs!DisabledPeriodsKept` | `Spec => []DisabledPeriodsStayPrivate` |
| `AuditExportProofs!SettledCountsExact` | `Spec => []CountersMatchSettled` |
| `AuditExportProofs!ExportImplementsDelivery` | `Spec => ImplementsDelivery`, the refinement |
| `OAuthGrantsProofs!GrantsHaveOneChain` | `Spec => []OneChain` (with `TypeOK`) |
| `OAuthGrantsProofs!EndedGrantsStayUseless` | `Spec => []EndedGrantsAreUseless` |
| `OAuthGrantsProofs!GrantsEndWithTheirClients` | `Spec => []GrantsMatchClients` |
| `OAuthGrantsProofs!RevocationReachesEveryCall` | `Spec => []WithdrawnWorkIsCancelled` |
| `OAuthGrantsProofs!NoAnswerComesLate` | `Spec => NoLateAnswer` |
| `ConsoleProofs!PageStaysAtItsEntry` | `Spec => []PageKeepsItsEntry` |
| `ConsoleProofs!TokenFollowsSession` | `Spec => []TokenIsOfTheShownSession` |
| `ConsolePagesProofs!ProbesStayWithTheirConnection` | `PagesSpec => []ProbesDescribeTheirSource` |
| `ConsolePagesProofs!ConfirmationsAreEarned` | `PagesSpec => []ConfirmationIsEarned` |
| `ConsolePagesProofs!CredentialsStayOnScreen` | `PagesSpec => []CredentialsAreNotLost` |
| `ConsolePagesProofs!TypedTextSurvives` | `PagesSpec => []EditsSurviveReads` |
| `ConsoleProofs!AnswersAreOfTheScreen` | `PagesSpec => []AnswersMatchTheScreen` |

*Assumptions*: finitely many request goroutines; the limits are positive naturals
(`config` and source validation guarantee both), and so is the export's batch limit;
`NoEntry`, `NoCall` and `Nothing`, Go's `nil` and a call's missing locals, are no value
of anything else; requests of the console and calls of the configuration MCP are
different things; the bounds on changes, events, updates and stops are naturals, and so
are those of the pages' writes and checks, with at least two revisions of a query's draft
(it may have that many when the page opens). No assumption limits how many
calls, Agents, sources, templates, events, sessions or requests there are.

*Admission* (the first part of `QueryExecutionProofs`). `AdmissionTypeOK` alone is not inductive: a release takes one from a counter,
which is a natural number only if it counts something. `AdmissionInv ==
AdmissionTypeOK /\ CountersMatchHolders` is inductive: `Reserve` adds the caller to the three sets of
holders and one to the three counters, `Release` removes both, and no other step
touches either (`ReserveHolders`, `ReleaseHolders`, `OtherHolders`). The bounds
follow because only `Reserve` raises counters, in the critical section that
compared them. `SourceLimitsRespected` (part of `LimitsRespected`) is inductive relative to it: a call admitted
under limit `l` found fewer than `l` holders, and counts only towards bounds
`n >= l`. `NoLostWakeup` holds because a sleeper enters `watchers` in the critical
section that found no room, `Reserve` only takes room away, and `Release` empties
`watchers`.

*ConnectionPool.* None of its properties is inductive alone. That a connection is
not closed under a user needs its counter to be exact, which needs that only one
caller opens an entry, which needs to know when an entry is in the map. `PoolInv`
joins the properties with three facts: a map slot holds an entry of its own source
(`SlotsMatchSources`), a caller's place in `acquire` fits the state of its entry
and at most one caller opens it (`StageMatchesConn`, `OneOpener`), and an entry is
closed exactly once it is retired and unreferenced (`ClosingDiscipline`). There is
one lemma per action. `NoUseAfterClose` follows: a user keeps the counter
positive, and `closes` is then zero.

*AdministratorSecurity.* `AdminInv` adds to the properties what every handler relies
on without saying so. A session in the table, and a login that holds the row's lock,
carry the version and the password the account has now: whoever changes either
deletes the sessions in the same transaction, but for the one an owner keeps, and
waits for the row. What a request
read on arrival (role, temporary password) is still what its account says, unless the
account has got another version (`Snapshot`), and a check of the credential rules that
out. Who is inside `UpdateAdministrator` holds `Store.Mutations` and stays an enabled
super administrator until it commits (`Update`), because every other change needs the
mutex. Therefore a change never takes the last super administrator: the actor is one
before it, and an update or a reset that could concern the actor leaves him one.
`CommitsAreAuthorized` is proved of every step from an `AdminInv` state. For
`WithdrawnWorkIsCancelled` a second invariant, `WithdrawalInv`, says where every
cancellation is: the session of withdrawn work never comes back and its identity's
revision has passed the one it presented, so what has not registered yet will be
refused, and what has is cancelled or owed the cancellation by a handler that is
still on its way (`OwedBy`).

*QueryExecution.* Admission is not proved again: a step of a call is a step of
admission, of which the lemma `NextInv` speaks, or leaves its counters alone
(`AdmissionSteps`, `AdmissionRests`). `ExecutionInv` adds what execute relies on. What a
call holds fits its place (`Holds`): `EverythingIsReturned` is that correlation at the
end, and it needs the intermediate places because a release is deferred by what was
taken. Rows only move on (`Known`): revisions and tokens grow, and the snapshot and the
credential of a call are never ahead of them. `Cancelled` is `WithdrawnWorkIsCancelled`
carried through the handlers: what was withdrawn is cancelled *or owed* by the holder of
`Store.Mutations`, and it begins one step earlier than the property, at the second read
of the Agent, because the source was read again before. That is where the second
authorization is needed: a call whose source moved before it registered fails there, and
one whose source moves later is in `jobs` when the debt is paid. `Checked` says that a
call which was outdated when the database answered has *lost* its row or its token, which
no later administration brings back (a revoked Agent returns only with another token), so
that one of the last two reads finds it. `Counted` keeps revisions inside their bound: a
health check has counted its change before it saves the revision.

*SemanticPublication.* That a proof of a connection never comes back is the heart of it:
`Past(p)` says a proof is of an earlier connection or of this one, before or after its
version was known, and `PastStays` that no save of the row makes a past proof current
again. With it `PublicationInv` holds `meaning` and `approval` of every published version
together (`Publications`), keeps evidence of the connection as it is earned
(`Evidence`: whatever compares equal to the current proof was proved by the last trial),
and describes a call by its pass and its place (`CallAt`): since its first pass the
approval of its version is the proof of the row it began on, and the version the probe
reported is the one observed unless the connection has moved. `AnswersAreProven` is the
end of the third pass. A publication that has committed and not yet cancelled owes the
cancellation of what it replaced (`Publishing`, `AtWork /\ Stale => Cancelled`), from
which `ExactlyStaleRunsAreCancelled` follows as an action property.

*AuditExport.* `ExportInv` says which ids can still appear: below `Low` every insert has
ended, and a page, a cursor or a counter never reaches it, since the worker reads under
the lock that orders inserts. Memory and disk are sound checkpoints (what they count as
settled has left the table or is behind their cursor, and the counters add up to it),
and what is on disk succeeds the memory (`Succeeds`) or is exactly one batch ahead of
it (`AheadByABatch`): a save that took effect and reported failure. A cycle that is live
has its batch next to the cursor, with nothing left out (`LiveCycle`); one that is not
settles nothing. `DisabledPeriodsStayPrivate` needs the checkpoint on disk too
(`PastQuiet(disk)`), as a restart makes it the memory. The refinement is by cases of
`Next`: each step is a step of `AuditDelivery` or a stutter on `Owed` and
`Effective`, and the lemma `DeliveryGoesBy` reduces each case to what it does to the
effective checkpoint and the table.

*OAuthGrants.* `GrantInv` follows a grant from its request to its end, and one lemma
(`RowMoves`) reduces each handler to the grant it works for, since no row, Agent or token
request of another moves (`GrantElsewhere`). Before its consent a request is prepared or
stored, never both, and has no Agent, so that it is decided once (`Request`). `Chain` says
that an access token exists only when what may still be issued to its grant is newer
(`Issued`): no code can be exchanged any more, active refresh tokens are of the same number
or a later one, and a token request under way issues a later one. `Token` says what the
holder of `tokenMu` has removed before it issues, for each place it may fail at;
`OneChain` needs that, and `EndedGrantsAreUseless` needs that a revocation excludes a token
request. `Issued` is also what makes the third authorization sufficient: a token that was
found once and is gone does not come back (`Stays`), so that a call whose token had gone
when its query ended cannot pass `Introspect` again (`Call`, from which `NoLateAnswer`
follows as an action property). Cancellations are owed as in `QueryExecution`.

*ConsoleShell.* `PageKeepsItsEntry` speaks of an empty queue and is not inductive.
`HistoryInv` says where the browser can be while traversals are queued: at the page's
entry (`AtHome`); one beside it, the flag up and the way back somewhere in the queue
(`OneBeside`); or two beside it, the flag down and the way back at the head
(`TwoBeside`), because another traversal was taken for the awaited one. With at most two
queued there is nothing else, and each of the three leads back to `AtHome`; with three
there is a fourth place, from which it does not. The recorded indices count the entries,
which is what makes the way back exact. `SessionInv` joins
`TokenIsOfTheShownSession` with the types of what it speaks of (`cookie`, `csrf`, `shown`,
the requests in flight) and two facts about requests (`CallOK`). The read of the session
is alone while the console starts. And while the settings' form that sent a new password
is on screen, its page is mounted and its request carries the token held; since the server
accepts it for the session of that token only, its answer brings the same token back, or
none if that session ended. A sign-in's answer carries its own session to `Deliver`, which
replaces view and token in one step, however late it comes. The answers that do not keep the
property are those of `outlived`: a new password's whose form has left the screen, and one
whose session ended before it was answered.

*ConsolePages.* One page is on screen, so each page has an invariant of its own, proved of
its `Init` and `Next` with one lemma per operation, and a theorem joins the pages it is
about. What the pages share is that a request is answered in two steps, `Serve` and
`Deliver`, and that an operation ends with reads it waits for.

- `SourcesInv`: whoever holds a copy of the source at its present revision (a row, a
  form, a request, a test that runs without the lock) holds the present connection, and
  a deleted source stays deleted. A test that compares the revision it read therefore
  stores its result for what it tested.
- `ToolsInv`: the same of the copies of a query, and evidence of a call, in an answer or
  on screen, is of a call that was made (`Earned`); readiness is matched by revision and
  Agent before it confirms anything. `DialogInv`, of an ontology, keeps the version in the
  dialog the one that was picked.
- `SettingsInv`: what is unfinished belongs to the section shown (`SettingsShown`), and
  each section has one operation at a time, the reload after it included; hence neither
  the guard nor another answer discards a token. After a 401 there is no section and
  nothing left to lose (`SettingsOut`), an invariant of its own. `AgentsInv` says the same of the rows, the
  editor and the panel of the page (`AgentsLock`), and `PanelInv` of the panel of an OAuth client:
  no secret is on screen while a write is in flight.
- `HealthInv`: unless Retry started a second operation, one operation holds the page,
  alone or as the two reads after a check, and an edited schedule finds nothing that the
  page waits for but its own save (`HealthLock`). A load whose check was abandoned may
  come at any time, and is excepted by the property. `EvalInv`: the texts an operation
  was asked with are the ones on screen while it is answered, and a request for a stored
  record is of the one on screen (`EvalAsked`).

- `AnswersAreOfTheScreen` joins eleven pages, with an invariant each. Where the page drops
  the answers to what is no longer asked, the requests say what they were asked of and
  the invariant is that those not yet dropped were asked of the screen (`SemanticAsked`,
  `MappingOf`, `LibraryAsked`, `ConceptOf`, `CatalogAnswers`). Two pages rely on more.
  A panel of the home page says "Loading" only while it is read (`HomePanels`), one check
  runs at a time (`HomeAhead`), and when none does the health on screen knows of the last
  one or is being read again (`HomeFresh`), because a check that ends starts that read. On
  the audit page the rows are *whole* as of the log they were read from (`AuditWhole`):
  a matching record of that log which is older than the cursor and not among them is older
  than all of them, and a record inserted later has a greater id; so the cursor taken from
  the last row passes over nothing. That the rows are as many as a page or reach the end of the log is counted
  with the theorems about finite sets.

The proof of `AgentsInv` found arms of a CASE in six of the pages that overlap: TLA+ leaves open which
one is taken, where TLC takes the first. The arms are disjoint now, as the conditions of the
code are.

*Only model-checked*: liveness and everything that depends on fairness or `ENABLED`
(outside TLAPS): the queue of admission drains, every call ends, the backlog drains,
loading ends. And one property of the console's pages, `WritesReplaceWhatWasShown`:
its first conjunct is the type invariant of all sixteen pages, in which the bound on the
saves of an evaluation is a sum over its questions (a fold), and what a fold computes
is induction over data. The type invariants of
`Admission`, `ConnectionPool` and `AdministratorSecurity` are stated by their first
theorems and in no run; those of the other modules are a conjunct of a property their
run checks, or of the inductive invariant. `ExecutionInv`, `PublicationInv`,
`ExportInv`, `GrantInv`, `HistoryInv` and the invariants of the pages hold at the bounds of
their runs as well, where TLC has checked them. No module of the project declares a RECURSIVE operator.

## 5. Plan

Done: `Admission`, `ConnectionPool`, `QueryExecution` (composes the first),
`AuditDelivery` and `AuditExport`, `SemanticPublication`, `AdministratorSecurity`,
`OAuthGrants`; `ConsoleShell` and the sixteen pages that `ConsolePages` composes.

Next, most important first:

1. Proofs about the console's pages: the conjuncts of `WritesReplaceWhatWasShown` other
   than the types, beginning with `SourcesConsole`, whose `SourcesInv` already says what a
   copy of a row is worth. tlapm spends its time on the definitions of the sixteen
   instances, which every obligation about a page carries; a page proved in a module that
   extends that page alone would take a thirtieth of it.
2. `OntologyLifecycle` (bindings against version deletion in the store),
   `ManagementAudit` (intent, mutation, outcome and a crash anywhere between),
   `MongoCursors`, `EngineClose`, the capture of an evaluation's calls.
3. Left of modelled parts: ontology mapping evidence and source deletion in
   `SemanticPublication`, password recovery by the CLI, the limit on OAuth
   registrations and metadata documents.

**Not modelled**, and why: semantic validation, query guards and the search ranking are
text analysis without state; encryption and password hashing are library cryptography;
drivers are external protocols; the console's presentation, graph layout and
translations have no request that races with another.

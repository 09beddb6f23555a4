------------------------ MODULE SemanticPublication ------------------------
(***************************************************************************)
(* Query templates of one source: how a draft is tried and published, and  *)
(* what a call executing a published template may still rely on            *)
(* (internal/engine: semantics.go, regression.go, engine.go;               *)
(* internal/server: semantics.go, semantic_history.go, sources.go;         *)
(* internal/store/semantics.go).                                           *)
(*                                                                         *)
(* Whoever changes a row holds Store.Mutations, so that a handler is one    *)
(* step unless it does something observable in between: saves and then     *)
(* cancels, cancels and then saves, or saves twice.  Readers do not take    *)
(* the lock: a call reads the source, the catalog, the trial evidence and   *)
(* the publication proof in separate statements, three times over.         *)
(*                                                                         *)
(* A snapshot is its templates; the texts around them, ontology mappings   *)
(* and the validation of definitions are left out.  Steps of one goroutine *)
(* that read nothing another one writes are joined with a neighbour.  A    *)
(* request that names an outdated revision changes nothing and is no step. *)
(* A write is taken to report truthfully whether it was committed.         *)
(***************************************************************************)
EXTENDS Integers, FiniteSets

CONSTANTS
  Templates,   \* ids of template entries
  Queries,     \* what a template executes: its text, tool and parameters
  Tests,       \* sets of regression cases; they do not affect what is executed
  ServerVersions, \* versions the database may report, whenever it is probed
  Calls,       \* goroutines that execute templates
  Nothing,     \* no entry, no version, no pending work
  MaxWrites,   \* bound: catalog writes
  MaxRevision  \* bound: revisions of the source

VARIABLES
  source,     \* the source row
  catalog,    \* the semantics_state row with its two snapshots
  archive,    \* semantics_versions: what each publication contained
  evidence,   \* the connection proof of the last successful trial of a definition
  results,    \* the last trial's outcome for a definition
  approval,   \* the connection proof a published execution version was given
  mutations,  \* Store.Mutations: Nothing, or the second half its holder owes
  trial,      \* the trial in progress
  pc, local,  \* where each call is, and its local variables
  ctxDone,    \* calls whose job was cancelled
  proven,     \* history: definitions that passed a trial on the connection as it is
  meaning     \* history: what each execution version was published as

catalogVars == <<catalog, archive, approval, meaning>>
trialVars == <<evidence, results, trial>>
callVars == <<pc, local>>
vars == <<source, proven, catalogVars, trialVars, callVars, mutations, ctxDone>>

Versions == 1..MaxWrites

SourceRows == [revision: Nat, connection: Nat, observed: ServerVersions \union {Nothing}]
Drafts == [query: Queries, tests: Tests, enabled: BOOLEAN]
Entries == [query: Queries, tests: Tests, enabled: BOOLEAN, version: Versions]
Snapshots(entries) == [Templates -> entries \union {Nothing}]

\* connectionProof: the connection settings and credentials, whose every edit
\* raises ConnectionRevision, with the observed version.
Proof(row) == <<row.connection, row.observed>>
NoProof == <<0, Nothing>>
Proofs == Nat \X (ServerVersions \union {Nothing})
Meanings == [query: Queries, proof: Proofs]

\* semantic.Definition and semantic.EvidenceDefinition; only enabled templates
\* are tried.
Definition(e) == <<e.query, e.enabled>>
Key(e) == <<e.query, e.tests>>
Keys == Queries \X Tests

\* The second half of a handler that still holds Store.Mutations.
Owed ==
  [owed: {"cancel source"}] \union
  [owed: {"cancel templates"}, changed: SUBSET Templates,
   current: [Templates -> Versions \union {Nothing}]] \union
  [owed: {"save version"}, version: ServerVersions]

NoRow == [revision |-> 0, connection |-> 0, observed |-> Nothing]
NewLocal == [id |-> Nothing, version |-> Nothing, src |-> NoRow, row |-> NoRow,
             pass |-> 1, query |-> Nothing, key |-> Nothing, probed |-> Nothing]
Locals ==
  [id: Templates \union {Nothing}, version: Versions \union {Nothing},
   src: SourceRows, row: SourceRows, pass: 1..3, query: Queries \union {Nothing},
   key: Keys \union {Nothing}, probed: ServerVersions \union {Nothing}]
Trials ==
  [place: {"record", "run", "settle"}, id: Templates, revision: 0..MaxWrites,
   src: SourceRows, seen: ServerVersions, key: Keys \union {Nothing}, passed: BOOLEAN]

\* Go's nil and empty values are no value of anything else.
ASSUME NothingIsNothing ==
  Nothing \notin Queries \union ServerVersions \union Versions \union Keys
                 \union Drafts \union Entries \union Meanings \union Owed \union Trials
ASSUME BoundsAreNaturals == MaxWrites \in Nat /\ MaxRevision \in Nat

Stages == {"idle", "catalog", "evidence", "approval", "register", "reauthorize",
           "probe", "check", "recheck", "fresh"}

\* The values are of their types, and the current publication is in the history
\* (archiveSemantics, deleteSemanticVersion).
TypeOK ==
  /\ source \in SourceRows
  /\ catalog \in [revision: 0..MaxWrites, version: 0..MaxWrites,
                  draft: Snapshots(Drafts), live: Snapshots(Entries),
                  outdated: SUBSET Keys]
  /\ archive \in [Versions -> Snapshots(Entries) \union {Nothing}]
  /\ catalog.version > 0 => archive[catalog.version] = catalog.live
  /\ evidence \in [Keys -> Proofs]
  /\ results \in [Keys -> [proof: Proofs, passed: BOOLEAN]]
  /\ approval \in [Templates \X Versions -> Proofs]
  /\ mutations \in Owed \union {Nothing}
  /\ trial \in Trials \union {Nothing}
  /\ pc \in [Calls -> Stages]
  /\ local \in [Calls -> Locals]
  /\ ctxDone \subseteq Calls
  /\ proven \subseteq Keys
  /\ meaning \in [Templates \X Versions -> Meanings \union {Nothing}]

EmptySnapshot == [t \in Templates |-> Nothing]

Init ==
  /\ source = [revision |-> 1, connection |-> 1, observed |-> Nothing]
  /\ catalog = [revision |-> 0, version |-> 0, draft |-> EmptySnapshot,
                live |-> EmptySnapshot, outdated |-> {}]
  /\ archive = [v \in Versions |-> Nothing]
  /\ evidence = [k \in Keys |-> NoProof]
  /\ results = [k \in Keys |-> [proof |-> NoProof, passed |-> FALSE]]
  /\ approval = [a \in Templates \X Versions |-> NoProof]
  /\ mutations = Nothing
  /\ trial = Nothing
  /\ pc = [c \in Calls |-> "idle"]
  /\ local = [c \in Calls |-> NewLocal]
  /\ ctxDone = {}
  /\ proven = {}
  /\ meaning = [a \in Templates \X Versions |-> Nothing]

\* Calls in Engine.jobs.
Jobs ==
  {c \in Calls : \/ pc[c] \in {"reauthorize", "probe", "check", "recheck", "fresh"}
                 \/ pc[c] \in {"catalog", "evidence", "approval"} /\ local[c].pass > 1}

(***************************************************************************)
(* The source: edits, upgrades of the server, connection tests             *)
(***************************************************************************)
\* recordDatabaseVersion and testSource: a first observation leaves the
\* revisions alone, a changed version raises them.
Observed(row, version) ==
  IF row.observed = Nothing
    THEN [row EXCEPT !.observed = version]
    ELSE [revision |-> row.revision + 1, connection |-> row.connection + 1,
          observed |-> version]

\* The row is saved; what was tried on another connection is no longer proven.
SaveRow(row) ==
  /\ source' = row
  /\ proven' = IF Proof(row) = Proof(source) THEN proven ELSE {}

\* saveSource: an edit of limits or operations raises the execution revision, an
\* edit of the connection its own as well and forgets the version.
EditSource ==
  /\ mutations = Nothing
  /\ source.revision < MaxRevision
  /\ \/ SaveRow([source EXCEPT !.revision = @ + 1])
     \/ SaveRow([revision |-> source.revision + 1, connection |-> source.connection + 1,
                 observed |-> Nothing])
  /\ mutations' = [owed |-> "cancel source"]
  /\ UNCHANGED <<catalogVars, trialVars, callVars, ctxDone>>

\* InvalidateSource, owed by whoever saved first.
CancelSource ==
  /\ mutations = [owed |-> "cancel source"]
  /\ ctxDone' = ctxDone \union Jobs
  /\ mutations' = Nothing
  /\ UNCHANGED <<source, proven, catalogVars, trialVars, callVars>>

\* testSource, checkSourceHealth: the first version a server reports is saved; for
\* another one than the known, work is cancelled first and the row saved after.
ObserveVersion(version) ==
  /\ mutations = Nothing
  /\ version # source.observed
  /\ IF source.observed = Nothing
       THEN /\ SaveRow(Observed(source, version))
            /\ UNCHANGED <<mutations, ctxDone>>
       ELSE /\ source.revision < MaxRevision
            /\ mutations' = [owed |-> "save version", version |-> version]
            /\ ctxDone' = ctxDone \union Jobs
            /\ UNCHANGED <<source, proven>>
  /\ UNCHANGED <<catalogVars, trialVars, callVars>>

\* The save that ObserveVersion owes; it may fail.
SaveVersion ==
  /\ mutations # Nothing /\ mutations.owed = "save version"
  /\ SaveRow(source) \/ SaveRow(Observed(source, mutations.version))
  /\ mutations' = Nothing
  /\ UNCHANGED <<catalogVars, trialVars, callVars, ctxDone>>

(***************************************************************************)
(* Drafts and history                                                      *)
(***************************************************************************)
\* WriteSemantics: the revision moves with every write.  What it archives is
\* already in the archive unless the write publishes.
CanWrite == mutations = Nothing /\ catalog.revision < MaxWrites

WriteDraft(draft, outdated) ==
  /\ CanWrite
  /\ catalog' = [catalog EXCEPT !.revision = @ + 1, !.draft = draft,
                                !.outdated = outdated]
  /\ UNCHANGED <<archive, approval, meaning, source, proven, trialVars, callVars,
                 mutations, ctxDone>>

\* saveSemantics, saveSemanticEntry, importSemanticStructure.
SaveDraft(draft) == WriteDraft(draft, catalog.outdated)

\* A snapshot without its execution versions, which publication assigns anew.
Content(snapshot) ==
  [t \in Templates |->
     IF snapshot[t] = Nothing THEN Nothing
     ELSE [query |-> snapshot[t].query, tests |-> snapshot[t].tests,
           enabled |-> snapshot[t].enabled]]

\* discardSemantics forgets TrialAfter.
Discard == WriteDraft(Content(catalog.live), {})

\* restoreSemantics sets TrialAfter to now: all evidence so far is too old.
Restore(v) ==
  /\ archive[v] # Nothing
  /\ WriteDraft(Content(archive[v]), {k \in Keys : evidence[k] # NoProof})

DeleteVersion(v) ==
  /\ mutations = Nothing
  /\ archive[v] # Nothing
  /\ v # catalog.version
  /\ archive' = [archive EXCEPT ![v] = Nothing]
  /\ UNCHANGED <<catalog, approval, meaning, source, proven, trialVars, callVars,
                 mutations, ctxDone>>

(***************************************************************************)
(* Publication                                                             *)
(***************************************************************************)
\* publishedProofValid
Approved(row, t, v) == approval[<<t, v>>] = Proof(row)

\* Sensitivity variant: a failed trial does not withdraw earlier evidence.
DraftValidDespiteFailure(e) ==
  evidence[Key(e)] = Proof(source) /\ Key(e) \notin catalog.outdated

\* DraftTemplateValidation: evidence of this connection, since the last restore,
\* and not contradicted by a later trial.
DraftValid(e) ==
  LET last == results[Key(e)] IN
  /\ evidence[Key(e)] = Proof(source)
  /\ Key(e) \notin catalog.outdated
  /\ last.proof = Proof(source) => last.passed

SameDefinition(t) ==
  /\ catalog.live[t] # Nothing /\ catalog.draft[t] # Nothing
  /\ Definition(catalog.live[t]) = Definition(catalog.draft[t])

\* Sensitivity variant: a version survives a change of the connection.
VersionKeptAnyway(t) == SameDefinition(t)

\* The template keeps its execution version: same definition, approved as it is.
VersionKept(t) ==
  SameDefinition(t) /\ Approved(source, t, catalog.live[t].version)

\* The snapshot a publication makes of the draft.
NextLive ==
  [t \in Templates |->
     LET e == catalog.draft[t] IN
     IF e = Nothing THEN Nothing
     ELSE [query |-> e.query, tests |-> e.tests, enabled |-> e.enabled,
           version |-> IF VersionKept(t) THEN catalog.live[t].version
                                         ELSE catalog.version + 1]]

\* Sensitivity variant: entries that left the draft are forgotten.
ChangedInDraft == {t \in Templates : catalog.draft[t] # Nothing /\ ~VersionKept(t)}

\* Templates whose running calls a publication may have to cancel.
Changed ==
  {t \in Templates :
     (catalog.live[t] # Nothing \/ catalog.draft[t] # Nothing) /\ ~VersionKept(t)}

EnabledIn(snapshot) == {t \in Templates : snapshot[t] # Nothing /\ snapshot[t].enabled}

CurrentVersions(snapshot) ==
  [t \in Templates |->
     IF t \in EnabledIn(snapshot) THEN snapshot[t].version ELSE Nothing]

\* PublishSemantics, which then owes the cancellations.
Publish ==
  LET live == NextLive IN
  LET published(a) == a[1] \in EnabledIn(live) /\ a[2] = live[a[1]].version IN
  /\ CanWrite
  /\ \A t \in EnabledIn(catalog.draft) : DraftValid(catalog.draft[t])
  /\ catalog' = [catalog EXCEPT !.revision = @ + 1, !.version = @ + 1, !.live = live,
                                !.outdated = {}]
  /\ archive' = [archive EXCEPT ![catalog.version + 1] = live]
  /\ approval' = [a \in DOMAIN approval |->
                    IF published(a) THEN Proof(source) ELSE approval[a]]
  /\ meaning' = [a \in DOMAIN meaning |->
                   IF published(a)
                     THEN [query |-> live[a[1]].query, proof |-> Proof(source)]
                     ELSE meaning[a]]
  /\ mutations' = [owed |-> "cancel templates", changed |-> Changed,
                   current |-> CurrentVersions(live)]
  /\ UNCHANGED <<source, proven, trialVars, callVars, ctxDone>>

\* InvalidateTemplates
CancelTemplates ==
  /\ mutations # Nothing /\ mutations.owed = "cancel templates"
  /\ ctxDone' = ctxDone \union
       {c \in Jobs : /\ local[c].id \in mutations.changed
                     /\ local[c].version # mutations.current[local[c].id]}
  /\ mutations' = Nothing
  /\ UNCHANGED <<source, proven, catalogVars, trialVars, callVars>>

(***************************************************************************)
(* A trial of a draft template                                             *)
(***************************************************************************)
trialFrame == <<catalogVars, callVars, ctxDone>>

\* TrialTemplate: authorized on the row as it is, for the draft as it is shown; the
\* version a probe reports has to be recorded unless the row has it.
StartTrial(t, version) ==
  /\ trial = Nothing
  /\ trial' = [place |-> IF version = source.observed THEN "run" ELSE "record",
               id |-> t, revision |-> catalog.revision, src |-> source,
               seen |-> version, key |-> Nothing, passed |-> FALSE]
  /\ UNCHANGED <<source, proven, evidence, results, mutations, trialFrame>>

\* An error, a conflict, a timeout or a failed save: nothing more is recorded.
TrialFails ==
  /\ trial # Nothing
  /\ trial' = Nothing
  /\ UNCHANGED <<source, proven, evidence, results, mutations, trialFrame>>

\* recordDatabaseVersion finds that somebody else has saved the version.
TrialVersionKnown ==
  /\ trial # Nothing /\ trial.place = "record"
  /\ mutations = Nothing
  /\ source.revision = trial.src.revision /\ source.observed = trial.seen
  /\ trial' = [trial EXCEPT !.place = "run", !.src = source]
  /\ UNCHANGED <<source, proven, evidence, results, mutations, trialFrame>>

\* recordDatabaseVersion saves what was seen, and owes the cancellation of work if
\* another version was known.
RecordVersion(src, seen) ==
  /\ mutations = Nothing
  /\ source.revision = src.revision
  /\ seen \notin {src.observed, source.observed}
  /\ source.observed = Nothing \/ source.revision < MaxRevision
  /\ SaveRow(Observed(source, seen))
  /\ mutations' = IF source.observed = Nothing THEN Nothing ELSE [owed |-> "cancel source"]

TrialRecords ==
  /\ trial # Nothing /\ trial.place = "record"
  /\ RecordVersion(trial.src, trial.seen)
  /\ trial' = [trial EXCEPT !.place = "run", !.src = source']
  /\ UNCHANGED <<evidence, results, trialFrame>>

\* The draft is still the one shown and the template enabled in it.  The cases of
\* runTemplateCases are calls of their own, on the source as it is by then.
TrialRun ==
  /\ trial # Nothing /\ trial.place = "run"
  /\ catalog.revision = trial.revision
  /\ trial.id \in EnabledIn(catalog.draft)
  /\ LET key == Key(catalog.draft[trial.id]) IN
     \E passed \in BOOLEAN :
       /\ trial' = [trial EXCEPT !.place = "settle", !.key = key, !.passed = passed]
       /\ proven' = IF passed THEN proven \union {key} ELSE proven
  /\ UNCHANGED <<source, evidence, results, mutations, trialFrame>>

SaveResult(proof) ==
  results' = [results EXCEPT ![trial.key] = [proof |-> proof, passed |-> trial.passed]]

\* The evidence of a success, saved after the result; that second save may fail.
SaveEvidence(proof) ==
  \/ UNCHANGED <<evidence, catalog>>
  \/ /\ trial.passed
     /\ evidence' = [evidence EXCEPT ![trial.key] = proof]
     /\ catalog' = [catalog EXCEPT !.outdated = @ \ {trial.key}]

\* Nothing moved during the trial: its outcome is saved under the lock.
SettleTrial ==
  /\ trial # Nothing /\ trial.place = "settle"
  /\ mutations = Nothing
  /\ catalog.revision = trial.revision
  /\ Proof(source) = Proof(trial.src)
  /\ SaveResult(Proof(trial.src))
  /\ SaveEvidence(Proof(trial.src))
  /\ trial' = Nothing
  /\ UNCHANGED <<source, proven, archive, approval, meaning, callVars, mutations, ctxDone>>

(***************************************************************************)
(* A call of a published template                                          *)
(***************************************************************************)
callFrame == <<source, proven, catalogVars, trialVars>>

\* At place, with these locals changed.
Continue(c, place, values) ==
  /\ pc' = [pc EXCEPT ![c] = place]
  /\ local' = [local EXCEPT ![c] = values]

\* Authorize reads the row; the version is one the Agent found in a catalog.
Begin(c, t, v) ==
  /\ pc[c] = "idle"
  /\ meaning[<<t, v>>] # Nothing
  /\ Continue(c, "catalog", [NewLocal EXCEPT !.id = t, !.version = v,
                                             !.src = source, !.row = source])
  /\ UNCHANGED <<callFrame, mutations, ctxDone>>

\* A check failed, an error, a timeout.
Fail(c) ==
  /\ pc[c] # "idle"
  /\ Continue(c, "idle", NewLocal)
  /\ ctxDone' = ctxDone \ {c}
  /\ UNCHANGED <<callFrame, mutations>>

\* publishedTemplate reads the snapshots first; the first pass binds the query.
ReadCatalog(c) ==
  LET l == local[c] IN
  LET e == catalog.live[l.id] IN
  /\ pc[c] = "catalog"
  /\ l.id \in EnabledIn(catalog.live)
  /\ e.version = l.version
  /\ Continue(c, "evidence",
       [l EXCEPT !.key = Key(e), !.query = IF l.pass = 1 THEN e.query ELSE @])
  /\ UNCHANGED <<callFrame, mutations, ctxDone>>

\* TemplateValidation
ReadEvidence(c) ==
  /\ pc[c] = "evidence"
  /\ evidence[local[c].key] = Proof(local[c].row)
  /\ Continue(c, "approval", [local[c] EXCEPT !.key = Nothing])
  /\ UNCHANGED <<callFrame, mutations, ctxDone>>

\* publishedProofValid, and on to what follows the first two passes.
ReadApproval(c) ==
  LET l == local[c] IN
  /\ pc[c] = "approval" /\ l.pass < 3
  /\ Approved(l.row, l.id, l.version)
  /\ Continue(c, IF l.pass = 1 THEN "register" ELSE "probe", l)
  /\ UNCHANGED <<callFrame, mutations, ctxDone>>

\* The third pass ends in the result.
Answer(c) ==
  /\ pc[c] = "approval" /\ local[c].pass = 3
  /\ Approved(local[c].row, local[c].id, local[c].version)
  /\ Continue(c, "idle", NewLocal)
  /\ ctxDone' = ctxDone \ {c}
  /\ UNCHANGED <<callFrame, mutations>>

Register(c) ==
  /\ pc[c] = "register"
  /\ Continue(c, "reauthorize", local[c])
  /\ UNCHANGED <<callFrame, mutations, ctxDone>>

SameRevision(c) == source.revision = local[c].src.revision

\* Authorized again, and the template looked up again; then admit and acquire.
Reauthorize(c) ==
  /\ pc[c] = "reauthorize"
  /\ SameRevision(c)
  /\ Continue(c, "catalog", [local[c] EXCEPT !.pass = 2])
  /\ UNCHANGED <<callFrame, mutations, ctxDone>>

\* Sensitivity variant: whatever version the server reports is as good.
AnyVersion(c) ==
  /\ pc[c] = "probe"
  /\ \E version \in ServerVersions :
       Continue(c, "check", [local[c] EXCEPT !.probed = version])
  /\ UNCHANGED <<callFrame, mutations, ctxDone>>

\* The probe reports a version, and recordDatabaseVersion finds it known: the
\* query runs.
VersionKnown(c) ==
  LET src == local[c].src IN
  /\ pc[c] = "probe"
  /\ \E version \in ServerVersions :
       /\ \/ version = src.observed
          \/ mutations = Nothing /\ source.revision = src.revision
               /\ version = source.observed
       /\ Continue(c, "check", [local[c] EXCEPT !.probed = version])
  /\ UNCHANGED <<callFrame, mutations, ctxDone>>

\* It reports another version, which is recorded, and the call fails.
VersionChanged(c) ==
  /\ pc[c] = "probe"
  /\ \E version \in ServerVersions : RecordVersion(local[c].src, version)
  /\ Continue(c, "idle", NewLocal)
  /\ ctxDone' = ctxDone \ {c}
  /\ UNCHANGED <<catalogVars, trialVars>>

CheckContext(c) ==
  /\ pc[c] = "check"
  /\ c \notin ctxDone
  /\ Continue(c, "recheck", local[c])
  /\ UNCHANGED <<callFrame, mutations, ctxDone>>

\* Authorized a third time, on the same revision ...
Recheck(c) ==
  /\ pc[c] = "recheck"
  /\ SameRevision(c)
  /\ Continue(c, "fresh", local[c])
  /\ UNCHANGED <<callFrame, mutations, ctxDone>>

\* ... and a fourth time, for the row the template is validated against.
ReadFresh(c) ==
  /\ pc[c] = "fresh"
  /\ Continue(c, "catalog", [local[c] EXCEPT !.pass = 3, !.row = source])
  /\ UNCHANGED <<callFrame, mutations, ctxDone>>

(***************************************************************************)
(* Specification                                                           *)
(***************************************************************************)
SourceStep ==
  \/ EditSource \/ CancelSource \/ SaveVersion
  \/ \E version \in ServerVersions : ObserveVersion(version)

CatalogStep ==
  \/ \E d \in Snapshots(Drafts) : SaveDraft(d)
  \/ \E v \in Versions : Restore(v) \/ DeleteVersion(v)
  \/ Discard \/ Publish \/ CancelTemplates

TrialStep ==
  \/ \E t \in Templates, version \in ServerVersions : StartTrial(t, version)
  \/ TrialFails \/ TrialVersionKnown \/ TrialRecords \/ TrialRun \/ SettleTrial

CallStep(c) ==
  \/ \E t \in Templates, v \in Versions : Begin(c, t, v)
  \/ Fail(c) \/ ReadCatalog(c) \/ ReadEvidence(c) \/ ReadApproval(c) \/ Register(c)
  \/ Reauthorize(c) \/ VersionKnown(c) \/ VersionChanged(c)
  \/ CheckContext(c) \/ Recheck(c) \/ ReadFresh(c) \/ Answer(c)

Next == SourceStep \/ CatalogStep \/ TrialStep \/ \E c \in Calls : CallStep(c)

Spec == Init /\ [][Next]_vars

(***************************************************************************)
(* Properties                                                              *)
(***************************************************************************)
\* A template call answers only with a query that passed a trial on the very
\* connection and server version the call ran on, and that its execution version
\* was published as (execute, publishedTemplate, recordDatabaseVersion).
AnswersAreProven ==
  [][ \A c \in Calls : Answer(c) =>
        LET l == local[c] IN
        meaning[<<l.id, l.version>>] =
          [query |-> l.query, proof |-> <<l.src.connection, l.probed>>] ]_vars

\* Once a publication is complete, every call still at work on an execution
\* version that is not the published one has been cancelled
\* (InvalidateTemplates against the registration of jobs in execute).
StaleRunsCancelled ==
  mutations = Nothing =>
    \A c \in Calls :
      /\ pc[c] \in {"probe", "check"}
      /\ CurrentVersions(catalog.live)[local[c].id] # local[c].version
      => c \in ctxDone

\* The values are of their types, a complete publication has cancelled every call
\* of a version it replaced, and no publication cancels a call of a version it
\* keeps or has just introduced (InvalidateTemplates compares versions, not only
\* changed templates).
ExactlyStaleRunsAreCancelled ==
  /\ [](TypeOK /\ StaleRunsCancelled)
  /\ [][ (mutations # Nothing /\ mutations.owed = "cancel templates" /\ mutations' = Nothing) =>
          \A c \in ctxDone' \ ctxDone :
            CurrentVersions(catalog.live)[local[c].id] # local[c].version ]_vars

\* An execution version stands for one query, proved on one connection, for ever
\* (PublishSemantics reuses a version only as it was approved).
VersionKeepsItsMeaning ==
  [][ \A a \in DOMAIN meaning : meaning[a] # Nothing => meaning'[a] = meaning[a] ]_vars

\* What publishedTemplate would accept now.
Executable(t) ==
  /\ t \in EnabledIn(catalog.live)
  /\ evidence[Key(catalog.live[t])] = Proof(source)
  /\ Approved(source, t, catalog.live[t].version)

\* A publication contains only templates that passed a trial on the source as it
\* is, with no failed trial since, and nothing else makes a template executable: a
\* trial alone does not resume a suspended one, nor does restoring an earlier
\* connection or version (PublishSemantics, DraftTemplateValidation,
\* PublishedTemplateValidation, connectionProof).
PublishesOnlyTried ==
  [][ /\ catalog'.version # catalog.version =>
           \A t \in EnabledIn(catalog'.live) :
             LET k == Key(catalog'.live[t]) IN
             /\ k \in proven
             /\ results[k] = [proof |-> Proof(source), passed |-> TRUE]
      /\ \A t \in Templates :
           ~Executable(t) /\ Executable(t)' => catalog'.version # catalog.version ]_vars
=============================================================================

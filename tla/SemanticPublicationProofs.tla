---------------------- MODULE SemanticPublicationProofs ----------------------
(***************************************************************************)
(* Proofs about the publication and the execution of query templates, for  *)
(* any templates, queries and regression cases, any number of calls, and   *)
(* any sequence of edits, upgrades, trials, publications and restores.     *)
(***************************************************************************)
EXTENDS SemanticPublication, TLAPS

(***************************************************************************)
(* The inductive invariant                                                 *)
(***************************************************************************)
\* A proof of the connection as it was at some time: of an earlier connection, or of
\* this one, before or after its version was known.
Past(p) ==
  /\ p[1] <= source.connection
  /\ p[1] = source.connection => p[2] \in {Nothing, source.observed}

\* What was published has its meaning, and its approval with it.
Publications ==
  /\ source.connection > 0
  /\ catalog.version <= catalog.revision
  /\ \A t \in Templates, v \in Versions :
       IF meaning[<<t, v>>] = Nothing
         THEN approval[<<t, v>>] = NoProof
         ELSE /\ v <= catalog.version
              /\ approval[<<t, v>>] = meaning[<<t, v>>].proof
              /\ Past(approval[<<t, v>>])
  /\ \A t \in Templates : catalog.live[t] # Nothing =>
       LET e == catalog.live[t] IN
       /\ e.version <= catalog.version
       /\ e.enabled => meaning[<<t, e.version>>] # Nothing
       /\ meaning[<<t, e.version>>] # Nothing =>
            meaning[<<t, e.version>>].query = e.query

\* Evidence of the connection as it is was earned on it, by the last trial or before
\* a failed one.
Evidence ==
  /\ \A k \in Keys :
       /\ Past(evidence[k]) /\ Past(results[k].proof)
       /\ evidence[k] = Proof(source) =>
            k \in proven /\ results[k].proof = Proof(source)
  /\ \A t \in EnabledIn(catalog.live) :
       Approved(source, t, catalog.live[t].version) =>
         evidence[Key(catalog.live[t])] = Proof(source)

Trial ==
  trial # Nothing =>
    /\ Past(Proof(trial.src))
    /\ trial.place = "settle" =>
         /\ trial.key \in Keys
         /\ trial.passed /\ Proof(source) = Proof(trial.src) => trial.key \in proven

\* A publication that is not complete owes the cancellation of what it replaced.
Publishing ==
  mutations # Nothing /\ mutations.owed = "cancel templates" =>
    mutations.current = CurrentVersions(catalog.live)

\* Of a call at place with the local variables l: its template was found in the
\* catalog, its first pass is over, the server reported its version, it is in its
\* second pass past the catalog or in the query that follows.
Bound(place, l) == place \notin {"idle", "catalog"} \/ (place = "catalog" /\ l.pass > 1)

PassedOnce(place, l) ==
  \/ place \in {"register", "reauthorize", "probe", "check", "recheck", "fresh"}
  \/ place \in {"catalog", "evidence", "approval"} /\ l.pass > 1

Probed(place, l) ==
  \/ place \in {"check", "recheck", "fresh"}
  \/ place \in {"catalog", "evidence", "approval"} /\ l.pass = 3

AtWork(place, l) ==
  \/ place \in {"probe", "check"}
  \/ place \in {"evidence", "approval"} /\ l.pass = 2

Stale(l) == CurrentVersions(catalog.live)[l.id] # l.version

Cancelled(c, l) ==
  \/ c \in ctxDone
  \/ /\ mutations # Nothing /\ mutations.owed = "cancel templates"
     /\ l.id \in mutations.changed

\* Since its first pass the approval of what a call executes is the proof of the row
\* it began on, and the version it was told, if the connection is still that row's, is
\* the observed one.
CallAt(c, place, l) ==
  /\ l.id \in Templates /\ l.version \in Versions
  /\ Past(Proof(l.src))
  /\ place = "evidence" => l.key \in Keys
  /\ place \in {"register", "reauthorize", "probe", "check", "recheck", "fresh"} => l.pass < 3
  /\ l.pass < 3 => l.row = l.src
  /\ Bound(place, l) =>
       /\ meaning[<<l.id, l.version>>] # Nothing
       /\ meaning[<<l.id, l.version>>].query = l.query
  /\ PassedOnce(place, l) => approval[<<l.id, l.version>>] = Proof(l.src)
  /\ Probed(place, l) =>
       /\ l.probed \in ServerVersions
       /\ source.connection = l.src.connection => source.observed = l.probed
       /\ l.pass = 3 /\ l.row.connection = l.src.connection => l.row.observed = l.probed
  /\ AtWork(place, l) /\ Stale(l) => Cancelled(c, l)

Call(c) == pc[c] # "idle" => CallAt(c, pc[c], local[c])

PublicationInv ==
  /\ TypeOK
  /\ Publications
  /\ Evidence
  /\ Trial
  /\ Publishing
  /\ \A c \in Calls : Call(c)

USE BoundsAreNaturals, NothingIsNothing

(***************************************************************************)
(* Proofs of a connection do not return                                    *)
(***************************************************************************)
\* What a save may make of the row: another connection, or a first version.
Newer(row) ==
  /\ row \in SourceRows
  /\ \/ row.connection > source.connection
     \/ /\ row.connection = source.connection
        /\ source.observed \in {Nothing, row.observed}

LEMMA SameIsNewer ==
  ASSUME source \in SourceRows
  PROVE  Newer(source)
PROOF
  BY DEF Newer, SourceRows

LEMMA ObservedIsNewer ==
  ASSUME source \in SourceRows, NEW version \in ServerVersions
  PROVE  Newer(Observed(source, version))
PROOF
  <1>1. source.revision + 1 \in Nat /\ source.connection + 1 \in Nat
        /\ source.connection + 1 > source.connection
    BY DEF SourceRows
  <1>2. CASE source.observed = Nothing
    <2>1. Observed(source, version) = [source EXCEPT !.observed = version]
      BY <1>2 DEF Observed
    <2> QED  BY <1>2, <2>1 DEF Newer, SourceRows
  <1>3. CASE source.observed # Nothing
    <2>1. Observed(source, version) =
            [revision |-> source.revision + 1, connection |-> source.connection + 1,
             observed |-> version]
      BY <1>3 DEF Observed
    <2> QED  BY <1>1, <2>1 DEF Newer, SourceRows
  <1> QED  BY <1>2, <1>3

\* What is past stays past, and is no proof of the new row unless that has the old
\* row's.
LEMMA PastStays ==
  ASSUME source \in SourceRows, Newer(source'), NEW p \in Proofs, Past(p)
  PROVE  /\ Past(p)'
         /\ p = Proof(source') => Proof(source') = Proof(source)
PROOF
  <1>1. /\ source.connection \in Nat /\ source'.connection \in Nat /\ p[1] \in Nat
        /\ source.connection <= source'.connection
    BY DEF SourceRows, Newer, Proofs
  <1>2. Past(p)'
    BY <1>1 DEF Past, Newer
  <1>3. ASSUME p = Proof(source')  PROVE Proof(source') = Proof(source)
    <2>1. p[1] = source'.connection /\ p[2] = source'.observed  BY <1>3 DEF Proof
    <2>2. source'.connection = source.connection  BY <1>1, <2>1 DEF Past
    <2>3. p[2] \in {Nothing, source.observed}  BY <2>1, <2>2 DEF Past
    <2>4. source.observed \in {Nothing, source'.observed}
      BY <1>1, <2>2 DEF Newer
    <2> QED  BY <2>1, <2>2, <2>3, <2>4 DEF Proof
  <1> QED  BY <1>2, <1>3

LEMMA OwnProofIsPast ==
  ASSUME source \in SourceRows
  PROVE  Past(Proof(source)) /\ Proof(source) \in Proofs
PROOF
  BY DEF Past, Proof, Proofs, SourceRows

LEMMA ProofTyped ==
  ASSUME NEW row \in SourceRows
  PROVE  Proof(row) \in Proofs
PROOF
  BY DEF Proof, Proofs, SourceRows

\* The row is saved and nothing of the catalog changes.
LEMMA SourceSaved ==
  ASSUME PublicationInv, NEW row, Newer(row), SaveRow(row),
         UNCHANGED <<catalogVars, evidence, results>>
  PROVE  /\ source' \in SourceRows /\ Newer(source') /\ proven' \subseteq Keys
         /\ Publications' /\ Evidence'
PROOF
  <1>1. source' = row /\ source' \in SourceRows /\ Newer(source')
    BY DEF SaveRow, Newer
  <1>2. /\ source \in SourceRows
        /\ evidence \in [Keys -> Proofs]
        /\ results \in [Keys -> [proof: Proofs, passed: BOOLEAN]]
        /\ approval \in [Templates \X Versions -> Proofs]
        /\ catalog.live \in Snapshots(Entries)
        /\ proven \subseteq Keys
    BY DEF PublicationInv, TypeOK
  <1>3. proven' \subseteq Keys /\ (Proof(source') = Proof(source) => proven' = proven)
    BY <1>1, <1>2 DEF SaveRow
  <1>4. \A p \in Proofs : Past(p) =>
          Past(p)' /\ (p = Proof(source') => Proof(source') = Proof(source))
    BY <1>1, <1>2, PastStays
  <1>5. source.connection \in Nat /\ source'.connection \in Nat
        /\ source.connection <= source'.connection
    BY <1>1, <1>2 DEF Newer, SourceRows
  <1>6. Publications'
    <2>1. source'.connection > 0  BY <1>5 DEF PublicationInv, Publications
    <2>2. ASSUME NEW t \in Templates, NEW v \in Versions
          PROVE  approval[<<t, v>>] \in Proofs
      BY <1>2
    <2> QED
      BY <1>4, <2>1, <2>2 DEF PublicationInv, Publications, catalogVars
  <1>7. Evidence'
    <2>1. ASSUME NEW k \in Keys
          PROVE  /\ Past(evidence[k])' /\ Past(results[k].proof)'
                 /\ evidence'[k] = Proof(source)' =>
                      k \in proven' /\ results'[k].proof = Proof(source)'
      <3>1. evidence[k] \in Proofs /\ results[k].proof \in Proofs  BY <1>2
      <3>2. Past(evidence[k]) /\ Past(results[k].proof)
        BY DEF PublicationInv, Evidence
      <3>3. UNCHANGED <<evidence, results>>  OBVIOUS
      <3>4. Proof(source)' = Proof(source')  BY DEF Proof
      <3>5. evidence[k] = Proof(source) => k \in proven /\ results[k].proof = Proof(source)
        BY DEF PublicationInv, Evidence
      <3> QED  BY <1>3, <1>4, <3>1, <3>2, <3>3, <3>4, <3>5
    <2>2. ASSUME NEW t \in EnabledIn(catalog.live), Approved(source, t, catalog.live[t].version)'
          PROVE  evidence'[Key(catalog.live[t])] = Proof(source)'
      <3>1. t \in Templates /\ catalog.live[t] # Nothing  BY DEF EnabledIn
      <3>2. catalog.live[t].version \in Versions
        BY <1>2, <3>1 DEF Snapshots, Entries
      <3>3. approval[<<t, catalog.live[t].version>>] \in Proofs
        BY <1>2, <3>1, <3>2
      <3>4. approval[<<t, catalog.live[t].version>>] = Proof(source')
        BY <2>2 DEF Approved, catalogVars, Proof
      <3>5. Past(approval[<<t, catalog.live[t].version>>])
        BY <3>1, <3>2, OwnProofIsPast, <1>2 DEF PublicationInv, Publications, EnabledIn
      <3>6. Proof(source') = Proof(source)  BY <1>4, <3>3, <3>4, <3>5
      <3>7. Approved(source, t, catalog.live[t].version)
        BY <3>4, <3>6 DEF Approved
      <3> QED
        BY <3>6, <3>7 DEF PublicationInv, Evidence, Proof
    <2>3. EnabledIn(catalog.live)' = EnabledIn(catalog.live)
      BY DEF EnabledIn, catalogVars
    <2>4. \A t \in Templates : Key(catalog.live[t])' = Key(catalog.live[t])
      BY DEF Key, catalogVars
    <2> QED  BY <2>1, <2>2, <2>3, <2>4 DEF Evidence, EnabledIn
  <1> QED  BY <1>1, <1>3, <1>6, <1>7

(***************************************************************************)
(* Calls at rest                                                           *)
(***************************************************************************)
\* A call that takes no step, while a step of another one keeps what was published
\* and cancels it if it becomes outdated.
LEMMA CallStays ==
  ASSUME PublicationInv, NEW c \in Calls, pc'[c] = pc[c], local'[c] = local[c],
         Newer(source'),
         \A t \in Templates, v \in Versions : meaning[<<t, v>>] # Nothing =>
           meaning'[<<t, v>>] = meaning[<<t, v>>] /\ approval'[<<t, v>>] = approval[<<t, v>>],
         pc[c] # "idle" /\ AtWork(pc[c], local[c]) /\ Stale(local[c])' => Cancelled(c, local[c])'
  PROVE  Call(c)'
PROOF
  <1> SUFFICES ASSUME pc[c] # "idle"  PROVE CallAt(c, pc[c], local[c])'
    BY DEF Call
  <1>1. CallAt(c, pc[c], local[c])  BY DEF PublicationInv, Call
  <1> DEFINE l == local[c]
             place == pc[c]
  <1>2. /\ l.id \in Templates /\ l.version \in Versions /\ Past(Proof(l.src))
    BY <1>1 DEF CallAt
  <1>3. l.src \in SourceRows /\ source \in SourceRows
    BY DEF PublicationInv, TypeOK, Locals
  <1>4. Past(Proof(l.src))'
    BY <1>2, <1>3, ProofTyped, PastStays DEF Proof, Past
  <1>5. PassedOnce(place, l) => Bound(place, l)
    BY DEF PassedOnce, Bound
  <1>6. Bound(place, l) => /\ meaning'[<<l.id, l.version>>] # Nothing
                           /\ meaning'[<<l.id, l.version>>].query = l.query
    BY <1>1, <1>2 DEF CallAt
  <1>7. PassedOnce(place, l) => approval'[<<l.id, l.version>>] = Proof(l.src)
    BY <1>1, <1>2, <1>5 DEF CallAt
  <1>8. Probed(place, l) =>
          /\ l.probed \in ServerVersions
          /\ source'.connection = l.src.connection => source'.observed = l.probed
          /\ l.pass = 3 /\ l.row.connection = l.src.connection => l.row.observed = l.probed
    <2> SUFFICES ASSUME Probed(place, l), source'.connection = l.src.connection
                 PROVE  source'.observed = l.probed
      BY <1>1 DEF CallAt
    <2>1. /\ source.connection \in Nat /\ source'.connection \in Nat
          /\ l.src.connection \in Nat
      BY <1>3 DEF SourceRows, Newer
    <2>2. source.connection = l.src.connection
      BY <1>2, <2>1 DEF Past, Proof, Newer
    <2>3. source.observed = l.probed /\ l.probed \in ServerVersions
      BY <1>1, <2>2 DEF CallAt
    <2> QED  BY <2>1, <2>2, <2>3 DEF Newer
  <1>9. /\ l.pass < 3 => l.row = l.src
        /\ place = "evidence" => l.key \in Keys
        /\ place \in {"register", "reauthorize", "probe", "check", "recheck", "fresh"} => l.pass < 3
    BY <1>1 DEF CallAt
  <1>10. l' = l /\ place' = place  OBVIOUS
  <1> HIDE DEF l, place
  <1>11. CallAt(c, place, l)'
    BY <1>2, <1>4, <1>6, <1>7, <1>8, <1>9, <1>10
       DEF CallAt, Bound, PassedOnce, Probed, AtWork, Proof, Past, l, place
  <1> QED  BY <1>11 DEF l, place

\* A step of one call: what it leaves of itself has to be right.
LEMMA OneCallMoves ==
  ASSUME PublicationInv, NEW c \in Calls, NEW place \in Stages, NEW values \in Locals,
         Continue(c, place, values), UNCHANGED <<callFrame, mutations>>,
         ctxDone' = ctxDone \/ (ctxDone' = ctxDone \ {c} /\ place = "idle"),
         Call(c)'
  PROVE  PublicationInv'
PROOF
  <1>1. UNCHANGED <<source, proven, catalog, archive, approval, meaning, evidence, results,
                    trial, mutations>>
    BY DEF callFrame, catalogVars, trialVars
  <1>2. /\ pc' \in [Calls -> Stages] /\ local' \in [Calls -> Locals] /\ ctxDone' \subseteq Calls
        /\ \A d \in Calls : d # c => pc'[d] = pc[d] /\ local'[d] = local[d]
    BY DEF PublicationInv, TypeOK, Continue
  <1>3. TypeOK'
    BY <1>1, <1>2 DEF PublicationInv, TypeOK
  <1>4. ASSUME NEW d \in Calls, d # c  PROVE Call(d)'
    <2>1. pc'[d] = pc[d] /\ local'[d] = local[d]  BY <1>2, <1>4
    <2>2. Newer(source')
      BY <1>1, SameIsNewer DEF PublicationInv, TypeOK, Newer
    <2>3. AtWork(pc[d], local[d]) /\ Stale(local[d])' => Cancelled(d, local[d])'
      <3>1. Stale(local[d])' <=> Stale(local[d])
        BY <1>1, <2>1 DEF Stale, CurrentVersions, EnabledIn
      <3>2. d \in ctxDone => d \in ctxDone'  BY <1>4
      <3>3. Cancelled(d, local[d]) => Cancelled(d, local[d])'
        BY <1>1, <2>1, <3>2 DEF Cancelled
      <3>4. AtWork(pc[d], local[d]) => pc[d] # "idle"  BY DEF AtWork
      <3> QED  BY <3>1, <3>3, <3>4 DEF PublicationInv, Call, CallAt
    <2> QED  BY <1>1, <2>1, <2>2, <2>3, CallStays
  <1>5. Publications' /\ Evidence'
    BY <1>1 DEF PublicationInv, Publications, Evidence, Past, EnabledIn, Approved, Proof, Key
  <1>6. Trial' /\ Publishing'
    BY <1>1 DEF PublicationInv, Trial, Publishing, Past, Proof, CurrentVersions, EnabledIn
  <1> QED  BY <1>3, <1>4, <1>5, <1>6 DEF PublicationInv

LEMMA NewLocalTyped == NewLocal \in Locals
PROOF
  BY DEF NewLocal, Locals, NoRow, SourceRows

\* A call that is over.
LEMMA CallEnds ==
  ASSUME PublicationInv, NEW c \in Calls, Fail(c) \/ Answer(c)
  PROVE  PublicationInv'
PROOF
  <1>1. /\ Continue(c, "idle", NewLocal) /\ UNCHANGED <<callFrame, mutations>>
        /\ ctxDone' = ctxDone \ {c}
    BY DEF Fail, Answer
  <1>2. pc'[c] = "idle"
    BY <1>1 DEF Continue, PublicationInv, TypeOK
  <1>3. Call(c)'  BY <1>2 DEF Call
  <1> QED  BY <1>1, <1>3, NewLocalTyped, OneCallMoves DEF Stages

\* A call that moved on.
LEMMA CallMoves ==
  ASSUME PublicationInv, NEW c \in Calls, NEW place \in Stages, NEW l \in Locals,
         Continue(c, place, l), UNCHANGED <<callFrame, mutations, ctxDone>>,
         CallAt(c, place, l)
  PROVE  PublicationInv'
PROOF
  <1>1. UNCHANGED <<source, proven, catalog, archive, approval, meaning, evidence, results,
                    trial, mutations, ctxDone>>
    BY DEF callFrame, catalogVars, trialVars
  <1>2. pc'[c] = place /\ local'[c] = l
    BY DEF Continue, PublicationInv, TypeOK
  <1>3. CallAt(c, place, l)'
    BY <1>1 DEF CallAt, Past, Stale, Cancelled, CurrentVersions, EnabledIn
  <1>4. Call(c)'
    BY <1>2, <1>3 DEF Call, CallAt, Bound, PassedOnce, Probed, AtWork, Stale, Cancelled, Proof, Past
  <1> QED  BY <1>4, OneCallMoves

(***************************************************************************)
(* Steps of a call                                                         *)
(***************************************************************************)
\* What is known of a call at work.
LEMMA CallTyped ==
  ASSUME PublicationInv, NEW c \in Calls
  PROVE  /\ local[c] \in Locals /\ local[c].src \in SourceRows /\ source \in SourceRows
         /\ local[c].pass \in 1..3
         /\ pc[c] # "idle" => CallAt(c, pc[c], local[c])
PROOF
  BY DEF PublicationInv, TypeOK, Locals, Call

LEMMA BeginKeeps ==
  ASSUME PublicationInv, NEW c \in Calls, NEW t \in Templates, NEW v \in Versions,
         Begin(c, t, v)
  PROVE  PublicationInv'
PROOF
  <1>1. PICK src \in SourceRows : src = source  BY CallTyped
  <1>2. PICK new \in Locals : new = NewLocal  BY NewLocalTyped
  <1> DEFINE l == [new EXCEPT !.id = t, !.version = v, !.src = src, !.row = src]
  <1>3. l \in Locals /\ l.id = t /\ l.version = v /\ l.src = src /\ l.row = src
        /\ l.pass = new.pass
    BY <1>2 DEF Locals
  <1>4. new.pass = 1  BY <1>2 DEF NewLocal
  <1>5. CallAt(c, "catalog", l)
    BY <1>1, <1>3, <1>4, OwnProofIsPast DEF CallAt, Bound, PassedOnce, Probed, AtWork
  <1>6. Continue(c, "catalog", l) /\ UNCHANGED <<callFrame, mutations, ctxDone>>
    BY <1>1, <1>2 DEF Begin
  <1> HIDE DEF l
  <1> QED  BY <1>3, <1>5, <1>6, CallMoves DEF Stages

\* The current version means what the snapshot says.
LEMMA ReadCatalogKeeps ==
  ASSUME PublicationInv, NEW c \in Calls, ReadCatalog(c)
  PROVE  PublicationInv'
PROOF
  <1> DEFINE l == local[c]
             e == catalog.live[l.id]
             m == [l EXCEPT !.key = Key(e), !.query = IF l.pass = 1 THEN e.query ELSE l.query]
  <1>1. /\ pc[c] = "catalog" /\ l.id \in EnabledIn(catalog.live) /\ e.version = l.version
        /\ Continue(c, "evidence", m) /\ UNCHANGED <<callFrame, mutations, ctxDone>>
    BY DEF ReadCatalog
  <1>2. l \in Locals /\ l.pass \in 1..3 /\ CallAt(c, "catalog", l)
    BY <1>1, CallTyped
  <1>3. e \in Entries /\ e.enabled /\ l.id \in Templates
    BY <1>1 DEF EnabledIn, PublicationInv, TypeOK, Snapshots
  <1>4. Key(e) \in Keys /\ e.query \in Queries
    BY <1>3 DEF Key, Keys, Entries
  <1>5. m \in Locals
    BY <1>2, <1>4 DEF Locals
  <1>6. /\ m.id = l.id /\ m.version = l.version /\ m.src = l.src /\ m.row = l.row
        /\ m.pass = l.pass /\ m.probed = l.probed /\ m.key = Key(e)
        /\ m.query = IF l.pass = 1 THEN e.query ELSE l.query
    BY <1>2 DEF Locals
  <1>7. /\ meaning[<<l.id, l.version>>] # Nothing
        /\ meaning[<<l.id, l.version>>].query = e.query
    BY <1>1, <1>3 DEF PublicationInv, Publications, EnabledIn
  <1>8. l.pass > 1 => meaning[<<l.id, l.version>>].query = l.query
    BY <1>2 DEF CallAt, Bound
  <1>9. ~Stale(m)
    BY <1>1, <1>3, <1>6 DEF Stale, CurrentVersions
  <1>10. CallAt(c, "evidence", m)
    BY <1>2, <1>4, <1>6, <1>7, <1>8, <1>9 DEF CallAt, Bound, PassedOnce, Probed, AtWork
  <1> HIDE DEF m, l, e
  <1> QED  BY <1>1, <1>5, <1>10, CallMoves DEF Stages

LEMMA ReadEvidenceKeeps ==
  ASSUME PublicationInv, NEW c \in Calls, ReadEvidence(c)
  PROVE  PublicationInv'
PROOF
  <1> DEFINE l == local[c]
             m == [l EXCEPT !.key = Nothing]
  <1>1. /\ pc[c] = "evidence" /\ Continue(c, "approval", m)
        /\ UNCHANGED <<callFrame, mutations, ctxDone>>
    BY DEF ReadEvidence
  <1>2. l \in Locals /\ CallAt(c, "evidence", l)
    BY <1>1, CallTyped
  <1>3. /\ m \in Locals
        /\ m.id = l.id /\ m.version = l.version /\ m.src = l.src /\ m.row = l.row
        /\ m.pass = l.pass /\ m.probed = l.probed /\ m.query = l.query
    BY <1>2 DEF Locals
  <1>4. CallAt(c, "approval", m)
    BY <1>2, <1>3 DEF CallAt, Bound, PassedOnce, Probed, AtWork, Stale, Cancelled
  <1> HIDE DEF m, l
  <1> QED  BY <1>1, <1>3, <1>4, CallMoves DEF Stages

LEMMA ReadApprovalKeeps ==
  ASSUME PublicationInv, NEW c \in Calls, ReadApproval(c)
  PROVE  PublicationInv'
PROOF
  <1> DEFINE l == local[c]
  <1>1. /\ pc[c] = "approval" /\ l.pass < 3 /\ Approved(l.row, l.id, l.version)
        /\ Continue(c, IF l.pass = 1 THEN "register" ELSE "probe", l)
        /\ UNCHANGED <<callFrame, mutations, ctxDone>>
    BY DEF ReadApproval
  <1>2. l \in Locals /\ l.pass \in 1..3 /\ CallAt(c, "approval", l)
    BY <1>1, CallTyped
  <1>3. approval[<<l.id, l.version>>] = Proof(l.src)
    BY <1>1, <1>2 DEF CallAt, Approved
  <1>4. CASE l.pass = 1
    <2>1. CallAt(c, "register", l)
      BY <1>2, <1>3, <1>4 DEF CallAt, Bound, PassedOnce, Probed, AtWork
    <2> HIDE DEF l
    <2> QED  BY <1>1, <1>2, <1>4, <2>1, CallMoves DEF Stages
  <1>5. CASE l.pass = 2
    <2>1. CallAt(c, "probe", l)
      BY <1>2, <1>3, <1>5 DEF CallAt, Bound, PassedOnce, Probed, AtWork
    <2> HIDE DEF l
    <2> QED  BY <1>1, <1>2, <1>5, <2>1, CallMoves DEF Stages
  <1> QED  BY <1>1, <1>2, <1>4, <1>5

LEMMA ChecksKeep ==
  ASSUME PublicationInv, NEW c \in Calls,
         Register(c) \/ Reauthorize(c) \/ CheckContext(c) \/ Recheck(c)
  PROVE  PublicationInv'
PROOF
  <1> DEFINE l == local[c]
  <1>1. l \in Locals /\ (pc[c] # "idle" => CallAt(c, pc[c], l))
    BY CallTyped
  <1>2. CASE Register(c)
    <2>1. CallAt(c, "reauthorize", l)
      BY <1>1, <1>2 DEF Register, CallAt, Bound, PassedOnce, Probed, AtWork
    <2> QED  BY <1>1, <1>2, <2>1, CallMoves DEF Register, Stages
  <1>3. CASE Reauthorize(c)
    <2> DEFINE m == [l EXCEPT !.pass = 2]
    <2>1. /\ m \in Locals
          /\ m.id = l.id /\ m.version = l.version /\ m.src = l.src /\ m.row = l.row
          /\ m.pass = 2 /\ m.probed = l.probed /\ m.query = l.query
      BY <1>1 DEF Locals
    <2>2. pc[c] = "reauthorize" /\ Continue(c, "catalog", m)
          /\ UNCHANGED <<callFrame, mutations, ctxDone>>
      BY <1>3 DEF Reauthorize
    <2>3. l.row = l.src
      BY <1>1, <2>2 DEF CallAt
    <2>4. CallAt(c, "catalog", m)
      BY <1>1, <2>1, <2>2, <2>3 DEF CallAt, Bound, PassedOnce, Probed, AtWork
    <2> HIDE DEF m
    <2> QED  BY <2>1, <2>2, <2>4, CallMoves DEF Stages
  <1>4. CASE CheckContext(c)
    <2>1. CallAt(c, "recheck", l)
      BY <1>1, <1>4 DEF CheckContext, CallAt, Bound, PassedOnce, Probed, AtWork
    <2> QED  BY <1>1, <1>4, <2>1, CallMoves DEF CheckContext, Stages
  <1>5. CASE Recheck(c)
    <2>1. CallAt(c, "fresh", l)
      BY <1>1, <1>5 DEF Recheck, CallAt, Bound, PassedOnce, Probed, AtWork
    <2> QED  BY <1>1, <1>5, <2>1, CallMoves DEF Recheck, Stages
  <1> QED  BY <1>2, <1>3, <1>4, <1>5

\* The version the server reports is that of the row the call began on, or has been
\* saved on the same revision.
LEMMA VersionKnownKeeps ==
  ASSUME PublicationInv, NEW c \in Calls, VersionKnown(c)
  PROVE  PublicationInv'
PROOF
  <1> DEFINE l == local[c]
  <1>1. PICK version \in ServerVersions :
          /\ \/ version = l.src.observed
             \/ source.revision = l.src.revision /\ version = source.observed
          /\ Continue(c, "check", [l EXCEPT !.probed = version])
    BY DEF VersionKnown
  <1>2. pc[c] = "probe" /\ UNCHANGED <<callFrame, mutations, ctxDone>>
    BY DEF VersionKnown
  <1>3. l \in Locals /\ l.pass \in 1..3 /\ CallAt(c, "probe", l)
    BY <1>2, CallTyped
  <1> DEFINE m == [l EXCEPT !.probed = version]
  <1>4. /\ m \in Locals
        /\ m.id = l.id /\ m.version = l.version /\ m.src = l.src /\ m.row = l.row
        /\ m.pass = l.pass /\ m.probed = version /\ m.query = l.query
    BY <1>3 DEF Locals
  <1>5. source.connection = l.src.connection => source.observed = version
    BY <1>1, <1>3 DEF CallAt, Past, Proof
  <1>6. l.pass # 3
    BY <1>3 DEF CallAt
  <1>7. CallAt(c, "check", m)
    BY <1>3, <1>4, <1>5, <1>6 DEF CallAt, Bound, PassedOnce, Probed, AtWork, Stale, Cancelled
  <1> HIDE DEF m, l
  <1> QED  BY <1>1, <1>2, <1>4, <1>7, CallMoves DEF Stages, m

LEMMA ReadFreshKeeps ==
  ASSUME PublicationInv, NEW c \in Calls, ReadFresh(c)
  PROVE  PublicationInv'
PROOF
  <1>1. PICK row \in SourceRows, l \in Locals : row = source /\ l = local[c]
    BY CallTyped
  <1> DEFINE m == [[l EXCEPT !.pass = 3] EXCEPT !.row = row]
  <1>2. /\ pc[c] = "fresh" /\ Continue(c, "catalog", m)
        /\ UNCHANGED <<callFrame, mutations, ctxDone>>
    BY <1>1 DEF ReadFresh
  <1>3. CallAt(c, "fresh", l)
    BY <1>1, <1>2, CallTyped
  <1>4. /\ m \in Locals
        /\ m.id = l.id /\ m.version = l.version /\ m.src = l.src /\ m.row = row
        /\ m.pass = 3 /\ m.probed = l.probed /\ m.query = l.query
    <2>1. PICK n \in Locals : n = [l EXCEPT !.pass = 3]
      <3>1. 3 \in 1..3  OBVIOUS
      <3>2. \A i \in 1..3 : [l EXCEPT !.pass = i] \in Locals  BY DEF Locals
      <3> QED  BY <3>1, <3>2
    <2>2. n.id = l.id /\ n.version = l.version /\ n.src = l.src /\ n.pass = 3
          /\ n.probed = l.probed /\ n.query = l.query
      BY <2>1 DEF Locals
    <2>3. m = [n EXCEPT !.row = row]  BY <2>1
    <2> HIDE DEF m
    <2>4. m \in Locals /\ m.id = n.id /\ m.version = n.version /\ m.src = n.src
          /\ m.pass = n.pass /\ m.probed = n.probed /\ m.query = n.query /\ m.row = row
      BY <2>3 DEF Locals
    <2> QED  BY <2>2, <2>4
  <1>5. CallAt(c, "catalog", m)
    BY <1>1, <1>3, <1>4 DEF CallAt, Bound, PassedOnce, Probed, AtWork
  <1> HIDE DEF m
  <1> QED  BY <1>2, <1>4, <1>5, CallMoves DEF Stages

(***************************************************************************)
(* Steps of the source                                                     *)
(***************************************************************************)
\* A publication that is not complete.
Completing == mutations # Nothing /\ mutations.owed = "cancel templates"

\* The trial in progress is as right on the new row.
LEMMA TrialStays ==
  ASSUME PublicationInv, NEW row, Newer(row), SaveRow(row), trial' = trial
  PROVE  Trial'
PROOF
  <1> SUFFICES ASSUME trial # Nothing  PROVE Trial'
    BY DEF Trial
  <1>1. trial \in Trials /\ trial.src \in SourceRows /\ source \in SourceRows
    BY DEF PublicationInv, TypeOK, Trials
  <1>2. Proof(trial.src) \in Proofs /\ Past(Proof(trial.src))
    BY <1>1, ProofTyped DEF PublicationInv, Trial
  <1>3. Newer(source')  BY DEF SaveRow, Newer
  <1>4. /\ Past(Proof(trial.src))'
        /\ Proof(trial.src) = Proof(source') => Proof(source') = Proof(source)
    BY <1>1, <1>2, <1>3, PastStays DEF Past, Proof
  <1>5. Proof(source') = Proof(source) => proven' = proven
    BY DEF SaveRow
  <1>6. trial.place = "settle" =>
          /\ trial.key \in Keys
          /\ trial.passed /\ Proof(source) = Proof(trial.src) => trial.key \in proven
    BY DEF PublicationInv, Trial
  <1> QED  BY <1>4, <1>5, <1>6 DEF Trial, Proof

\* A save of the row, or none, with what is cancelled for it.
LEMMA SourceMoves ==
  ASSUME PublicationInv, NEW row, Newer(row), SaveRow(row),
         UNCHANGED <<catalogVars, evidence, results>>,
         ~Completing, mutations' \in Owed \union {Nothing}, ~Completing',
         ctxDone' \subseteq Calls,
         pc' \in [Calls -> Stages], local' \in [Calls -> Locals],
         \A d \in Calls :
           \/ pc'[d] = "idle"
           \/ pc'[d] = pc[d] /\ local'[d] = local[d] /\ (d \in ctxDone => d \in ctxDone'),
         trial' \in Trials \union {Nothing}, Trial'
  PROVE  PublicationInv'
PROOF
  <1>1. /\ source' \in SourceRows /\ Newer(source') /\ proven' \subseteq Keys
        /\ Publications' /\ Evidence'
    BY SourceSaved
  <1>2. UNCHANGED <<catalog, archive, approval, meaning, evidence, results>>
    BY DEF catalogVars
  <1>3. TypeOK'
    BY <1>1, <1>2 DEF PublicationInv, TypeOK
  <1>4. Publishing'  BY DEF Publishing, Completing
  <1>5. ASSUME NEW d \in Calls  PROVE Call(d)'
    <2>1. CASE pc'[d] = "idle"  BY <2>1 DEF Call
    <2>2. CASE pc'[d] = pc[d] /\ local'[d] = local[d] /\ (d \in ctxDone => d \in ctxDone')
      <3>1. Stale(local[d])' <=> Stale(local[d])
        BY <1>2, <2>2 DEF Stale, CurrentVersions, EnabledIn
      <3>2. Cancelled(d, local[d]) => Cancelled(d, local[d])'
        BY <2>2 DEF Cancelled, Completing
      <3>3. pc[d] # "idle" /\ AtWork(pc[d], local[d]) /\ Stale(local[d])' =>
              Cancelled(d, local[d])'
        BY <3>1, <3>2 DEF PublicationInv, Call, CallAt
      <3> QED  BY <1>1, <1>2, <2>2, <3>3, CallStays
    <2> QED  BY <1>5, <2>1, <2>2
  <1> QED  BY <1>1, <1>3, <1>4, <1>5 DEF PublicationInv

\* No save is a save of the row as it is.
LEMMA NoSave ==
  ASSUME UNCHANGED <<source, proven>>
  PROVE  SaveRow(source)
PROOF
  BY DEF SaveRow, Proof

LEMMA SourceStepKeeps ==
  ASSUME PublicationInv, SourceStep
  PROVE  PublicationInv'
PROOF
  <1>1. /\ source \in SourceRows /\ source.revision \in Nat /\ source.connection \in Nat
        /\ mutations \in Owed \union {Nothing} /\ ctxDone \subseteq Calls /\ Jobs \subseteq Calls
        /\ pc \in [Calls -> Stages] /\ local \in [Calls -> Locals]
        /\ trial \in Trials \union {Nothing}
    BY DEF PublicationInv, TypeOK, SourceRows, Jobs
  <1>2. Newer(source)  BY <1>1, SameIsNewer
  <1>3. \A version \in ServerVersions : Newer(Observed(source, version))
    BY <1>1, ObservedIsNewer
  <1>4. ASSUME NEW row, Newer(row), SaveRow(row),
               UNCHANGED <<catalogVars, trialVars, callVars>>,
               mutations' \in Owed \union {Nothing}, ~Completing, ~Completing',
               ctxDone' \in {ctxDone, ctxDone \union Jobs}
        PROVE  PublicationInv'
    <2>1. UNCHANGED <<evidence, results, trial, pc, local>>
      BY <1>4 DEF trialVars, callVars
    <2>2. Trial'  BY <1>4, <2>1, TrialStays
    <2> QED
      BY <1>1, <1>4, <2>1, <2>2, SourceMoves
  <1>5. /\ [owed |-> "cancel source"] \in Owed
        /\ \A version \in ServerVersions :
             [owed |-> "save version", version |-> version] \in Owed
    BY DEF Owed
  <1>6. CASE EditSource
    <2>1. /\ mutations = Nothing /\ mutations' = [owed |-> "cancel source"]
          /\ UNCHANGED <<catalogVars, trialVars, callVars, ctxDone>>
      BY <1>6 DEF EditSource
    <2>2. ~Completing /\ ~Completing'  BY <2>1 DEF Completing
    <2>3. PICK row : Newer(row) /\ SaveRow(row)
      <3>1. Newer([source EXCEPT !.revision = @ + 1])
        BY <1>1 DEF Newer, SourceRows
      <3>2. Newer([revision |-> source.revision + 1, connection |-> source.connection + 1,
                   observed |-> Nothing])
        BY <1>1 DEF Newer, SourceRows
      <3> QED  BY <1>6, <3>1, <3>2 DEF EditSource
    <2> QED  BY <1>4, <1>5, <2>1, <2>2, <2>3
  <1>7. CASE CancelSource
    <2>1. /\ mutations = [owed |-> "cancel source"] /\ mutations' = Nothing
          /\ ctxDone' = ctxDone \union Jobs
          /\ UNCHANGED <<source, proven, catalogVars, trialVars, callVars>>
      BY <1>7 DEF CancelSource
    <2>2. ~Completing /\ ~Completing'  BY <2>1 DEF Completing
    <2>3. SaveRow(source)  BY <2>1, NoSave
    <2> QED  BY <1>2, <1>4, <2>1, <2>2, <2>3
  <1>8. CASE SaveVersion
    <2>1. /\ mutations # Nothing /\ mutations.owed = "save version" /\ mutations' = Nothing
          /\ SaveRow(source) \/ SaveRow(Observed(source, mutations.version))
          /\ UNCHANGED <<catalogVars, trialVars, callVars, ctxDone>>
      BY <1>8 DEF SaveVersion
    <2>2. ~Completing /\ ~Completing'  BY <2>1 DEF Completing
    <2>3. mutations.version \in ServerVersions
      BY <1>1, <2>1 DEF Owed
    <2>4. PICK row : Newer(row) /\ SaveRow(row)
      BY <1>2, <1>3, <2>1, <2>3
    <2> QED  BY <1>4, <2>1, <2>2, <2>4
  <1>9. ASSUME NEW version \in ServerVersions, ObserveVersion(version)
        PROVE  PublicationInv'
    <2>1. mutations = Nothing /\ UNCHANGED <<catalogVars, trialVars, callVars>>
      BY <1>9 DEF ObserveVersion
    <2>2. CASE source.observed = Nothing
      <3>1. SaveRow(Observed(source, version)) /\ UNCHANGED <<mutations, ctxDone>>
        BY <1>9, <2>2 DEF ObserveVersion
      <3>2. ~Completing /\ ~Completing'  BY <2>1, <3>1 DEF Completing
      <3> QED  BY <1>1, <1>3, <1>4, <2>1, <3>1, <3>2
    <2>3. CASE source.observed # Nothing
      <3>1. /\ mutations' = [owed |-> "save version", version |-> version]
            /\ ctxDone' = ctxDone \union Jobs
            /\ UNCHANGED <<source, proven>>
        BY <1>9, <2>3 DEF ObserveVersion
      <3>2. ~Completing /\ ~Completing'  BY <2>1, <3>1 DEF Completing
      <3>3. SaveRow(source)  BY <3>1, NoSave
      <3> QED  BY <1>2, <1>4, <1>5, <2>1, <3>1, <3>2, <3>3
    <2> QED  BY <2>2, <2>3
  <1> QED  BY <1>6, <1>7, <1>8, <1>9 DEF SourceStep

(***************************************************************************)
(* Steps of a trial                                                        *)
(***************************************************************************)
\* What RecordVersion makes of the row and owes for it.
LEMMA RecordVersionMoves ==
  ASSUME PublicationInv, NEW src, NEW seen \in ServerVersions, RecordVersion(src, seen)
  PROVE  /\ Newer(Observed(source, seen)) /\ SaveRow(Observed(source, seen))
         /\ mutations' \in Owed \union {Nothing} /\ ~Completing /\ ~Completing'
PROOF
  <1>1. source \in SourceRows  BY DEF PublicationInv, TypeOK
  <1>2. /\ mutations = Nothing /\ SaveRow(Observed(source, seen))
        /\ mutations' = Nothing \/ mutations' = [owed |-> "cancel source"]
    BY DEF RecordVersion
  <1>3. ~Completing  BY <1>2 DEF Completing
  <1>4. CASE mutations' = Nothing
    BY <1>1, <1>2, <1>3, <1>4, ObservedIsNewer DEF Completing
  <1>5. CASE mutations' = [owed |-> "cancel source"]
    <2>1. ~Completing' /\ mutations' \in Owed  BY <1>5 DEF Completing, Owed
    <2> QED  BY <1>1, <1>2, <1>3, <2>1, ObservedIsNewer
  <1> QED  BY <1>2, <1>4, <1>5

LEMMA VersionChangedKeeps ==
  ASSUME PublicationInv, NEW c \in Calls, VersionChanged(c)
  PROVE  PublicationInv'
PROOF
  <1>1. PICK seen \in ServerVersions : RecordVersion(local[c].src, seen)
    BY DEF VersionChanged
  <1>2. /\ Newer(Observed(source, seen)) /\ SaveRow(Observed(source, seen))
        /\ mutations' \in Owed \union {Nothing} /\ ~Completing /\ ~Completing'
    BY <1>1, RecordVersionMoves
  <1>3. /\ Continue(c, "idle", NewLocal) /\ ctxDone' = ctxDone \ {c}
        /\ UNCHANGED <<catalogVars, trialVars>>
    BY DEF VersionChanged
  <1>4. /\ pc' \in [Calls -> Stages] /\ local' \in [Calls -> Locals] /\ ctxDone' \subseteq Calls
        /\ pc'[c] = "idle"
        /\ \A d \in Calls : d # c => pc'[d] = pc[d] /\ local'[d] = local[d]
    BY <1>3, NewLocalTyped DEF Continue, PublicationInv, TypeOK, Stages
  <1>5. \A d \in Calls :
          \/ pc'[d] = "idle"
          \/ pc'[d] = pc[d] /\ local'[d] = local[d] /\ (d \in ctxDone => d \in ctxDone')
    BY <1>3, <1>4
  <1>6. UNCHANGED <<evidence, results, trial>>  BY <1>3 DEF trialVars
  <1>7. Trial'  BY <1>2, <1>6, TrialStays
  <1>8. trial' \in Trials \union {Nothing}  BY <1>6 DEF PublicationInv, TypeOK
  <1> QED  BY <1>2, <1>3, <1>4, <1>5, <1>6, <1>7, <1>8, SourceMoves

\* Only the trial moves on.
LEMMA TrialMoves ==
  ASSUME PublicationInv, UNCHANGED <<source, catalogVars, callVars, evidence, results,
                                     mutations, ctxDone>>,
         proven \subseteq proven', proven' \subseteq Keys,
         trial' \in Trials \union {Nothing}, Trial'
  PROVE  PublicationInv'
PROOF
  <1>1. UNCHANGED <<source, catalog, archive, approval, meaning, pc, local, evidence,
                    results, mutations, ctxDone>>
    BY DEF catalogVars, callVars
  <1>2. TypeOK'
    BY <1>1 DEF PublicationInv, TypeOK
  <1>3. Publications' /\ Publishing'
    BY <1>1 DEF PublicationInv, Publications, Publishing, Past, CurrentVersions, EnabledIn
  <1>4. Evidence'
    BY <1>1 DEF PublicationInv, Evidence, Past, Proof, EnabledIn, Approved, Key
  <1>5. ASSUME NEW d \in Calls  PROVE Call(d)'
    <2>1. CallAt(d, pc[d], local[d])' <=> CallAt(d, pc[d], local[d])
      BY <1>1 DEF CallAt, Bound, PassedOnce, Probed, AtWork, Stale, Cancelled, Past, Proof,
                  CurrentVersions, EnabledIn
    <2> QED  BY <1>1, <2>1 DEF PublicationInv, Call
  <1> QED  BY <1>2, <1>3, <1>4, <1>5 DEF PublicationInv

LEMMA TrialTyped ==
  ASSUME PublicationInv
  PROVE  /\ source \in SourceRows /\ proven \subseteq Keys
         /\ trial \in Trials \union {Nothing}
         /\ catalog.revision \in 0..MaxWrites
         /\ catalog.draft \in Snapshots(Drafts) /\ catalog.live \in Snapshots(Entries)
PROOF
  BY DEF PublicationInv, TypeOK

LEMMA StartTrialKeeps ==
  ASSUME PublicationInv, NEW t \in Templates, NEW version \in ServerVersions,
         StartTrial(t, version)
  PROVE  PublicationInv'
PROOF
  <1>1. PICK src \in SourceRows : src = source  BY TrialTyped
  <1>2. PICK new : new = [place |-> IF version = source.observed THEN "run" ELSE "record",
                          id |-> t, revision |-> catalog.revision, src |-> src,
                          seen |-> version, key |-> Nothing, passed |-> FALSE]
    OBVIOUS
  <1>3. new \in Trials /\ new.src = src /\ new.place # "settle"
    BY <1>2, TrialTyped DEF Trials
  <1>4. trial' = new /\ UNCHANGED <<source, proven, evidence, results, mutations, trialFrame>>
    BY <1>1, <1>2 DEF StartTrial
  <1>5. Past(Proof(src))'
    BY <1>1, <1>4, OwnProofIsPast DEF Past, Proof
  <1>6. Trial'
    BY <1>3, <1>4, <1>5 DEF Trial, Proof, Past
  <1> QED
    BY <1>3, <1>4, <1>6, TrialTyped, TrialMoves DEF trialFrame

LEMMA TrialGoesOn ==
  ASSUME PublicationInv, TrialFails \/ TrialVersionKnown \/ TrialRun
  PROVE  PublicationInv'
PROOF
  <1>1. trial # Nothing => trial \in Trials /\ Past(Proof(trial.src))
    BY TrialTyped DEF PublicationInv, Trial
  <1>2. UNCHANGED <<source, evidence, results, mutations, trialFrame>>
    BY DEF TrialFails, TrialVersionKnown, TrialRun
  <1>3. CASE TrialFails
    <2>1. trial' = Nothing /\ proven' = proven  BY <1>3 DEF TrialFails
    <2>2. Trial'  BY <2>1 DEF Trial
    <2> QED  BY <1>2, <2>1, <2>2, TrialTyped, TrialMoves DEF trialFrame
  <1>4. CASE TrialVersionKnown
    <2>1. PICK src \in SourceRows : src = source  BY TrialTyped
    <2>2. trial # Nothing /\ trial' = [trial EXCEPT !.place = "run", !.src = src]
          /\ proven' = proven
      BY <1>4, <2>1 DEF TrialVersionKnown
    <2>3. trial' \in Trials /\ trial'.src = src /\ trial'.place = "run"
      BY <1>1, <2>2 DEF Trials
    <2>4. Past(Proof(src))'
      BY <1>2, <2>1, OwnProofIsPast DEF Past, Proof
    <2>5. Trial'  BY <2>3, <2>4 DEF Trial, Proof, Past
    <2> QED  BY <1>2, <2>2, <2>3, <2>5, TrialTyped, TrialMoves DEF trialFrame
  <1>5. CASE TrialRun
    <2>1. /\ trial # Nothing /\ trial.id \in EnabledIn(catalog.draft)
      BY <1>5 DEF TrialRun
    <2>2. PICK key : key = Key(catalog.draft[trial.id])  OBVIOUS
    <2>3. PICK passed \in BOOLEAN :
            /\ trial' = [trial EXCEPT !.place = "settle", !.key = key, !.passed = passed]
            /\ proven' = IF passed THEN proven \union {key} ELSE proven
      BY <1>5, <2>2 DEF TrialRun
    <2>4. key \in Keys
      BY <2>1, <2>2, TrialTyped DEF EnabledIn, Snapshots, Drafts, Key, Keys
    <2>5. trial' \in Trials /\ trial'.src = trial.src /\ trial'.key = key /\ trial'.passed = passed
      BY <1>1, <2>1, <2>3, <2>4 DEF Trials
    <2>6. PICK src : src = trial.src  OBVIOUS
    <2>7. Past(Proof(src))'
      BY <1>1, <1>2, <2>1, <2>6 DEF Past, Proof
    <2>8. Trial'
      BY <2>3, <2>4, <2>5, <2>6, <2>7 DEF Trial, Proof, Past
    <2> QED  BY <1>2, <2>3, <2>4, <2>5, <2>8, TrialTyped, TrialMoves DEF trialFrame
  <1> QED  BY <1>3, <1>4, <1>5

LEMMA TrialRecordsKeeps ==
  ASSUME PublicationInv, TrialRecords
  PROVE  PublicationInv'
PROOF
  <1>1. /\ trial \in Trials /\ RecordVersion(trial.src, trial.seen)
        /\ trial' = [trial EXCEPT !.place = "run", !.src = source']
        /\ UNCHANGED <<evidence, results, trialFrame>>
    BY TrialTyped DEF TrialRecords
  <1>2. PICK seen \in ServerVersions : seen = trial.seen  BY <1>1 DEF Trials
  <1>3. /\ Newer(Observed(source, seen)) /\ SaveRow(Observed(source, seen))
        /\ mutations' \in Owed \union {Nothing} /\ ~Completing /\ ~Completing'
    BY <1>1, <1>2, RecordVersionMoves
  <1>4. PICK src \in SourceRows : src = source'
    BY <1>3 DEF SaveRow, Newer
  <1>5. trial' \in Trials /\ trial'.src = src /\ trial'.place = "run"
    BY <1>1, <1>4 DEF Trials
  <1>6. Past(Proof(src))'
    BY <1>4 DEF Past, Proof, SourceRows
  <1>7. Trial'
    BY <1>5, <1>6 DEF Trial, Proof, Past
  <1>8. /\ pc \in [Calls -> Stages] /\ local \in [Calls -> Locals] /\ ctxDone \subseteq Calls
        /\ UNCHANGED <<pc, local, ctxDone, catalogVars, evidence, results>>
    BY <1>1 DEF PublicationInv, TypeOK, trialFrame, callVars
  <1> QED  BY <1>3, <1>5, <1>7, <1>8, SourceMoves

(***************************************************************************)
(* Steps of the catalog                                                    *)
(***************************************************************************)
\* What is published stays.
LEMMA CatalogMoves ==
  ASSUME PublicationInv, TypeOK', Evidence', Trial',
         UNCHANGED <<source, proven, approval, meaning, callVars, mutations, ctxDone>>,
         catalog'.live = catalog.live, catalog'.version = catalog.version,
         catalog.revision <= catalog'.revision
  PROVE  PublicationInv'
PROOF
  <1>1. UNCHANGED <<source, approval, meaning, pc, local, mutations, ctxDone>>
    BY DEF callVars
  <1>2. /\ catalog.version \in Nat /\ catalog.revision \in Nat /\ catalog'.revision \in Nat
        /\ catalog.version <= catalog.revision
    BY DEF PublicationInv, TypeOK, Publications
  <1>3. Publications'
    BY <1>1, <1>2 DEF PublicationInv, Publications, Past
  <1>4. Publishing'
    BY <1>1 DEF PublicationInv, Publishing, CurrentVersions, EnabledIn
  <1>5. ASSUME NEW d \in Calls  PROVE Call(d)'
    <2>1. CallAt(d, pc[d], local[d])' <=> CallAt(d, pc[d], local[d])
      BY <1>1 DEF CallAt, Bound, PassedOnce, Probed, AtWork, Stale, Cancelled, Past, Proof,
                  CurrentVersions, EnabledIn
    <2> QED  BY <1>1, <2>1 DEF PublicationInv, Call
  <1> QED  BY <1>3, <1>4, <1>5 DEF PublicationInv

LEMMA WriteDraftKeeps ==
  ASSUME PublicationInv, NEW draft \in Snapshots(Drafts), NEW outdated \in SUBSET Keys,
         WriteDraft(draft, outdated)
  PROVE  PublicationInv'
PROOF
  <1>1. /\ catalog' = [catalog EXCEPT !.revision = @ + 1, !.draft = draft,
                                      !.outdated = outdated]
        /\ catalog.revision < MaxWrites
        /\ UNCHANGED <<archive, approval, meaning, source, proven, trialVars, callVars,
                       mutations, ctxDone>>
    BY DEF WriteDraft, CanWrite
  <1>2. TypeOK  BY DEF PublicationInv
  <1>3. /\ catalog' \in [revision: 0..MaxWrites, version: 0..MaxWrites,
                         draft: Snapshots(Drafts), live: Snapshots(Entries),
                         outdated: SUBSET Keys]
        /\ catalog'.live = catalog.live /\ catalog'.version = catalog.version
        /\ catalog'.revision = catalog.revision + 1
    <2>1. catalog.revision + 1 \in 0..MaxWrites  BY <1>1, <1>2 DEF TypeOK
    <2> HIDE DEF Snapshots
    <2> QED  BY <1>1, <1>2, <2>1 DEF TypeOK
  <1>4. UNCHANGED <<evidence, results, trial, pc, local>>
    BY <1>1 DEF trialVars, callVars
  <1>5. TypeOK'
    BY <1>1, <1>2, <1>3, <1>4 DEF TypeOK
  <1>6. Evidence' /\ Trial'
    BY <1>1, <1>3, <1>4
       DEF PublicationInv, Evidence, Trial, Past, Proof, EnabledIn, Approved, Key
  <1>7. catalog.revision <= catalog'.revision  BY <1>2, <1>3 DEF TypeOK
  <1> QED  BY <1>1, <1>3, <1>5, <1>6, <1>7, CatalogMoves

LEMMA ContentTyped ==
  ASSUME NEW snapshot \in Snapshots(Entries)
  PROVE  Content(snapshot) \in Snapshots(Drafts)
PROOF
  <1>1. ASSUME NEW t \in Templates, snapshot[t] # Nothing
        PROVE  [query |-> snapshot[t].query, tests |-> snapshot[t].tests,
                enabled |-> snapshot[t].enabled] \in Drafts
    BY <1>1 DEF Snapshots, Entries, Drafts
  <1> QED  BY <1>1 DEF Content, Snapshots

LEMMA DraftsKeep ==
  ASSUME PublicationInv,
         \/ \E d \in Snapshots(Drafts) : SaveDraft(d)
         \/ Discard
         \/ \E v \in Versions : Restore(v)
  PROVE  PublicationInv'
PROOF
  <1>1. /\ catalog.outdated \in SUBSET Keys /\ catalog.live \in Snapshots(Entries)
        /\ archive \in [Versions -> Snapshots(Entries) \union {Nothing}]
    BY DEF PublicationInv, TypeOK
  <1>2. CASE \E d \in Snapshots(Drafts) : SaveDraft(d)
    BY <1>1, <1>2, WriteDraftKeeps DEF SaveDraft
  <1>3. CASE Discard
    BY <1>1, <1>3, ContentTyped, WriteDraftKeeps DEF Discard
  <1>4. ASSUME NEW v \in Versions, Restore(v)  PROVE PublicationInv'
    <2>1. archive[v] \in Snapshots(Entries)
      BY <1>1, <1>4 DEF Restore
    <2>2. Content(archive[v]) \in Snapshots(Drafts)  BY <2>1, ContentTyped
    <2>3. {k \in Keys : evidence[k] # NoProof} \in SUBSET Keys  OBVIOUS
    <2> QED  BY <1>4, <2>2, <2>3, WriteDraftKeeps DEF Restore
  <1> QED  BY <1>2, <1>3, <1>4

LEMMA DeleteVersionKeeps ==
  ASSUME PublicationInv, NEW v \in Versions, DeleteVersion(v)
  PROVE  PublicationInv'
PROOF
  <1>1. /\ archive' = [archive EXCEPT ![v] = Nothing] /\ v # catalog.version
        /\ UNCHANGED <<catalog, approval, meaning, source, proven, trialVars, callVars,
                       mutations, ctxDone>>
    BY DEF DeleteVersion
  <1>2. UNCHANGED <<evidence, results, trial, pc, local>>
    BY <1>1 DEF trialVars, callVars
  <1>3. TypeOK'
    <2>1. /\ archive' \in [Versions -> Snapshots(Entries) \union {Nothing}]
          /\ catalog'.version > 0 => archive'[catalog'.version] = catalog'.live
      BY <1>1 DEF PublicationInv, TypeOK, Versions
    <2> QED  BY <1>1, <1>2, <2>1 DEF PublicationInv, TypeOK
  <1>4. Evidence' /\ Trial'
    BY <1>1, <1>2
       DEF PublicationInv, Evidence, Trial, Past, Proof, EnabledIn, Approved, Key
  <1>5. catalog.revision <= catalog'.revision
    BY <1>1 DEF PublicationInv, TypeOK
  <1> QED  BY <1>1, <1>3, <1>4, <1>5, CatalogMoves

\* What is recorded as evidence passed on the connection as it is.
LEMMA SettleTrialKeeps ==
  ASSUME PublicationInv, SettleTrial
  PROVE  PublicationInv'
PROOF
  <1>1. /\ trial \in Trials /\ trial.place = "settle" /\ trial.key \in Keys
        /\ Proof(trial.src) = Proof(source) /\ source \in SourceRows
        /\ trial.passed => trial.key \in proven
    BY TrialTyped DEF SettleTrial, PublicationInv, Trial
  <1>2. PICK k \in Keys, p \in Proofs : k = trial.key /\ p = Proof(source)
    BY <1>1, ProofTyped
  <1>3. /\ results' = [results EXCEPT ![k] = [proof |-> p, passed |-> trial.passed]]
        /\ \/ UNCHANGED <<evidence, catalog>>
           \/ /\ trial.passed
              /\ evidence' = [evidence EXCEPT ![k] = p]
              /\ catalog' = [catalog EXCEPT !.outdated = @ \ {k}]
        /\ trial' = Nothing
        /\ UNCHANGED <<source, proven, archive, approval, meaning, callVars, mutations, ctxDone>>
    BY <1>1, <1>2 DEF SettleTrial, SaveResult, SaveEvidence
  <1>4. TypeOK  BY DEF PublicationInv
  <1>5. catalog' \in [revision: 0..MaxWrites, version: 0..MaxWrites,
                      draft: Snapshots(Drafts), live: Snapshots(Entries),
                      outdated: SUBSET Keys]
        /\ catalog'.live = catalog.live /\ catalog'.version = catalog.version
        /\ catalog'.revision = catalog.revision
    BY <1>3, <1>4 DEF TypeOK
  <1>6. /\ results' \in [Keys -> [proof: Proofs, passed: BOOLEAN]]
        /\ evidence' \in [Keys -> Proofs]
        /\ results'[k].proof = p
        /\ \A j \in Keys : j # k => results'[j] = results[j] /\ evidence'[j] = evidence[j]
        /\ evidence'[k] = evidence[k] \/ (evidence'[k] = p /\ k \in proven)
    <2>1. trial.passed \in BOOLEAN  BY <1>1 DEF Trials
    <2> QED  BY <1>1, <1>2, <1>3, <1>4, <2>1 DEF TypeOK
  <1>7. UNCHANGED <<pc, local>>  BY <1>3 DEF callVars
  <1>8. TypeOK'
    BY <1>3, <1>4, <1>5, <1>6, <1>7 DEF TypeOK
  <1>9. Past(p)  BY <1>1, <1>2, OwnProofIsPast
  <1>10. ASSUME NEW j \in Keys
         PROVE  /\ Past(evidence'[j]) /\ Past(results'[j].proof)
                /\ evidence'[j] = p => j \in proven /\ results'[j].proof = p
    BY <1>2, <1>6, <1>9 DEF PublicationInv, Evidence
  <1>11. ASSUME NEW t \in EnabledIn(catalog.live),
                approval[<<t, catalog.live[t].version>>] = p
         PROVE  evidence'[Key(catalog.live[t])] = p
    <2>1. evidence[Key(catalog.live[t])] = p
      BY <1>2, <1>11 DEF PublicationInv, Evidence, Approved
    <2>2. Key(catalog.live[t]) \in Keys
      BY <1>4 DEF TypeOK, EnabledIn, Snapshots, Entries, Key, Keys
    <2> QED  BY <1>6, <2>1, <2>2
  <1>12. Evidence'
    BY <1>2, <1>3, <1>5, <1>10, <1>11 DEF Evidence, Past, Proof, EnabledIn, Approved, Key
  <1>13. Trial'  BY <1>3 DEF Trial
  <1>14. catalog.revision <= catalog'.revision  BY <1>4, <1>5 DEF TypeOK
  <1> QED  BY <1>3, <1>5, <1>8, <1>12, <1>13, <1>14, CatalogMoves

\* The snapshot a publication makes of the draft: a version is new, or kept with the
\* meaning and the approval it has.
LEMMA NextLiveIs ==
  ASSUME PublicationInv, CanWrite
  PROVE  /\ catalog.version + 1 \in Versions
         /\ NextLive \in Snapshots(Entries)
         /\ \A t \in Templates : NextLive[t] # Nothing =>
              /\ catalog.draft[t] \in Drafts
              /\ NextLive[t].query = catalog.draft[t].query
              /\ NextLive[t].tests = catalog.draft[t].tests
              /\ NextLive[t].enabled = catalog.draft[t].enabled
              /\ ~VersionKept(t) => NextLive[t].version = catalog.version + 1
         /\ \A t \in Templates : VersionKept(t) =>
              /\ catalog.live[t] \in Entries /\ NextLive[t] \in Entries
              /\ NextLive[t].version = catalog.live[t].version
              /\ NextLive[t].enabled = catalog.live[t].enabled
              /\ meaning[<<t, NextLive[t].version>>] =
                   [query |-> NextLive[t].query, proof |-> Proof(source)]
              /\ approval[<<t, NextLive[t].version>>] = Proof(source)
PROOF
  <1>1. TypeOK /\ Publications  BY DEF PublicationInv
  <1>2. catalog.version + 1 \in Versions
    BY <1>1 DEF CanWrite, TypeOK, Publications, Versions
  <1>3. ASSUME NEW t \in Templates, catalog.draft[t] # Nothing
        PROVE  /\ catalog.draft[t] \in Drafts
               /\ NextLive[t] = [query |-> catalog.draft[t].query,
                                 tests |-> catalog.draft[t].tests,
                                 enabled |-> catalog.draft[t].enabled,
                                 version |-> IF VersionKept(t) THEN catalog.live[t].version
                                                               ELSE catalog.version + 1]
    BY <1>1, <1>3 DEF TypeOK, Snapshots, NextLive
  <1>4. ASSUME NEW t \in Templates, VersionKept(t)
        PROVE  /\ catalog.live[t] \in Entries /\ catalog.draft[t] # Nothing
               /\ catalog.live[t].query = catalog.draft[t].query
               /\ catalog.live[t].enabled = catalog.draft[t].enabled
               /\ meaning[<<t, catalog.live[t].version>>] =
                    [query |-> catalog.live[t].query, proof |-> Proof(source)]
               /\ approval[<<t, catalog.live[t].version>>] = Proof(source)
    <2>1. catalog.live[t] \in Entries /\ catalog.draft[t] # Nothing
      BY <1>1, <1>4 DEF VersionKept, SameDefinition, TypeOK, Snapshots
    <2>2. PICK v \in Versions : v = catalog.live[t].version
      BY <2>1 DEF Entries
    <2>3. approval[<<t, v>>] = Proof(source)
      BY <1>4, <2>2 DEF VersionKept, Approved
    <2>4. Proof(source) # NoProof
      BY <1>1 DEF Publications, Proof, NoProof
    <2>5. /\ meaning[<<t, v>>] # Nothing /\ meaning[<<t, v>>].proof = Proof(source)
      BY <1>1, <2>3, <2>4 DEF Publications
    <2>6. meaning[<<t, v>>] \in Meanings
      BY <1>1, <2>5 DEF TypeOK
    <2>7. meaning[<<t, v>>].query = catalog.live[t].query
      BY <1>1, <2>1, <2>2, <2>5 DEF Publications
    <2>8. meaning[<<t, v>>] = [query |-> catalog.live[t].query, proof |-> Proof(source)]
      BY <2>5, <2>6, <2>7 DEF Meanings
    <2>9. Definition(catalog.live[t]) = Definition(catalog.draft[t])
      BY <1>4 DEF VersionKept, SameDefinition
    <2> QED  BY <2>1, <2>2, <2>3, <2>8, <2>9 DEF Definition
  <1>5. ASSUME NEW t \in Templates
        PROVE  NextLive[t] \in Entries \union {Nothing}
               /\ (catalog.draft[t] # Nothing => NextLive[t] \in Entries)
    <2>1. CASE catalog.draft[t] = Nothing
      BY <2>1 DEF NextLive
    <2>2. CASE catalog.draft[t] # Nothing
      <3>1. PICK v \in Versions :
              v = IF VersionKept(t) THEN catalog.live[t].version ELSE catalog.version + 1
        BY <1>2, <1>4 DEF Entries
      <3>2. PICK d \in Drafts : d = catalog.draft[t]  BY <1>3, <2>2
      <3>3. NextLive[t] = [query |-> d.query, tests |-> d.tests, enabled |-> d.enabled,
                           version |-> v]
        BY <1>3, <2>2, <3>1, <3>2
      <3>4. d.query \in Queries /\ d.tests \in Tests /\ d.enabled \in BOOLEAN
        BY <3>2 DEF Drafts
      <3> QED  BY <3>3, <3>4 DEF Entries
    <2> QED  BY <2>1, <2>2
  <1>6. NextLive \in Snapshots(Entries)
    BY <1>5 DEF NextLive, Snapshots
  <1>7. ASSUME NEW t \in Templates, NextLive[t] # Nothing
        PROVE  /\ catalog.draft[t] \in Drafts
               /\ NextLive[t].query = catalog.draft[t].query
               /\ NextLive[t].tests = catalog.draft[t].tests
               /\ NextLive[t].enabled = catalog.draft[t].enabled
               /\ ~VersionKept(t) => NextLive[t].version = catalog.version + 1
    <2>1. catalog.draft[t] # Nothing  BY <1>7 DEF NextLive
    <2>2. PICK d, v, n :
            /\ d \in Drafts /\ d = catalog.draft[t] /\ n = NextLive[t]
            /\ v = IF VersionKept(t) THEN catalog.live[t].version ELSE catalog.version + 1
      BY <1>3, <2>1
    <2>3. n = [query |-> d.query, tests |-> d.tests, enabled |-> d.enabled, version |-> v]
      BY <1>3, <2>1, <2>2
    <2>4. n.query = d.query /\ n.tests = d.tests /\ n.enabled = d.enabled /\ n.version = v
      BY <2>3
    <2> QED  BY <2>2, <2>4
  <1>8. ASSUME NEW t \in Templates, VersionKept(t)
        PROVE  /\ catalog.live[t] \in Entries /\ NextLive[t] \in Entries
               /\ NextLive[t].version = catalog.live[t].version
               /\ NextLive[t].enabled = catalog.live[t].enabled
               /\ meaning[<<t, NextLive[t].version>>] =
                    [query |-> NextLive[t].query, proof |-> Proof(source)]
               /\ approval[<<t, NextLive[t].version>>] = Proof(source)
    <2>1. PICK e, d, n : e = catalog.live[t] /\ d = catalog.draft[t] /\ n = NextLive[t]
      OBVIOUS
    <2>2. /\ e \in Entries /\ d # Nothing /\ e.query = d.query /\ e.enabled = d.enabled
          /\ meaning[<<t, e.version>>] = [query |-> e.query, proof |-> Proof(source)]
          /\ approval[<<t, e.version>>] = Proof(source)
      BY <1>4, <1>8, <2>1
    <2>3. n = [query |-> d.query, tests |-> d.tests, enabled |-> d.enabled,
               version |-> e.version]
      BY <1>3, <1>8, <2>1, <2>2
    <2>4. n \in Entries  BY <1>5, <2>1, <2>2
    <2>5. n.version = e.version /\ n.enabled = e.enabled /\ n.query = e.query
      BY <2>2, <2>3
    <2> QED  BY <2>1, <2>2, <2>4, <2>5
  <1> QED  BY <1>2, <1>6, <1>7, <1>8

\* A publication, with its snapshot and its new version.
LEMMA PublishIs ==
  ASSUME PublicationInv, Publish
  PROVE  \E live \in Snapshots(Entries), new \in Versions :
           /\ live = NextLive /\ new = catalog.version + 1
           /\ catalog' = [catalog EXCEPT !.revision = @ + 1, !.version = new, !.live = live,
                                         !.outdated = {}]
           /\ archive' = [archive EXCEPT ![new] = live]
           /\ catalog'.live = live /\ catalog'.version = new
           /\ catalog'.revision = catalog.revision + 1
           /\ \A t \in Templates, v \in Versions :
                IF t \in EnabledIn(live) /\ v = live[t].version
                  THEN /\ approval'[<<t, v>>] = Proof(source)
                       /\ meaning'[<<t, v>>] = [query |-> live[t].query, proof |-> Proof(source)]
                  ELSE UNCHANGED <<approval[<<t, v>>], meaning[<<t, v>>]>>
PROOF
  <1>1. CanWrite  BY DEF Publish
  <1>2. PICK live \in Snapshots(Entries), new \in Versions :
          live = NextLive /\ new = catalog.version + 1
    BY <1>1, NextLiveIs
  <1>3. TypeOK  BY DEF PublicationInv
  <1> DEFINE published(a) == a[1] \in EnabledIn(live) /\ a[2] = live[a[1]].version
  <1>4. /\ catalog' = [catalog EXCEPT !.revision = @ + 1, !.version = new, !.live = live,
                                      !.outdated = {}]
        /\ archive' = [archive EXCEPT ![new] = live]
    BY <1>2 DEF Publish
  <1>5. /\ approval' = [a \in Templates \X Versions |->
                          IF published(a) THEN Proof(source) ELSE approval[a]]
        /\ meaning' = [a \in Templates \X Versions |->
                         IF published(a)
                           THEN [query |-> live[a[1]].query, proof |-> Proof(source)]
                           ELSE meaning[a]]
    <2>1. DOMAIN approval = Templates \X Versions /\ DOMAIN meaning = Templates \X Versions
      BY <1>3 DEF TypeOK
    <2> QED  BY <1>2, <2>1 DEF Publish
  <1>6. ASSUME NEW t \in Templates, NEW v \in Versions
        PROVE  IF t \in EnabledIn(live) /\ v = live[t].version
                 THEN /\ approval'[<<t, v>>] = Proof(source)
                      /\ meaning'[<<t, v>>] = [query |-> live[t].query, proof |-> Proof(source)]
                 ELSE UNCHANGED <<approval[<<t, v>>], meaning[<<t, v>>]>>
    BY <1>5
  <1>7. /\ catalog'.live = live /\ catalog'.version = new
        /\ catalog'.revision = catalog.revision + 1
    BY <1>3, <1>4 DEF TypeOK
  <1> QED  BY <1>2, <1>4, <1>6, <1>7


\* What was published keeps its meaning and its approval.
LEMMA PublishedStays ==
  ASSUME PublicationInv, Publish, NEW t \in Templates, NEW v \in Versions,
         meaning[<<t, v>>] # Nothing
  PROVE  meaning'[<<t, v>>] = meaning[<<t, v>>] /\ approval'[<<t, v>>] = approval[<<t, v>>]
PROOF
  <1>1. PICK live \in Snapshots(Entries), new \in Versions :
          /\ live = NextLive /\ new = catalog.version + 1
          /\ IF t \in EnabledIn(live) /\ v = live[t].version
               THEN /\ approval'[<<t, v>>] = Proof(source)
                    /\ meaning'[<<t, v>>] = [query |-> live[t].query, proof |-> Proof(source)]
               ELSE UNCHANGED <<approval[<<t, v>>], meaning[<<t, v>>]>>
    BY PublishIs
  <1>2. CASE t \in EnabledIn(live) /\ v = live[t].version
    <2>1. v <= catalog.version /\ catalog.version \in Nat /\ v \in Nat
      BY DEF PublicationInv, TypeOK, Publications, Versions
    <2>2. live[t] # Nothing /\ live[t].version # new
      BY <1>1, <1>2, <2>1 DEF EnabledIn
    <2>3. CanWrite  BY DEF Publish
    <2>4. VersionKept(t)
      BY <1>1, <2>2, <2>3, NextLiveIs
    <2>5. /\ meaning[<<t, v>>] = [query |-> live[t].query, proof |-> Proof(source)]
          /\ approval[<<t, v>>] = Proof(source)
      BY <1>1, <1>2, <2>3, <2>4, NextLiveIs
    <2> QED  BY <1>1, <1>2, <2>5
  <1>3. CASE ~(t \in EnabledIn(live) /\ v = live[t].version)
    BY <1>1, <1>3
  <1> QED  BY <1>2, <1>3

LEMMA PublishTyped ==
  ASSUME PublicationInv, Publish
  PROVE  /\ TypeOK' /\ mutations' \in Owed
         /\ mutations' = [owed |-> "cancel templates", changed |-> Changed,
                          current |-> CurrentVersions(NextLive)]
PROOF
  <1>1. PICK live \in Snapshots(Entries), new \in Versions :
          /\ live = NextLive /\ new = catalog.version + 1
          /\ catalog' = [catalog EXCEPT !.revision = @ + 1, !.version = new, !.live = live,
                                        !.outdated = {}]
          /\ archive' = [archive EXCEPT ![new] = live]
          /\ catalog'.live = live /\ catalog'.version = new
          /\ catalog'.revision = catalog.revision + 1
    BY PublishIs
  <1>2. TypeOK  BY DEF PublicationInv
  <1>3. UNCHANGED <<source, proven, evidence, results, trial, pc, local, ctxDone>>
    BY DEF Publish, trialVars, callVars
  <1>4. catalog' \in [revision: 0..MaxWrites, version: 0..MaxWrites,
                      draft: Snapshots(Drafts), live: Snapshots(Entries),
                      outdated: SUBSET Keys]
    <2>1. catalog.revision < MaxWrites  BY DEF Publish, CanWrite
    <2>2. catalog.revision + 1 \in 0..MaxWrites /\ new \in 0..MaxWrites
      BY <1>2, <2>1 DEF TypeOK, Versions
    <2> QED
      <3> HIDE DEF Snapshots
      <3> QED  BY <1>1, <1>2, <2>1, <2>2 DEF TypeOK
  <1>5. /\ archive' \in [Versions -> Snapshots(Entries) \union {Nothing}]
        /\ archive'[new] = live
    <2> HIDE DEF Snapshots
    <2> QED  BY <1>1, <1>2 DEF TypeOK
  <1>6. approval' \in [Templates \X Versions -> Proofs]
        /\ meaning' \in [Templates \X Versions -> Meanings \union {Nothing}]
    <2>1. Proof(source) \in Proofs  BY <1>2, ProofTyped DEF TypeOK
    <2>2. \A t \in EnabledIn(live) : live[t].query \in Queries
      BY <1>1 DEF EnabledIn, Snapshots, Entries
    <2> DEFINE published(a) == a[1] \in EnabledIn(live) /\ a[2] = live[a[1]].version
    <2>3. /\ approval' = [a \in DOMAIN approval |->
                            IF a[1] \in EnabledIn(NextLive) /\ a[2] = NextLive[a[1]].version
                              THEN Proof(source) ELSE approval[a]]
          /\ meaning' = [a \in DOMAIN meaning |->
                           IF a[1] \in EnabledIn(NextLive) /\ a[2] = NextLive[a[1]].version
                             THEN [query |-> NextLive[a[1]].query, proof |-> Proof(source)]
                             ELSE meaning[a]]
      BY DEF Publish
    <2>4. /\ approval' = [a \in Templates \X Versions |->
                            IF published(a) THEN Proof(source) ELSE approval[a]]
          /\ meaning' = [a \in Templates \X Versions |->
                           IF published(a)
                             THEN [query |-> live[a[1]].query, proof |-> Proof(source)]
                             ELSE meaning[a]]
      <3>1. DOMAIN approval = Templates \X Versions /\ DOMAIN meaning = Templates \X Versions
        BY <1>2 DEF TypeOK
      <3>2. live = NextLive  BY <1>1
      <3> QED  BY <2>3, <3>1, <3>2
    <2>5. \A a \in Templates \X Versions : published(a) =>
            [query |-> live[a[1]].query, proof |-> Proof(source)] \in Meanings
      BY <2>1, <2>2 DEF Meanings
    <2> HIDE DEF published
    <2> QED  BY <1>2, <2>1, <2>4, <2>5 DEF TypeOK
  <1>7. CurrentVersions(live) \in [Templates -> Versions \union {Nothing}]
    BY <1>1 DEF CurrentVersions, EnabledIn, Snapshots, Entries
  <1>8. mutations' = [owed |-> "cancel templates", changed |-> Changed,
                      current |-> CurrentVersions(live)]
    BY <1>1 DEF Publish
  <1>9. mutations' \in Owed
    <2>1. Changed \in SUBSET Templates  BY DEF Changed
    <2> HIDE DEF Changed, CurrentVersions
    <2> QED  BY <1>7, <1>8, <2>1 DEF Owed
  <1>10. TypeOK'
    <2>1. catalog'.version > 0 => archive'[catalog'.version] = catalog'.live
      BY <1>1, <1>5
    <2> QED  BY <1>2, <1>3, <1>4, <1>5, <1>6, <1>9, <2>1 DEF TypeOK
  <1> QED  BY <1>1, <1>8, <1>9, <1>10

LEMMA PublishPublications ==
  ASSUME PublicationInv, Publish
  PROVE  Publications'
PROOF
  <1>1. PICK live \in Snapshots(Entries), new \in Versions :
          /\ live = NextLive /\ new = catalog.version + 1
          /\ catalog'.live = live /\ catalog'.version = new
          /\ catalog'.revision = catalog.revision + 1
          /\ \A t \in Templates, v \in Versions :
               IF t \in EnabledIn(live) /\ v = live[t].version
                 THEN /\ approval'[<<t, v>>] = Proof(source)
                      /\ meaning'[<<t, v>>] = [query |-> live[t].query, proof |-> Proof(source)]
                 ELSE UNCHANGED <<approval[<<t, v>>], meaning[<<t, v>>]>>
    BY PublishIs
  <1>2. /\ source \in SourceRows /\ Publications
        /\ catalog.version \in Nat /\ catalog.revision \in Nat
    BY DEF PublicationInv, TypeOK
  <1>3. UNCHANGED source /\ CanWrite  BY DEF Publish
  <1>4. Past(Proof(source))  BY <1>2, OwnProofIsPast
  <1>5. PICK p \in Proofs : p = Proof(source)  BY <1>2, ProofTyped
  <1>6. ASSUME NEW t \in EnabledIn(live)
        PROVE  /\ [query |-> live[t].query, proof |-> p] \in Meanings
               /\ [query |-> live[t].query, proof |-> p] # Nothing
    BY <1>1, <1>5 DEF EnabledIn, Snapshots, Entries, Meanings
  <1>7. ASSUME NEW t \in Templates, live[t] # Nothing
        PROVE  live[t].version \in Versions /\ live[t].version <= new
    <2>1. live[t] \in Entries  BY <1>1, <1>7 DEF Snapshots
    <2>2. CASE VersionKept(t)
      <3>1. live[t].version = catalog.live[t].version /\ catalog.live[t] # Nothing
        BY <1>1, <1>3, <2>2, NextLiveIs DEF VersionKept, SameDefinition
      <3>2. catalog.live[t].version <= catalog.version  BY <1>2, <3>1 DEF Publications
      <3> QED  BY <1>1, <1>2, <2>1, <3>1, <3>2 DEF Entries, Versions
    <2>3. CASE ~VersionKept(t)
      BY <1>1, <1>2, <1>3, <1>7, <2>1, <2>3, NextLiveIs DEF Entries
    <2> QED  BY <2>2, <2>3
  <1>8. ASSUME NEW t \in Templates, NEW v \in Versions
        PROVE  IF meaning'[<<t, v>>] = Nothing
                 THEN approval'[<<t, v>>] = NoProof
                 ELSE /\ v <= new
                      /\ approval'[<<t, v>>] = meaning'[<<t, v>>].proof
                      /\ Past(approval'[<<t, v>>])
    <2>1. CASE t \in EnabledIn(live) /\ v = live[t].version
      <3>1. /\ approval'[<<t, v>>] = p
            /\ meaning'[<<t, v>>] = [query |-> live[t].query, proof |-> p]
        BY <1>1, <1>5, <2>1
      <3> QED  BY <1>4, <1>5, <1>6, <1>7, <2>1, <3>1 DEF EnabledIn
    <2>2. CASE ~(t \in EnabledIn(live) /\ v = live[t].version)
      <3>1. approval'[<<t, v>>] = approval[<<t, v>>] /\ meaning'[<<t, v>>] = meaning[<<t, v>>]
        BY <1>1, <2>2
      <3>2. v <= catalog.version => v <= new  BY <1>1, <1>2 DEF Versions
      <3> QED  BY <1>2, <3>1, <3>2 DEF Publications
    <2> QED  BY <2>1, <2>2
  <1>9. ASSUME NEW t \in Templates, live[t] # Nothing
        PROVE  /\ live[t].enabled => meaning'[<<t, live[t].version>>] # Nothing
               /\ meaning'[<<t, live[t].version>>] # Nothing =>
                    meaning'[<<t, live[t].version>>].query = live[t].query
    <2>1. PICK v \in Versions : v = live[t].version  BY <1>7, <1>9
    <2>2. CASE live[t].enabled
      <3>1. t \in EnabledIn(live)  BY <1>9, <2>2 DEF EnabledIn
      <3>2. meaning'[<<t, v>>] = [query |-> live[t].query, proof |-> p]
        BY <1>1, <1>5, <2>1, <3>1
      <3> QED  BY <1>6, <2>1, <3>1, <3>2
    <2>3. CASE ~live[t].enabled
      <3>1. meaning'[<<t, v>>] = meaning[<<t, v>>]
        BY <1>1, <2>1, <2>3 DEF EnabledIn
      <3>2. CASE VersionKept(t)
        <4>1. meaning[<<t, v>>] = [query |-> live[t].query, proof |-> p]
          BY <1>1, <1>3, <1>5, <2>1, <3>2, NextLiveIs
        <4> QED  BY <2>1, <2>3, <3>1, <4>1
      <3>3. CASE ~VersionKept(t)
        <4>1. v = catalog.version + 1
          BY <1>1, <1>3, <1>9, <2>1, <3>3, NextLiveIs
        <4>2. meaning[<<t, v>>] = Nothing
          BY <1>2, <4>1 DEF Publications
        <4> QED  BY <2>1, <2>3, <3>1, <4>2
      <3> QED  BY <3>2, <3>3
    <2> QED  BY <2>2, <2>3
  <1>10. source.connection > 0 /\ new <= catalog.revision + 1
    BY <1>1, <1>2 DEF Publications
  <1>11. \A t \in Templates, v \in Versions : Past(approval[<<t, v>>])' <=> Past(approval'[<<t, v>>])
    BY <1>3 DEF Past
  <1> HIDE DEF NoProof
  <1> QED  BY <1>1, <1>3, <1>7, <1>8, <1>9, <1>10, <1>11 DEF Publications


LEMMA PublishEvidence ==
  ASSUME PublicationInv, Publish
  PROVE  Evidence'
PROOF
  <1>1. PICK live \in Snapshots(Entries) : live = NextLive /\ catalog'.live = live
    BY PublishIs
  <1>2. UNCHANGED <<source, proven, evidence, results>> /\ CanWrite
    BY DEF Publish, trialVars
  <1>3. ASSUME NEW t \in EnabledIn(live)
        PROVE  evidence[Key(live[t])] = Proof(source)
    <2>1. t \in Templates /\ live[t] # Nothing /\ live[t].enabled  BY <1>3 DEF EnabledIn
    <2>2. /\ catalog.draft[t] \in Drafts
          /\ live[t].query = catalog.draft[t].query /\ live[t].tests = catalog.draft[t].tests
          /\ live[t].enabled = catalog.draft[t].enabled
      BY <1>1, <1>2, <2>1, NextLiveIs
    <2>3. t \in EnabledIn(catalog.draft)
      BY <2>1, <2>2 DEF EnabledIn
    <2>4. evidence[Key(catalog.draft[t])] = Proof(source)
      BY <2>3 DEF Publish, DraftValid
    <2> QED  BY <2>2, <2>4 DEF Key
  <1>4. \A k \in Keys :
          /\ Past(evidence[k]) /\ Past(results[k].proof)
          /\ evidence[k] = Proof(source) => k \in proven /\ results[k].proof = Proof(source)
    BY DEF PublicationInv, Evidence
  <1> QED  BY <1>1, <1>2, <1>3, <1>4 DEF Evidence, Past, Proof, EnabledIn, Key

LEMMA PublishKeeps ==
  ASSUME PublicationInv, Publish
  PROVE  PublicationInv'
PROOF
  <1>1. PICK live \in Snapshots(Entries) : live = NextLive /\ catalog'.live = live
    BY PublishIs
  <1>2. /\ TypeOK' /\ mutations' \in Owed
        /\ mutations' = [owed |-> "cancel templates", changed |-> Changed,
                         current |-> CurrentVersions(live)]
    BY <1>1, PublishTyped
  <1>3. /\ UNCHANGED <<source, proven, trial, pc, local, ctxDone>>
        /\ CanWrite /\ mutations = Nothing
    BY DEF Publish, CanWrite, trialVars, callVars
  <1>4. mutations' # Nothing
    BY <1>2
  <1>5. Publications' /\ Evidence'  BY PublishPublications, PublishEvidence
  <1>6. Trial'  BY <1>3 DEF PublicationInv, Trial, Past, Proof
  <1>7. Publishing'
    <2>1. CurrentVersions(live)' = CurrentVersions(live)
      BY DEF CurrentVersions, EnabledIn
    <2> QED  BY <1>1, <1>2, <2>1 DEF Publishing, CurrentVersions, EnabledIn
  <1>8. ASSUME NEW c \in Calls  PROVE Call(c)'
    <2>1. pc'[c] = pc[c] /\ local'[c] = local[c]  BY <1>3
    <2>2. Newer(source')
      BY <1>3, SameIsNewer DEF PublicationInv, TypeOK, Newer
    <2>3. ASSUME pc[c] # "idle", AtWork(pc[c], local[c]), Stale(local[c])'
          PROVE  Cancelled(c, local[c])'
      <3>1. PICK l \in Locals, id \in Templates, v \in Versions :
              l = local[c] /\ id = l.id /\ v = l.version
        BY <2>3 DEF PublicationInv, TypeOK, Call, CallAt
      <3>2. CurrentVersions(live)[id] # v
        BY <1>1, <2>1, <2>3, <3>1 DEF Stale, CurrentVersions, EnabledIn
      <3>3. CASE Stale(l)
        <4>1. c \in ctxDone
          BY <1>3, <2>3, <3>1, <3>3 DEF PublicationInv, Call, CallAt, Cancelled
        <4> QED  BY <1>3, <4>1 DEF Cancelled
      <3>4. CASE ~Stale(l)
        <4>1. /\ id \in EnabledIn(catalog.live) /\ catalog.live[id].version = v
              /\ catalog.live[id] # Nothing /\ catalog.live[id].enabled
          BY <3>1, <3>4 DEF Stale, CurrentVersions, EnabledIn
        <4>2. ~VersionKept(id)
          <5> SUFFICES ASSUME VersionKept(id)  PROVE FALSE
            OBVIOUS
          <5>1. /\ live[id] \in Entries /\ live[id].version = v /\ live[id].enabled
            BY <1>1, <1>3, <4>1, NextLiveIs
          <5>2. CurrentVersions(live)[id] = v
            BY <5>1 DEF CurrentVersions, EnabledIn
          <5> QED  BY <3>2, <5>2
        <4>3. id \in Changed  BY <4>1, <4>2 DEF Changed
        <4>4. mutations'.owed = "cancel templates" /\ mutations'.changed = Changed
          BY <1>2
        <4> QED  BY <1>4, <2>1, <3>1, <4>3, <4>4 DEF Cancelled
      <3> QED  BY <3>3, <3>4
    <2> QED  BY <2>1, <2>2, <2>3, PublishedStays, CallStays
  <1> QED  BY <1>2, <1>5, <1>6, <1>7, <1>8 DEF PublicationInv

LEMMA CancelTemplatesKeeps ==
  ASSUME PublicationInv, CancelTemplates
  PROVE  PublicationInv'
PROOF
  <1>1. /\ Completing /\ mutations' = Nothing
        /\ ctxDone' = ctxDone \union
             {c \in Jobs : /\ local[c].id \in mutations.changed
                           /\ local[c].version # mutations.current[local[c].id]}
        /\ mutations.current = CurrentVersions(catalog.live)
    BY DEF CancelTemplates, Completing, PublicationInv, Publishing
  <1>2. UNCHANGED <<source, proven, catalog, archive, approval, meaning, evidence, results,
                    trial, pc, local>>
    BY DEF CancelTemplates, catalogVars, trialVars, callVars
  <1>3. ctxDone' \subseteq Calls
    BY <1>1 DEF PublicationInv, TypeOK, Jobs
  <1>4. TypeOK'
    BY <1>1, <1>2, <1>3 DEF PublicationInv, TypeOK
  <1>5. Publications' /\ Evidence'
    BY <1>2 DEF PublicationInv, Publications, Evidence, Past, EnabledIn, Approved, Proof, Key
  <1>6. Trial' /\ Publishing'
    BY <1>1, <1>2 DEF PublicationInv, Trial, Publishing, Past, Proof
  <1>7. ASSUME NEW c \in Calls  PROVE Call(c)'
    <2>1. pc'[c] = pc[c] /\ local'[c] = local[c]  BY <1>2
    <2>2. Newer(source')
      BY <1>2, SameIsNewer DEF PublicationInv, TypeOK, Newer
    <2>3. ASSUME pc[c] # "idle", AtWork(pc[c], local[c]), Stale(local[c])'
          PROVE  Cancelled(c, local[c])'
      <3>1. Stale(local[c])
        BY <1>2, <2>3 DEF Stale, CurrentVersions, EnabledIn
      <3>2. c \in ctxDone \/ local[c].id \in mutations.changed
        BY <2>3, <3>1 DEF PublicationInv, Call, CallAt, Cancelled
      <3>3. c \in Jobs  BY <2>3 DEF AtWork, Jobs
      <3>4. c \in ctxDone'
        BY <1>1, <3>1, <3>2, <3>3 DEF Stale
      <3> QED  BY <3>4 DEF Cancelled
    <2> QED  BY <1>2, <2>1, <2>2, <2>3, CallStays
  <1> QED  BY <1>4, <1>5, <1>6, <1>7 DEF PublicationInv

(***************************************************************************)
(* The invariant                                                           *)
(***************************************************************************)
LEMMA InitInv == Init => PublicationInv
PROOF
  <1> SUFFICES ASSUME Init  PROVE PublicationInv
    OBVIOUS
  <1>1. /\ source = [revision |-> 1, connection |-> 1, observed |-> Nothing]
        /\ catalog = [revision |-> 0, version |-> 0, draft |-> EmptySnapshot,
                      live |-> EmptySnapshot, outdated |-> {}]
        /\ archive = [v \in Versions |-> Nothing]
        /\ evidence = [k \in Keys |-> NoProof]
        /\ results = [k \in Keys |-> [proof |-> NoProof, passed |-> FALSE]]
        /\ approval = [a \in Templates \X Versions |-> NoProof]
        /\ mutations = Nothing /\ trial = Nothing
        /\ pc = [c \in Calls |-> "idle"] /\ local = [c \in Calls |-> NewLocal]
        /\ ctxDone = {} /\ proven = {}
        /\ meaning = [a \in Templates \X Versions |-> Nothing]
    BY DEF Init
  <1>2. PICK none \in Proofs : none = NoProof /\ none[1] = 0
    <2>1. NoProof \in Proofs /\ NoProof[1] = 0  BY DEF NoProof, Proofs
    <2> QED  BY <2>1
  <1>3. source \in SourceRows /\ source.connection = 1
    BY <1>1 DEF SourceRows
  <1>4. /\ EmptySnapshot \in Snapshots(Drafts) /\ EmptySnapshot \in Snapshots(Entries)
        /\ \A t \in Templates : EmptySnapshot[t] = Nothing
    BY DEF EmptySnapshot, Snapshots
  <1>5. /\ catalog \in [revision: 0..MaxWrites, version: 0..MaxWrites,
                        draft: Snapshots(Drafts), live: Snapshots(Entries),
                        outdated: SUBSET Keys]
        /\ catalog.live = EmptySnapshot /\ catalog.version = 0 /\ catalog.revision = 0
    <2> PICK empty : empty = EmptySnapshot  OBVIOUS
    <2> HIDE DEF Snapshots
    <2> QED  BY <1>1, <1>4
  <1>6. TypeOK
    <2>1. archive \in [Versions -> Snapshots(Entries) \union {Nothing}]
      <3> HIDE DEF Snapshots
      <3> QED  BY <1>1
    <2>2. results \in [Keys -> [proof: Proofs, passed: BOOLEAN]]
      BY <1>1, <1>2
    <2>3. pc \in [Calls -> Stages] /\ local \in [Calls -> Locals]
      BY <1>1, NewLocalTyped DEF Stages
    <2>4. /\ evidence \in [Keys -> Proofs] /\ approval \in [Templates \X Versions -> Proofs]
          /\ meaning \in [Templates \X Versions -> Meanings \union {Nothing}]
      BY <1>1, <1>2
    <2> QED  BY <1>1, <1>3, <1>5, <2>1, <2>2, <2>3, <2>4 DEF TypeOK
  <1>7. Past(none) /\ none # Proof(source)
    BY <1>2, <1>3 DEF Past, Proof
  <1>8. Publications
    <2>1. \A t \in Templates, v \in Versions :
            meaning[<<t, v>>] = Nothing /\ approval[<<t, v>>] = NoProof
      BY <1>1
    <2> QED  BY <1>3, <1>4, <1>5, <2>1 DEF Publications
  <1>9. Evidence
    <2>1. \A k \in Keys : evidence[k] = none /\ results[k].proof = none
      BY <1>1, <1>2
    <2>2. EnabledIn(catalog.live) = {}
      BY <1>4, <1>5 DEF EnabledIn
    <2> QED  BY <1>7, <2>1, <2>2 DEF Evidence
  <1>10. Trial /\ Publishing /\ \A c \in Calls : Call(c)
    BY <1>1 DEF Trial, Publishing, Call
  <1> QED  BY <1>6, <1>8, <1>9, <1>10 DEF PublicationInv

LEMMA CallStepKeeps ==
  ASSUME PublicationInv, NEW c \in Calls, CallStep(c)
  PROVE  PublicationInv'
PROOF
  BY CallEnds, BeginKeeps, ReadCatalogKeeps, ReadEvidenceKeeps, ReadApprovalKeeps, ChecksKeep,
     VersionKnownKeeps, VersionChangedKeeps, ReadFreshKeeps DEF CallStep

LEMMA TrialStepKeeps ==
  ASSUME PublicationInv, TrialStep
  PROVE  PublicationInv'
PROOF
  BY StartTrialKeeps, TrialGoesOn, TrialRecordsKeeps, SettleTrialKeeps DEF TrialStep

LEMMA CatalogStepKeeps ==
  ASSUME PublicationInv, CatalogStep
  PROVE  PublicationInv'
PROOF
  BY DraftsKeep, DeleteVersionKeeps, PublishKeeps, CancelTemplatesKeeps DEF CatalogStep

LEMMA StutterKeeps ==
  ASSUME PublicationInv, UNCHANGED vars
  PROVE  PublicationInv'
PROOF
  <1>1. /\ UNCHANGED <<source, catalogVars, callVars, evidence, results, mutations, ctxDone>>
        /\ UNCHANGED <<source, proven, trial>>
    BY DEF vars, trialVars
  <1>2. Trial'  BY <1>1 DEF PublicationInv, Trial, Past, Proof
  <1> QED  BY <1>1, <1>2, TrialTyped, TrialMoves

\* The values are of their types, and what is published, tried, owed and under way
\* is as its parts say, in every reachable state.
THEOREM PublicationInvariant == Spec => []PublicationInv
PROOF
  <1>1. PublicationInv /\ [Next]_vars => PublicationInv'
    BY SourceStepKeeps, CatalogStepKeeps, TrialStepKeeps, CallStepKeeps, StutterKeeps DEF Next
  <1> QED  BY <1>1, InitInv, PTL DEF Spec


(***************************************************************************)
(* What a step may do                                                      *)
(***************************************************************************)
\* The steps of the source, of a trial and of a call publish nothing.
LEMMA OthersPublishNothing ==
  ASSUME PublicationInv, SourceStep \/ TrialStep \/ \E c \in Calls : CallStep(c)
  PROVE  UNCHANGED <<meaning, approval, catalog.live, catalog.version>>
PROOF
  <1>1. CASE SourceStep
    BY <1>1 DEF SourceStep, EditSource, CancelSource, SaveVersion, ObserveVersion, catalogVars
  <1>2. CASE TrialStep
    <2>1. CASE SettleTrial
      <3>1. catalog' = catalog \/ catalog' = [catalog EXCEPT !.outdated = @ \ {trial.key}]
        BY <2>1 DEF SettleTrial, SaveEvidence
      <3>2. UNCHANGED <<meaning, approval>>  BY <2>1 DEF SettleTrial
      <3> QED  BY <3>1, <3>2 DEF PublicationInv, TypeOK
    <2>2. CASE TrialFails \/ TrialVersionKnown \/ TrialRecords \/ TrialRun
      BY <2>2 DEF TrialFails, TrialVersionKnown, TrialRecords, TrialRun, trialFrame, catalogVars
    <2>3. CASE \E t \in Templates, version \in ServerVersions : StartTrial(t, version)
      BY <2>3 DEF StartTrial, trialFrame, catalogVars
    <2> QED  BY <1>2, <2>1, <2>2, <2>3 DEF TrialStep
  <1>3. ASSUME NEW c \in Calls, CallStep(c)
        PROVE  UNCHANGED catalogVars
    <2>1. CASE VersionChanged(c)  BY <2>1 DEF VersionChanged
    <2>2. CASE UNCHANGED callFrame  BY <2>2 DEF callFrame
    <2> QED
      BY <1>3, <2>1, <2>2
         DEF CallStep, Begin, Fail, ReadCatalog, ReadEvidence, ReadApproval, Register,
             Reauthorize, VersionKnown, CheckContext, Recheck, ReadFresh, Answer
  <1> QED  BY <1>1, <1>2, <1>3 DEF catalogVars

LEMMA OnlyPublishPublishes ==
  ASSUME PublicationInv, [Next]_vars, ~Publish
  PROVE  UNCHANGED <<meaning, approval, catalog.live, catalog.version>>
PROOF
  <1>1. ASSUME NEW draft, NEW outdated, WriteDraft(draft, outdated)
        PROVE  UNCHANGED <<meaning, approval, catalog.live, catalog.version>>
    <2>1. catalog' = [catalog EXCEPT !.revision = @ + 1, !.draft = draft,
                                     !.outdated = outdated]
      BY <1>1 DEF WriteDraft
    <2>2. UNCHANGED <<meaning, approval>>  BY <1>1 DEF WriteDraft
    <2> QED  BY <2>1, <2>2 DEF PublicationInv, TypeOK
  <1>2. CASE CatalogStep
    <2>1. ASSUME NEW v \in Versions, DeleteVersion(v)
          PROVE  UNCHANGED <<meaning, approval, catalog>>
      BY <2>1 DEF DeleteVersion
    <2>2. CASE CancelTemplates
      BY <2>2 DEF CancelTemplates, catalogVars
    <2> QED  BY <1>1, <1>2, <2>1, <2>2 DEF CatalogStep, SaveDraft, Restore, Discard
  <1>3. CASE UNCHANGED vars
    BY <1>3 DEF vars, catalogVars
  <1> QED  BY <1>2, <1>3, OthersPublishNothing DEF Next

\* An execution version stands for one query, proved on one connection, for ever
\* (PublishSemantics reuses a version only as it was approved).
THEOREM MeaningIsForEver == Spec => VersionKeepsItsMeaning
PROOF
  <1>1. ASSUME PublicationInv, [Next]_vars, NEW a \in DOMAIN meaning, meaning[a] # Nothing
        PROVE  meaning'[a] = meaning[a]
    <2>1. CASE Publish
      <3>1. PICK t \in Templates, v \in Versions : a = <<t, v>>
        BY <1>1 DEF PublicationInv, TypeOK
      <3> QED  BY <1>1, <2>1, <3>1, PublishedStays
    <2>2. CASE ~Publish
      BY <1>1, <2>2, OnlyPublishPublishes
    <2> QED  BY <2>1, <2>2
  <1>2. PublicationInv /\ [Next]_vars =>
          [\A a \in DOMAIN meaning : meaning[a] # Nothing => meaning'[a] = meaning[a]]_vars
    BY <1>1
  <1> QED  BY <1>2, PublicationInvariant, PTL DEF Spec, VersionKeepsItsMeaning

\* A template call answers only with a query that passed a trial on the very
\* connection and server version the call ran on, and that its execution version was
\* published as (execute, publishedTemplate, recordDatabaseVersion).
THEOREM AnswersWereProven == Spec => AnswersAreProven
PROOF
  <1>1. ASSUME PublicationInv, NEW c \in Calls, Answer(c)
        PROVE  meaning[<<local[c].id, local[c].version>>] =
                 [query |-> local[c].query, proof |-> <<local[c].src.connection, local[c].probed>>]
    <2>1. PICK l \in Locals : l = local[c]
      BY <1>1 DEF PublicationInv, TypeOK
    <2>2. /\ pc[c] = "approval" /\ l.pass = 3
          /\ approval[<<l.id, l.version>>] = Proof(l.row)
      BY <1>1, <2>1 DEF Answer, Approved
    <2>3. CallAt(c, "approval", l)
      BY <1>1, <2>1, <2>2 DEF PublicationInv, Call
    <2>4. PICK t \in Templates, v \in Versions : t = l.id /\ v = l.version
      BY <2>3 DEF CallAt
    <2>5. /\ meaning[<<t, v>>] # Nothing /\ meaning[<<t, v>>].query = l.query
          /\ approval[<<t, v>>] = Proof(l.src)
          /\ l.row.connection = l.src.connection => l.row.observed = l.probed
      BY <2>2, <2>3, <2>4 DEF CallAt, Bound, PassedOnce, Probed
    <2>6. l.row.connection = l.src.connection /\ l.row.observed = l.src.observed
      BY <2>2, <2>4, <2>5 DEF Proof
    <2>7. approval[<<t, v>>] = <<l.src.connection, l.probed>>
      BY <2>5, <2>6 DEF Proof
    <2>8. meaning[<<t, v>>] \in Meanings /\ meaning[<<t, v>>].proof = approval[<<t, v>>]
      BY <1>1, <2>5 DEF PublicationInv, TypeOK, Publications
    <2> QED  BY <2>1, <2>4, <2>5, <2>7, <2>8 DEF Meanings
  <1>2. PublicationInv =>
          \A c \in Calls : Answer(c) =>
            LET l == local[c] IN
            meaning[<<l.id, l.version>>] =
              [query |-> l.query, proof |-> <<l.src.connection, l.probed>>]
    BY <1>1
  <1> QED  BY <1>2, PublicationInvariant, PTL DEF AnswersAreProven

\* The row a step leaves is the one before it, of another connection, or the same with
\* its first version.
LEMMA RowsAreNewer ==
  ASSUME PublicationInv, [Next]_vars
  PROVE  Newer(source')
PROOF
  <1>1. source \in SourceRows  BY DEF PublicationInv, TypeOK
  <1>2. ASSUME UNCHANGED source  PROVE Newer(source')
    BY <1>1, <1>2, SameIsNewer DEF Newer
  <1>3. ASSUME NEW row, Newer(row), SaveRow(row)  PROVE Newer(source')
    BY <1>3 DEF SaveRow, Newer
  <1>4. CASE SourceStep
    <2>1. CASE EditSource
      <3>1. /\ Newer([source EXCEPT !.revision = @ + 1])
            /\ Newer([revision |-> source.revision + 1, connection |-> source.connection + 1,
                      observed |-> Nothing])
        BY <1>1 DEF Newer, SourceRows
      <3> QED  BY <1>3, <2>1, <3>1 DEF EditSource
    <2>2. CASE CancelSource  BY <1>2, <2>2 DEF CancelSource
    <2>3. CASE SaveVersion
      <3>1. mutations.version \in ServerVersions
        BY <2>3 DEF SaveVersion, PublicationInv, TypeOK, Owed
      <3> QED  BY <1>1, <1>3, <2>3, <3>1, SameIsNewer, ObservedIsNewer DEF SaveVersion
    <2>4. ASSUME NEW version \in ServerVersions, ObserveVersion(version)
          PROVE  Newer(source')
      <3>1. UNCHANGED source \/ SaveRow(Observed(source, version))
        BY <2>4 DEF ObserveVersion
      <3> QED  BY <1>1, <1>2, <1>3, <3>1, ObservedIsNewer
    <2> QED  BY <1>4, <2>1, <2>2, <2>3, <2>4 DEF SourceStep
  <1>5. CASE CatalogStep
    <2>1. UNCHANGED source
      BY <1>5 DEF CatalogStep, SaveDraft, Discard, Restore, WriteDraft, DeleteVersion, Publish,
                  CancelTemplates
    <2> QED  BY <1>2, <2>1
  <1>6. CASE TrialStep
    <2>1. CASE TrialRecords
      <3>1. trial \in Trials /\ RecordVersion(trial.src, trial.seen)
        BY <2>1, TrialTyped DEF TrialRecords
      <3>2. trial.seen \in ServerVersions  BY <3>1 DEF Trials
      <3> QED  BY <1>3, <3>1, <3>2, RecordVersionMoves
    <2>2. CASE ~TrialRecords
      <3>1. UNCHANGED source
        BY <1>6, <2>2 DEF TrialStep, StartTrial, TrialFails, TrialVersionKnown, TrialRun,
                          SettleTrial
      <3> QED  BY <1>2, <3>1
    <2> QED  BY <2>1, <2>2
  <1>7. ASSUME NEW c \in Calls, CallStep(c)  PROVE Newer(source')
    <2>1. CASE VersionChanged(c)
      BY <1>3, <2>1, RecordVersionMoves DEF VersionChanged
    <2>2. CASE UNCHANGED callFrame  BY <1>2, <2>2 DEF callFrame
    <2> QED
      BY <1>7, <2>1, <2>2
         DEF CallStep, Begin, Fail, ReadCatalog, ReadEvidence, ReadApproval, Register,
             Reauthorize, VersionKnown, CheckContext, Recheck, ReadFresh, Answer
  <1>8. CASE UNCHANGED vars
    BY <1>2, <1>8 DEF vars
  <1> QED  BY <1>4, <1>5, <1>6, <1>7, <1>8 DEF Next


\* A publication contains only templates that passed a trial on the source as it is,
\* with no failed trial since, and nothing else makes a template executable
\* (PublishSemantics, DraftTemplateValidation, PublishedTemplateValidation).
LEMMA PublishedWereTried ==
  ASSUME PublicationInv, Publish, NEW t \in EnabledIn(catalog'.live)
  PROVE  /\ Key(catalog'.live[t]) \in proven
         /\ results[Key(catalog'.live[t])] = [proof |-> Proof(source), passed |-> TRUE]
PROOF
  <1>1. PICK live \in Snapshots(Entries) : live = NextLive /\ catalog'.live = live
    BY PublishIs
  <1>2. CanWrite  BY DEF Publish
  <1>3. t \in Templates /\ live[t] # Nothing /\ live[t].enabled
    BY <1>1 DEF EnabledIn
  <1>4. PICK d \in Drafts, k \in Keys :
          d = catalog.draft[t] /\ k = Key(d) /\ k = Key(live[t]) /\ d.enabled
    <2>1. /\ catalog.draft[t] \in Drafts
          /\ live[t].query = catalog.draft[t].query /\ live[t].tests = catalog.draft[t].tests
          /\ live[t].enabled = catalog.draft[t].enabled
      BY <1>1, <1>2, <1>3, NextLiveIs
    <2>2. Key(live[t]) = Key(catalog.draft[t])  BY <2>1 DEF Key
    <2>3. Key(catalog.draft[t]) \in Keys  BY <2>1 DEF Key, Keys, Drafts
    <2> QED  BY <1>3, <2>1, <2>2, <2>3
  <1>5. t \in EnabledIn(catalog.draft)
    <2>1. catalog.draft[t] # Nothing  BY <1>4
    <2> QED  BY <1>3, <1>4, <2>1 DEF EnabledIn
  <1>6. /\ evidence[k] = Proof(source)
        /\ results[k].proof = Proof(source) => results[k].passed
    BY <1>4, <1>5 DEF Publish, DraftValid
  <1>7. k \in proven /\ results[k].proof = Proof(source)
    BY <1>6 DEF PublicationInv, Evidence
  <1>8. results[k] \in [proof: Proofs, passed: BOOLEAN]
    BY DEF PublicationInv, TypeOK
  <1>9. results[k] = [proof |-> Proof(source), passed |-> TRUE]
    BY <1>6, <1>7, <1>8
  <1> QED  BY <1>1, <1>4, <1>7, <1>9

THEOREM OnlyTriedArePublished == Spec => PublishesOnlyTried
PROOF
  <1>1. ASSUME PublicationInv, [Next]_vars, catalog'.version # catalog.version
        PROVE  Publish
    BY <1>1, OnlyPublishPublishes
  <1>2. ASSUME PublicationInv, [Next]_vars, NEW t \in Templates,
               catalog'.version = catalog.version, Executable(t)'
        PROVE  Executable(t)
    <2>1. ~Publish
      <3>1. Publish => catalog'.version = catalog.version + 1
        BY <1>2, PublishIs
      <3>2. catalog.version \in Nat  BY <1>2 DEF PublicationInv, TypeOK
      <3> QED  BY <1>2, <3>1, <3>2
    <2>2. UNCHANGED <<approval, catalog.live>>
      BY <1>2, <2>1, OnlyPublishPublishes
    <2>3. PICK e : e = catalog.live[t]  OBVIOUS
    <2>4. /\ t \in EnabledIn(catalog.live) /\ e # Nothing /\ e.enabled
          /\ approval[<<t, e.version>>] = Proof(source')
      BY <1>2, <2>2, <2>3 DEF Executable, EnabledIn, Approved, Proof
    <2>5. e \in Entries
      BY <1>2, <2>3, <2>4 DEF PublicationInv, TypeOK, Snapshots
    <2>6. PICK v \in Versions : v = e.version  BY <2>5 DEF Entries
    <2>7. meaning[<<t, v>>] # Nothing
      BY <1>2, <2>3, <2>4, <2>6 DEF PublicationInv, Publications
    <2>8. approval[<<t, v>>] \in Proofs /\ Past(approval[<<t, v>>])
      BY <1>2, <2>7 DEF PublicationInv, TypeOK, Publications
    <2>9. source \in SourceRows /\ Newer(source')
      BY <1>2, RowsAreNewer DEF PublicationInv, TypeOK
    <2>10. Proof(source') = Proof(source)
      BY <2>4, <2>6, <2>8, <2>9, PastStays
    <2>11. Approved(source, t, e.version)
      BY <2>4, <2>10 DEF Approved
    <2>12. evidence[Key(e)] = Proof(source)
      BY <1>2, <2>3, <2>4, <2>11 DEF PublicationInv, Evidence
    <2> QED  BY <2>3, <2>4, <2>11, <2>12 DEF Executable
  <1>3. PublicationInv /\ [Next]_vars =>
          [ /\ catalog'.version # catalog.version =>
                 \A t \in EnabledIn(catalog'.live) :
                   LET k == Key(catalog'.live[t]) IN
                   /\ k \in proven
                   /\ results[k] = [proof |-> Proof(source), passed |-> TRUE]
            /\ \A t \in Templates :
                 ~Executable(t) /\ Executable(t)' => catalog'.version # catalog.version ]_vars
    BY <1>1, <1>2, PublishedWereTried
  <1> QED  BY <1>3, PublicationInvariant, PTL DEF Spec, PublishesOnlyTried

\* A complete publication has cancelled every call of a version it replaced, and no
\* publication cancels a call of a version it keeps or has just introduced
\* (InvalidateTemplates compares versions, not only changed templates).
LEMMA OnlyCancelTemplatesCompletes ==
  ASSUME PublicationInv, [Next]_vars, Completing, mutations' = Nothing
  PROVE  CancelTemplates
PROOF
  <1>1. /\ mutations # Nothing /\ mutations.owed = "cancel templates"
        /\ mutations # [owed |-> "cancel source"]
    <2>1. mutations # Nothing /\ mutations.owed = "cancel templates"  BY DEF Completing
    <2>2. [owed |-> "cancel source"].owed = "cancel source"  OBVIOUS
    <2> QED  BY <2>1, <2>2
  <1>2. \A src, seen : ~RecordVersion(src, seen)
    BY <1>1 DEF RecordVersion
  <1>3. ~SourceStep
    BY <1>1 DEF SourceStep, EditSource, CancelSource, SaveVersion, ObserveVersion
  <1>4. ~TrialStep
    <2> SUFFICES ASSUME TrialStep  PROVE UNCHANGED mutations
      BY <1>1
    <2> QED
      BY <1>2 DEF TrialStep, StartTrial, TrialFails, TrialVersionKnown, TrialRecords, TrialRun,
                  SettleTrial
  <1>5. ASSUME NEW c \in Calls  PROVE ~CallStep(c)
    <2> SUFFICES ASSUME CallStep(c)  PROVE UNCHANGED mutations
      BY <1>1
    <2> QED
      BY <1>2 DEF CallStep, Begin, Fail, ReadCatalog, ReadEvidence, ReadApproval, Register,
                  Reauthorize, VersionKnown, VersionChanged, CheckContext, Recheck, ReadFresh,
                  Answer
  <1>6. CatalogStep => CancelTemplates
    BY <1>1 DEF CatalogStep, SaveDraft, Discard, Restore, WriteDraft, CanWrite, DeleteVersion,
                Publish
  <1>7. ~UNCHANGED vars
    BY <1>1 DEF vars
  <1> QED  BY <1>3, <1>4, <1>5, <1>6, <1>7 DEF Next

THEOREM StaleRunsAreCancelled == Spec => ExactlyStaleRunsAreCancelled
PROOF
  <1>1. PublicationInv => TypeOK /\ StaleRunsCancelled
    <2> SUFFICES ASSUME PublicationInv, mutations = Nothing, NEW c \in Calls,
                        pc[c] \in {"probe", "check"},
                        CurrentVersions(catalog.live)[local[c].id] # local[c].version
                 PROVE  c \in ctxDone
      BY DEF PublicationInv, StaleRunsCancelled
    <2> QED
      BY DEF PublicationInv, Call, CallAt, AtWork, Stale, Cancelled
  <1>2. ASSUME PublicationInv, [Next]_vars, Completing, mutations' = Nothing,
               NEW c \in ctxDone' \ ctxDone
        PROVE  CurrentVersions(catalog.live)[local[c].id] # local[c].version
    <2>1. CancelTemplates  BY <1>2, OnlyCancelTemplatesCompletes
    <2>2. mutations.current = CurrentVersions(catalog.live)
      BY <1>2 DEF PublicationInv, Publishing, Completing
    <2> QED  BY <1>2, <2>1, <2>2 DEF CancelTemplates
  <1>3. PublicationInv /\ [Next]_vars =>
          [ (mutations # Nothing /\ mutations.owed = "cancel templates" /\ mutations' = Nothing) =>
             \A c \in ctxDone' \ ctxDone :
               CurrentVersions(catalog.live)[local[c].id] # local[c].version ]_vars
    BY <1>2 DEF Completing
  <1> QED
    BY <1>1, <1>3, PublicationInvariant, PTL DEF Spec, ExactlyStaleRunsAreCancelled
=============================================================================

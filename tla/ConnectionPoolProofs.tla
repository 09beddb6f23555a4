------------------------ MODULE ConnectionPoolProofs ------------------------
(***************************************************************************)
(* Machine-checked proofs about the connection pool, for any number of     *)
(* requests, sources, revisions and entry objects.                         *)
(*                                                                         *)
(* None of the safety properties is inductive alone.  PoolInv joins them   *)
(* with the facts they rest on: a map slot holds an entry of its own       *)
(* source, the stage of a caller fixes the phase of its entry, only one    *)
(* caller opens an entry, and a connection is closed exactly when its      *)
(* entry is retired and unreferenced.                                      *)
(***************************************************************************)
EXTENDS ConnectionPool, FiniteSetTheorems, TLAPS

\* A slot of the map holds an entry opened for that source.
SlotsMatchSources ==
  \A s \in Sources :
    connections[s] # NoEntry => entry[connections[s]].source = s

\* The stage of a caller fixes the phase of its entry.
StageMatchesConn ==
  \A r \in Requests :
    /\ lease[r].stage = "opening" => entry[lease[r].entry].conn = "opening"
    /\ lease[r].stage = "using" => entry[lease[r].entry].conn = "open"

\* Two callers never open the same entry.
OneOpener ==
  \A q, r \in Requests :
    (lease[q].stage = "opening" /\ lease[r].stage = "opening"
       /\ lease[q].entry = lease[r].entry) => q = r

\* A connection is closed when its entry becomes retired and unreferenced.
ClosingDiscipline ==
  \A e \in Entries :
    /\ entry[e].closes > 0 => entry[e].retired /\ entry[e].refs = 0
    /\ entry[e].retired /\ entry[e].refs = 0 /\ entry[e].conn = "open" =>
         entry[e].closes > 0
    /\ entry[e].closes <= 1

PoolInv ==
  /\ TypeOK
  /\ RefsMatchUsers
  /\ ServesItsRevision
  /\ SlotsMatchSources
  /\ RetiredIffUnmapped
  /\ StageMatchesConn
  /\ OneOpener
  /\ ClosingDiscipline

(***************************************************************************)
(* References                                                              *)
(***************************************************************************)

LEMMA UsersFinite == \A e : IsFiniteSet(Users(e))
  <1>1. \A e : Users(e) \subseteq Requests
    BY DEF Users
  <1> QED
    BY <1>1, RequestsAreFinite, FS_Subset

\* An entry without references has no users, and the other way round.
LEMMA NoRefsNoUsers ==
  ASSUME RefsMatchUsers, NEW e \in Entries
  PROVE  entry[e].refs = 0 <=> Users(e) = {}
  BY UsersFinite, FS_EmptySet DEF RefsMatchUsers

\* A caller holding an entry keeps its count above zero.
LEMMA UserKeepsRef ==
  ASSUME TypeOK, RefsMatchUsers, NEW r \in Requests, lease[r].stage # "idle"
  PROVE  entry[lease[r].entry].refs \in Nat \ {0}
  <1> DEFINE e == lease[r].entry
  <1>1. e \in Entries /\ r \in Users(e)
    BY DEF TypeOK, Leases, Users
  <1>2. entry[e].refs # 0
    BY <1>1, NoRefsNoUsers
  <1>3. entry[e].refs \in Nat
    BY <1>1 DEF TypeOK, EntryRecords
  <1> QED
    BY <1>2, <1>3

\* A caller that takes a reference becomes a user of that entry only.
LEMMA GainUser ==
  ASSUME TypeOK, NEW r \in Requests, NEW e \in Entries,
         lease[r].stage = "idle",
         NEW x \in Leases, x.stage # "idle", x.entry = e,
         lease' = [lease EXCEPT ![r] = x]
  PROVE  /\ Cardinality(Users(e)') = Cardinality(Users(e)) + 1
         /\ \A d \in Entries \ {e} : Users(d)' = Users(d)
  <1>0. \A q \in Requests : lease'[q] = IF q = r THEN x ELSE lease[q]
    BY DEF TypeOK
  <1>1. Users(e)' = Users(e) \union {r} /\ r \notin Users(e)
    BY <1>0 DEF Users
  <1>2. \A d \in Entries \ {e} : Users(d)' = Users(d)
    BY <1>0 DEF Users
  <1> QED
    BY <1>1, <1>2, UsersFinite, FS_AddElement

\* A caller that returns its reference is no user any more.
LEMMA LoseUser ==
  ASSUME TypeOK, NEW r \in Requests, lease[r].stage # "idle",
         NEW e \in Entries, e = lease[r].entry,
         lease' = [lease EXCEPT ![r].stage = "idle"]
  PROVE  /\ Cardinality(Users(e)') = Cardinality(Users(e)) - 1
         /\ \A d \in Entries \ {e} : Users(d)' = Users(d)
  <1>0. \A q \in Requests :
          lease'[q] = IF q = r THEN [lease[r] EXCEPT !.stage = "idle"] ELSE lease[q]
    BY DEF TypeOK
  <1>3. lease'[r].stage = "idle"
    BY <1>0 DEF TypeOK, Leases
  <1>1. Users(e)' = Users(e) \ {r} /\ r \in Users(e)
    BY <1>0, <1>3 DEF Users
  <1>2. \A d \in Entries \ {e} : Users(d)' = Users(d)
    BY <1>0, <1>3 DEF Users
  <1> QED
    BY <1>1, <1>2, UsersFinite, FS_RemoveElement

\* A change of stage that is not to or from "idle" changes no user set.
LEMMA SameUsers ==
  ASSUME TypeOK, NEW r \in Requests, lease[r].stage # "idle",
         NEW g \in Stages \ {"idle"}, lease' = [lease EXCEPT ![r].stage = g]
  PROVE  /\ \A d : Users(d)' = Users(d)
         /\ \A q \in Requests : /\ lease'[q].entry = lease[q].entry
                                /\ lease'[q].source = lease[q].source
                                /\ lease'[q].revision = lease[q].revision
         /\ \A q \in Requests \ {r} : lease'[q] = lease[q]
         /\ lease'[r].stage = g
         /\ lease' \in [Requests -> Leases]
  <1>1. \A q \in Requests :
          lease'[q] = IF q = r THEN [lease[r] EXCEPT !.stage = g] ELSE lease[q]
    BY DEF TypeOK
  <1>2. lease[r] \in Leases
    BY DEF TypeOK
  <1>3. /\ lease'[r].stage = g /\ lease'[r].entry = lease[r].entry
        /\ lease'[r].source = lease[r].source /\ lease'[r].revision = lease[r].revision
        /\ lease'[r] \in Leases
    BY <1>1, <1>2 DEF Leases
  <1>4. \A d : Users(d)' = Users(d)
    BY <1>1, <1>3 DEF Users
  <1>5. lease' \in [Requests -> Leases]
    BY <1>2, <1>3 DEF TypeOK
  <1> QED
    BY <1>1, <1>3, <1>4, <1>5

\* What retiring does to an entry record.
LEMMA RetireOne ==
  ASSUME NEW x \in EntryRecords
  PROVE  /\ Retired(x).source = x.source /\ Retired(x).revision = x.revision
         /\ Retired(x).refs = x.refs /\ Retired(x).conn = x.conn
         /\ Retired(x).retired
         /\ Retired(x).closes = IF x.refs = 0 /\ x.conn = "open" THEN x.closes + 1
                                                                ELSE x.closes
         /\ Retired(x) \in EntryRecords
  <1> DEFINE n == IF x.refs = 0 /\ x.conn = "open" THEN x.closes + 1 ELSE x.closes
  <1>1. x.closes \in Nat
    BY DEF EntryRecords
  <1>2. n \in Nat
    BY <1>1
  <1>3. Retired(x) = [x EXCEPT !.retired = TRUE, !.closes = n]
    BY DEF Retired, EntryRecords
  <1> HIDE DEF n
  <1>4. /\ Retired(x).source = x.source /\ Retired(x).revision = x.revision
        /\ Retired(x).refs = x.refs /\ Retired(x).conn = x.conn
        /\ Retired(x).retired
        /\ Retired(x).closes = n
        /\ Retired(x) \in EntryRecords
    BY <1>2, <1>3 DEF EntryRecords
  <1> QED
    BY <1>4 DEF n

\* A mapped entry is found under its own source.
LEMMA SlotsServe ==
  /\ SlotsMatchSources =>
       \A e \in Entries : Mapped(e) => connections[entry[e].source] = e
  /\ SlotsMatchSources' =>
       \A e \in Entries : Mapped(e)' => connections'[entry'[e].source] = e
  BY NoEntryIsNoEntry DEF SlotsMatchSources, Mapped

(***************************************************************************)
(* One lemma per kind of step                                              *)
(***************************************************************************)

LEMMA InitPool == Init => PoolInv
  <1> SUFFICES ASSUME Init PROVE PoolInv
    OBVIOUS
  <1>0. PICK s \in Sources, v \in Revisions, e \in Entries :
          /\ entry = [x \in Entries |->
                        [source |-> s, revision |-> v, refs |-> 0, retired |-> TRUE,
                         conn |-> "failed", closes |-> 0]]
          /\ lease = [r \in Requests |->
                        [stage |-> "idle", entry |-> e, source |-> s, revision |-> v]]
    BY DEF Init
  <1>1. TypeOK
    BY <1>0 DEF Init, TypeOK, EntryRecords, Leases, Stages
  <1>2. \A d \in Entries : Users(d) = {}
    BY <1>0 DEF Users
  <1>3. RefsMatchUsers
    BY <1>0, <1>2, FS_EmptySet DEF RefsMatchUsers
  <1>4. ServesItsRevision /\ StageMatchesConn /\ OneOpener /\ ClosingDiscipline
    BY <1>0 DEF ServesItsRevision, StageMatchesConn, OneOpener, ClosingDiscipline
  <1>5. RetiredIffUnmapped /\ SlotsMatchSources
    BY <1>0, NoEntryIsNoEntry DEF Init, RetiredIffUnmapped, SlotsMatchSources, Mapped
  <1> QED
    BY <1>1, <1>3, <1>4, <1>5 DEF PoolInv

\* Joining an entry adds a reference and changes nothing else of it.
LEMMA JoinStep ==
  ASSUME PoolInv, NEW r \in Requests, NEW s \in Sources, NEW v \in Revisions,
         Join(r, s, v)
  PROVE  PoolInv'
  <1>0. PICK c \in Entries : c = connections[s]
    BY DEF PoolInv, Join, Current, TypeOK
  <1> DEFINE x == [stage |-> "waiting", entry |-> c, source |-> s, revision |-> v]
  <1>1. c = connections[s] /\ Mapped(c) /\ entry[c].source = s /\ entry[c].revision = v
    BY <1>0 DEF PoolInv, Join, Current, Mapped, SlotsMatchSources
  <1>2. /\ lease[r].stage = "idle"
        /\ x \in Leases
        /\ lease' = [lease EXCEPT ![r] = x]
        /\ connections' = connections /\ ctxDone' = ctxDone
    BY <1>1 DEF Join, Leases, Stages
  <1>3. \A q \in Requests : lease'[q] = IF q = r THEN x ELSE lease[q]
    BY <1>2 DEF PoolInv, TypeOK
  <1>4. \A d \in Entries :
          entry'[d] = IF d = c THEN [entry[c] EXCEPT !.refs = @ + 1] ELSE entry[d]
    BY <1>1 DEF PoolInv, TypeOK, Join
  <1>5. /\ entry[c] \in EntryRecords
        /\ entry'[c].source = entry[c].source /\ entry'[c].revision = entry[c].revision
        /\ entry'[c].retired = entry[c].retired /\ entry'[c].conn = entry[c].conn
        /\ entry'[c].closes = entry[c].closes /\ entry'[c].refs = entry[c].refs + 1
        /\ entry'[c] \in EntryRecords
    BY <1>1, <1>4 DEF PoolInv, TypeOK, EntryRecords
  <1>6. \A d \in Entries :
          /\ entry'[d].source = entry[d].source /\ entry'[d].revision = entry[d].revision
          /\ entry'[d].retired = entry[d].retired /\ entry'[d].conn = entry[d].conn
          /\ entry'[d].closes = entry[d].closes
    BY <1>4, <1>5
  <1>7. TypeOK'
    <2>1. entry' \in [Entries -> EntryRecords]
      BY <1>1, <1>5 DEF PoolInv, TypeOK, Join
    <2>2. lease' \in [Requests -> Leases]
      BY <1>2 DEF PoolInv, TypeOK
    <2> QED
      BY <2>1, <2>2, <1>2 DEF PoolInv, TypeOK
  <1>8. RefsMatchUsers'
    <2>1. /\ Cardinality(Users(c)') = Cardinality(Users(c)) + 1
          /\ \A d \in Entries \ {c} : Users(d)' = Users(d)
      BY <1>1, <1>2, GainUser DEF PoolInv
    <2>2. \A d \in Entries : entry[d].refs = Cardinality(Users(d))
      BY DEF PoolInv, RefsMatchUsers
    <2>3. entry'[c].refs = Cardinality(Users(c)')
      BY <2>1, <2>2, <1>1, <1>5
    <2>4. \A d \in Entries \ {c} : entry'[d].refs = Cardinality(Users(d)')
      BY <2>1, <2>2, <1>4
    <2> QED
      BY <2>3, <2>4 DEF RefsMatchUsers
  <1>9. ServesItsRevision'
    BY <1>1, <1>3, <1>6 DEF PoolInv, ServesItsRevision, TypeOK, Leases
  <1>10. SlotsMatchSources' /\ RetiredIffUnmapped'
    BY <1>2, <1>6 DEF PoolInv, SlotsMatchSources, RetiredIffUnmapped, Mapped, TypeOK, EntryRecords
  <1>11. StageMatchesConn' /\ OneOpener'
    <2>1. \A q \in Requests :
            lease'[q].stage \in {"opening", "using"} =>
              lease'[q] = lease[q] /\ lease[q].entry \in Entries
      BY <1>3 DEF PoolInv, TypeOK, Leases
    <2> QED
      BY <2>1, <1>6 DEF PoolInv, StageMatchesConn, OneOpener
  <1>12. ClosingDiscipline'
    <2>1. ~entry[c].retired
      BY <1>1 DEF PoolInv, RetiredIffUnmapped
    <2> QED
      BY <2>1, <1>4, <1>6 DEF PoolInv, ClosingDiscipline
  <1> QED
    BY <1>7, <1>8, <1>9, <1>10, <1>11, <1>12 DEF PoolInv

\* Replacing the entry of a source: the new entry has its opener for only user,
\* the old one is retired.
LEMMA StartOpenStep ==
  ASSUME PoolInv, NEW r \in Requests, NEW s \in Sources, NEW v \in Revisions,
         StartOpen(r, s, v)
  PROVE  PoolInv'
  <1> DEFINE old == connections[s]
  <1>0. PICK e \in Entries :
          /\ Collectable(e)
          /\ entry' = [x \in Entries |->
                         CASE x = e -> Opening(s, v)
                           [] x = connections[s] -> Retired(entry[x])
                           [] OTHER -> entry[x]]
          /\ connections' = [connections EXCEPT ![s] = e]
          /\ lease' = [lease EXCEPT ![r] = [stage |-> "opening", entry |-> e,
                                            source |-> s, revision |-> v]]
    BY DEF StartOpen
  <1> DEFINE x == [stage |-> "opening", entry |-> e, source |-> s, revision |-> v]
  <1>1. /\ ~Mapped(e) /\ entry[e].refs = 0 /\ e # old /\ e # NoEntry
        /\ lease[r].stage = "idle"
        /\ ctxDone' = ctxDone
        /\ x \in Leases /\ x.stage = "opening" /\ x.entry = e
        /\ \A t \in Sources : connections'[t] = IF t = s THEN e ELSE connections[t]
    BY <1>0, NoEntryIsNoEntry
       DEF StartOpen, Collectable, Mapped, Leases, Stages, PoolInv, TypeOK
  <1>2. \A q \in Requests : lease'[q] = IF q = r THEN x ELSE lease[q]
    BY <1>0 DEF PoolInv, TypeOK
  <1>3. \A d \in Entries : entry[d] \in EntryRecords
    BY DEF PoolInv, TypeOK
  <1>4. /\ entry'[e].source = s /\ entry'[e].revision = v /\ entry'[e].refs = 1
        /\ ~entry'[e].retired /\ entry'[e].conn = "opening" /\ entry'[e].closes = 0
        /\ entry'[e] \in EntryRecords
    <2>1. entry'[e] = Opening(s, v)
      BY <1>0, <1>1
    <2> QED
      BY <2>1 DEF Opening, EntryRecords
  <1>5. \A d \in Entries \ {e} : d # old => entry'[d] = entry[d]
    BY <1>0
  <1>6. ASSUME old \in Entries
        PROVE  /\ entry'[old].source = entry[old].source
               /\ entry'[old].revision = entry[old].revision
               /\ entry'[old].refs = entry[old].refs
               /\ entry'[old].conn = entry[old].conn
               /\ entry'[old].retired
               /\ entry'[old].closes = IF entry[old].refs = 0 /\ entry[old].conn = "open"
                                         THEN entry[old].closes + 1 ELSE entry[old].closes
               /\ entry'[old] \in EntryRecords
    BY <1>0, <1>1, <1>3, <1>6, RetireOne
  <1>7. \A d \in Entries \ {e} :
          /\ entry'[d].source = entry[d].source /\ entry'[d].revision = entry[d].revision
          /\ entry'[d].refs = entry[d].refs /\ entry'[d].conn = entry[d].conn
    BY <1>5, <1>6
  <1>8. Users(e) = {}
    BY <1>1, NoRefsNoUsers DEF PoolInv
  <1>9. \A q \in Requests :
          lease'[q].stage # "idle" /\ q # r =>
            lease'[q] = lease[q] /\ lease[q].entry \in Entries \ {e}
    BY <1>2, <1>8 DEF Users, PoolInv, TypeOK, Leases
  <1>10. TypeOK'
    <2>1. entry' \in [Entries -> EntryRecords]
      <3>1. \A d \in Entries : entry'[d] \in EntryRecords
        BY <1>3, <1>4, <1>5, <1>6
      <3> QED
        BY <3>1, <1>0
    <2>2. lease' \in [Requests -> Leases]
      BY <1>0, <1>1 DEF PoolInv, TypeOK
    <2>3. connections' \in [Sources -> Entries \union {NoEntry}]
      BY <1>0 DEF PoolInv, TypeOK
    <2> QED
      BY <1>1, <2>1, <2>2, <2>3 DEF PoolInv, TypeOK
  <1>11. RefsMatchUsers'
    <2>1. /\ Cardinality(Users(e)') = Cardinality(Users(e)) + 1
          /\ \A d \in Entries \ {e} : Users(d)' = Users(d)
      BY <1>0, <1>1, GainUser DEF PoolInv
    <2>2. Cardinality(Users(e)') = 1
      BY <2>1, <1>8, FS_EmptySet
    <2>3. \A d \in Entries : entry[d].refs = Cardinality(Users(d))
      BY DEF PoolInv, RefsMatchUsers
    <2> QED
      BY <2>1, <2>2, <2>3, <1>4, <1>7 DEF RefsMatchUsers
  <1>12. ServesItsRevision'
    <2>1. entry'[lease'[r].entry].source = lease'[r].source
          /\ entry'[lease'[r].entry].revision = lease'[r].revision
      BY <1>2, <1>4
    <2> QED
      BY <2>1, <1>7, <1>9 DEF PoolInv, ServesItsRevision
  <1>13. SlotsMatchSources'
    <2>1. \A t \in Sources \ {s} :
            connections'[t] # NoEntry => connections'[t] = connections[t]
              /\ connections[t] \in Entries \ {e}
      BY <1>1 DEF Mapped, PoolInv, TypeOK
    <2> QED
      BY <2>1, <1>1, <1>4, <1>7 DEF PoolInv, SlotsMatchSources
  <1>14. RetiredIffUnmapped'
    <2>1. \A t \in Sources : connections[t] \in Entries => entry[connections[t]].source = t
      BY NoEntryIsNoEntry DEF PoolInv, SlotsMatchSources
    <2>2. \A d \in Entries : Mapped(d)' <=> d = e \/ (Mapped(d) /\ d # old)
      BY <2>1, <1>1 DEF Mapped
    <2>3. \A d \in Entries \ {e} : entry'[d].retired <=> entry[d].retired \/ d = old
      BY <1>3, <1>5, <1>6 DEF EntryRecords
    <2>4. \A d \in Entries : Mapped(d)' <=> ~entry'[d].retired
      BY <2>2, <2>3, <1>4 DEF PoolInv, RetiredIffUnmapped
    <2> QED
      BY <2>4, <1>13, SlotsServe DEF RetiredIffUnmapped
  <1>15. StageMatchesConn' /\ OneOpener'
    <2>1. lease'[r].stage = "opening" /\ lease'[r].entry = e
      BY <1>2
    <2>2. \A q \in Requests : q # r /\ lease'[q].stage # "idle" => lease'[q].entry # e
      BY <1>9
    <2> QED
      BY <2>1, <2>2, <1>4, <1>7, <1>9 DEF PoolInv, StageMatchesConn, OneOpener
  <1>16. ClosingDiscipline'
    <2>1. old \in Entries => ~entry[old].retired /\ entry[old].closes = 0
      BY <1>3 DEF PoolInv, RetiredIffUnmapped, Mapped, ClosingDiscipline, EntryRecords
    <2>2. old \in Entries =>
            /\ entry'[old].closes > 0 => entry'[old].retired /\ entry'[old].refs = 0
            /\ entry'[old].retired /\ entry'[old].refs = 0 /\ entry'[old].conn = "open" =>
                 entry'[old].closes > 0
            /\ entry'[old].closes <= 1
      BY <2>1, <1>6
    <2> QED
      BY <2>2, <1>4, <1>5 DEF PoolInv, ClosingDiscipline
  <1> QED
    BY <1>10, <1>11, <1>12, <1>13, <1>14, <1>15, <1>16 DEF PoolInv

\* Opening ends well: no reference changes, only the opener moves.
LEMMA OpenSucceedsStep ==
  ASSUME PoolInv, NEW r \in Requests, OpenSucceeds(r)
  PROVE  PoolInv'
  <1>0. PICK e \in Entries : e = lease[r].entry
    BY DEF PoolInv, TypeOK, Leases
  <1>1. /\ lease[r].stage = "opening" /\ entry[e] \in EntryRecords
        /\ lease' = [lease EXCEPT ![r].stage = "using"]
        /\ entry' = [entry EXCEPT ![e].conn = "open"]
        /\ connections' = connections /\ ctxDone' = ctxDone
    BY <1>0 DEF OpenSucceeds, PoolInv, TypeOK
  <1>2. /\ \A d : Users(d)' = Users(d)
        /\ \A q \in Requests : /\ lease'[q].entry = lease[q].entry
                               /\ lease'[q].source = lease[q].source
                               /\ lease'[q].revision = lease[q].revision
        /\ \A q \in Requests \ {r} : lease'[q] = lease[q]
        /\ lease'[r].stage = "using"
        /\ lease' \in [Requests -> Leases]
    BY <1>1, SameUsers DEF PoolInv, Stages
  <1>3. /\ \A d \in Entries \ {e} : entry'[d] = entry[d]
        /\ entry'[e] = [entry[e] EXCEPT !.conn = "open"]
        /\ entry' \in [Entries -> EntryRecords]
    BY <1>1 DEF PoolInv, TypeOK, EntryRecords
  <1>4. /\ entry'[e].conn = "open"
        /\ \A d \in Entries :
             /\ entry'[d].source = entry[d].source /\ entry'[d].revision = entry[d].revision
             /\ entry'[d].refs = entry[d].refs /\ entry'[d].retired = entry[d].retired
             /\ entry'[d].closes = entry[d].closes
    BY <1>1, <1>3 DEF EntryRecords
  <1>5. TypeOK'
    BY <1>1, <1>2, <1>3 DEF PoolInv, TypeOK
  <1>6. RefsMatchUsers'
    BY <1>2, <1>4 DEF PoolInv, RefsMatchUsers
  <1>7. ServesItsRevision'
    <2>1. \A q \in Requests : lease[q].entry \in Entries
                              /\ (lease'[q].stage # "idle" => lease[q].stage # "idle")
      BY <1>1, <1>2 DEF PoolInv, TypeOK, Leases
    <2> QED
      BY <2>1, <1>2, <1>4 DEF PoolInv, ServesItsRevision
  <1>8. SlotsMatchSources' /\ RetiredIffUnmapped'
    <2>1. SlotsMatchSources'
      BY <1>1, <1>4 DEF PoolInv, TypeOK, SlotsMatchSources
    <2> QED
      BY <2>1, <1>1, <1>4, SlotsServe DEF PoolInv, RetiredIffUnmapped, Mapped
  <1>9. StageMatchesConn' /\ OneOpener'
    <2>1. \A q \in Requests \ {r} :
            lease[q].stage = "opening" => lease[q].entry \in Entries \ {e}
      BY <1>0, <1>1 DEF PoolInv, OneOpener, TypeOK, Leases
    <2>2. \A q \in Requests : lease[q].entry \in Entries
      BY DEF PoolInv, TypeOK, Leases
    <2>5. ASSUME NEW q \in Requests
          PROVE  /\ lease'[q].stage = "opening" => entry'[lease'[q].entry].conn = "opening"
                 /\ lease'[q].stage = "using" => entry'[lease'[q].entry].conn = "open"
      <3>1. CASE q = r
        BY <3>1, <1>0, <1>2, <1>4
      <3>2. CASE q # r /\ lease[q].entry = e
        BY <3>2, <2>1, <1>2, <1>4
      <3>3. CASE q # r /\ lease[q].entry # e
        <4>1. lease'[q] = lease[q] /\ entry'[lease[q].entry] = entry[lease[q].entry]
          BY <3>3, <2>2, <1>2, <1>3
        <4> QED
          BY <4>1 DEF PoolInv, StageMatchesConn
      <3> QED
        BY <3>1, <3>2, <3>3
    <2>3. StageMatchesConn'
      BY <2>5 DEF StageMatchesConn
    <2>4. OneOpener'
      BY <1>2 DEF PoolInv, OneOpener
    <2> QED
      BY <2>3, <2>4
  <1>10. ClosingDiscipline'
    <2>1. entry[e].refs # 0
      BY <1>0, <1>1, UserKeepsRef DEF PoolInv
    <2> QED
      BY <2>1, <1>3, <1>4 DEF PoolInv, ClosingDiscipline
  <1> QED
    BY <1>5, <1>6, <1>7, <1>8, <1>9, <1>10 DEF PoolInv

\* Opening fails: the entry leaves the map if it is still the current one, and
\* has no connection to close.
LEMMA OpenFailsStep ==
  ASSUME PoolInv, NEW r \in Requests, OpenFails(r)
  PROVE  PoolInv'
  <1>0. PICK e \in Entries : e = lease[r].entry
    BY DEF PoolInv, TypeOK, Leases
  <1>1. /\ lease[r].stage = "opening" /\ entry[e] \in EntryRecords
        /\ lease[r].source = entry[e].source /\ entry[e].source \in Sources
        /\ lease' = [lease EXCEPT ![r].stage = "leaving"]
        /\ entry' = [entry EXCEPT ![e].conn = "failed",
                                  ![e].retired = @ \/ connections[lease[r].source] = e]
        /\ connections' = Unmap(e) /\ ctxDone' = ctxDone
    BY <1>0 DEF OpenFails, PoolInv, TypeOK, ServesItsRevision, EntryRecords
  <1>2. /\ \A d : Users(d)' = Users(d)
        /\ \A q \in Requests : /\ lease'[q].entry = lease[q].entry
                               /\ lease'[q].source = lease[q].source
                               /\ lease'[q].revision = lease[q].revision
        /\ \A q \in Requests \ {r} : lease'[q] = lease[q]
        /\ lease'[r].stage = "leaving"
        /\ lease' \in [Requests -> Leases]
    BY <1>1, SameUsers DEF PoolInv, Stages
  <1> DEFINE gone == entry[e].retired \/ connections[lease[r].source] = e
  <1>3. /\ \A d \in Entries \ {e} : entry'[d] = entry[d]
        /\ entry'[e] = [entry[e] EXCEPT !.conn = "failed", !.retired = gone]
        /\ gone \in BOOLEAN
    BY <1>1 DEF PoolInv, TypeOK, EntryRecords
  <1>4. /\ entry'[e].conn = "failed" /\ entry'[e].retired = gone
        /\ entry'[e] \in EntryRecords
        /\ \A d \in Entries :
             /\ entry'[d].source = entry[d].source /\ entry'[d].revision = entry[d].revision
             /\ entry'[d].refs = entry[d].refs /\ entry'[d].closes = entry[d].closes
    <2>2. entry[e] \in EntryRecords
      BY <1>1
    <2> HIDE DEF gone
    <2>1. /\ entry'[e].conn = "failed" /\ entry'[e].retired = gone
          /\ entry'[e] \in EntryRecords
          /\ entry'[e].source = entry[e].source /\ entry'[e].revision = entry[e].revision
          /\ entry'[e].refs = entry[e].refs /\ entry'[e].closes = entry[e].closes
      BY <2>2, <1>3 DEF EntryRecords
    <2> QED
      BY <2>1, <1>3
  <1>5. TypeOK'
    <2>1. entry' \in [Entries -> EntryRecords]
      <3>1. \A d \in Entries : entry'[d] \in EntryRecords
        BY <1>3, <1>4 DEF PoolInv, TypeOK
      <3> QED
        BY <3>1, <1>1 DEF PoolInv, TypeOK
    <2>2. connections' \in [Sources -> Entries \union {NoEntry}]
      BY <1>1 DEF Unmap, PoolInv, TypeOK
    <2> QED
      BY <1>1, <1>2, <2>1, <2>2 DEF PoolInv, TypeOK
  <1>6. RefsMatchUsers'
    BY <1>2, <1>4 DEF PoolInv, RefsMatchUsers
  <1>7. ServesItsRevision'
    <2>1. \A q \in Requests : lease[q].entry \in Entries
                              /\ (lease'[q].stage # "idle" => lease[q].stage # "idle")
      BY <1>1, <1>2 DEF PoolInv, TypeOK, Leases
    <2> QED
      BY <2>1, <1>2, <1>4 DEF PoolInv, ServesItsRevision
  <1>8. SlotsMatchSources' /\ RetiredIffUnmapped'
    <2>1. \A t \in Sources :
            connections'[t] = IF t = entry[e].source /\ connections[t] = e
                                THEN NoEntry ELSE connections[t]
      BY <1>1 DEF Unmap
    <2>2. SlotsMatchSources'
      BY <2>1, <1>4 DEF PoolInv, TypeOK, SlotsMatchSources
    <2>3. \A t \in Sources : connections[t] = e => t = entry[e].source
      BY NoEntryIsNoEntry DEF PoolInv, SlotsMatchSources
    <2>4. ~Mapped(e)'
      BY <2>1, <2>3, NoEntryIsNoEntry DEF Mapped
    <2>5. \A d \in Entries \ {e} : Mapped(d)' <=> Mapped(d)
      BY <2>1, NoEntryIsNoEntry DEF Mapped
    <2>6. gone
      BY <1>1, <2>3 DEF PoolInv, RetiredIffUnmapped, Mapped
    <2>7. \A d \in Entries : Mapped(d)' <=> ~entry'[d].retired
      BY <2>4, <2>5, <2>6, <1>3, <1>4 DEF PoolInv, RetiredIffUnmapped
    <2> QED
      BY <2>2, <2>7, SlotsServe DEF RetiredIffUnmapped
  <1>9. StageMatchesConn' /\ OneOpener'
    <2>1. \A q \in Requests \ {r} :
            lease[q].stage \in {"opening", "using"} => lease[q].entry \in Entries \ {e}
      BY <1>0, <1>1 DEF PoolInv, OneOpener, StageMatchesConn, TypeOK, Leases
    <2>2. StageMatchesConn'
      BY <2>1, <1>2, <1>3 DEF PoolInv, StageMatchesConn
    <2>3. OneOpener'
      BY <1>2 DEF PoolInv, OneOpener
    <2> QED
      BY <2>2, <2>3
  <1>10. ClosingDiscipline'
    <2>1. entry[e].refs # 0
      BY <1>0, <1>1, UserKeepsRef DEF PoolInv
    <2> QED
      BY <2>1, <1>3, <1>4 DEF PoolInv, ClosingDiscipline
  <1> QED
    BY <1>5, <1>6, <1>7, <1>8, <1>9, <1>10 DEF PoolInv

\* A waiter goes on, with the connection if there is one: no entry changes.
LEMMA WaiterStep ==
  ASSUME PoolInv, NEW r \in Requests, Ready(r) \/ GiveUpWaiting(r)
  PROVE  PoolInv'
  <1>1. PICK g \in {"using", "leaving"} :
          /\ lease' = [lease EXCEPT ![r].stage = g]
          /\ g = "using" => entry[lease[r].entry].conn = "open"
    BY DEF Ready, GiveUpWaiting
  <1>2. lease[r].stage = "waiting" /\ UNCHANGED <<connections, entry, ctxDone>>
    BY DEF Ready, GiveUpWaiting
  <1>3. /\ \A d : Users(d)' = Users(d)
        /\ \A q \in Requests : /\ lease'[q].entry = lease[q].entry
                               /\ lease'[q].source = lease[q].source
                               /\ lease'[q].revision = lease[q].revision
        /\ \A q \in Requests \ {r} : lease'[q] = lease[q]
        /\ lease'[r].stage = g
        /\ lease' \in [Requests -> Leases]
    BY <1>1, <1>2, SameUsers DEF PoolInv, Stages
  <1>4. TypeOK' /\ RefsMatchUsers'
    BY <1>2, <1>3 DEF PoolInv, TypeOK, RefsMatchUsers
  <1>5. ServesItsRevision'
    BY <1>2, <1>3 DEF PoolInv, ServesItsRevision
  <1>6. SlotsMatchSources' /\ RetiredIffUnmapped' /\ ClosingDiscipline'
    BY <1>2 DEF PoolInv, SlotsMatchSources, RetiredIffUnmapped, Mapped, ClosingDiscipline
  <1>7. StageMatchesConn' /\ OneOpener'
    BY <1>1, <1>2, <1>3 DEF PoolInv, StageMatchesConn, OneOpener
  <1> QED
    BY <1>4, <1>5, <1>6, <1>7 DEF PoolInv

\* Dropping a reference closes the connection exactly when it was the last one
\* of a retired entry.
LEMMA ReleaseStep ==
  ASSUME PoolInv, NEW r \in Requests, Release(r)
  PROVE  PoolInv'
  <1>0. PICK e \in Entries : e = lease[r].entry
    BY DEF PoolInv, TypeOK, Leases
  <1> DEFINE n == IF entry[e].refs = 1 /\ entry[e].retired /\ entry[e].conn = "open"
                    THEN entry[e].closes + 1 ELSE entry[e].closes
  <1>1. /\ lease[r].stage \in {"using", "leaving"} /\ entry[e] \in EntryRecords
        /\ lease' = [lease EXCEPT ![r].stage = "idle"]
        /\ connections' = connections /\ ctxDone' = ctxDone
    BY <1>0 DEF Release, PoolInv, TypeOK
  <1>2. /\ entry[e].refs \in Nat \ {0} /\ entry[e].refs - 1 \in Nat
        /\ entry[e].closes = 0
        /\ n \in Nat
    <2>1. entry[e].refs \in Nat \ {0}
      BY <1>0, <1>1, UserKeepsRef DEF PoolInv
    <2>2. entry[e].closes \in Nat
      BY <1>1 DEF EntryRecords
    <2>3. entry[e].closes = 0
      BY <2>1, <2>2 DEF PoolInv, ClosingDiscipline
    <2> QED
      BY <2>1, <2>3
  <1>3. /\ \A d \in Entries \ {e} : entry'[d] = entry[d]
        /\ entry'[e] = [entry[e] EXCEPT !.refs = entry[e].refs - 1, !.closes = n]
    BY <1>0, <1>1 DEF Release, PoolInv, TypeOK, EntryRecords
  <1>4. /\ entry'[e].refs = entry[e].refs - 1 /\ entry'[e].closes = n
        /\ entry'[e] \in EntryRecords
        /\ entry'[e].source = entry[e].source /\ entry'[e].revision = entry[e].revision
        /\ entry'[e].retired = entry[e].retired /\ entry'[e].conn = entry[e].conn
    <2> HIDE DEF n
    <2> QED
      BY <1>1, <1>2, <1>3 DEF EntryRecords
  <1>5. \A d \in Entries :
          /\ entry'[d].source = entry[d].source /\ entry'[d].revision = entry[d].revision
          /\ entry'[d].retired = entry[d].retired /\ entry'[d].conn = entry[d].conn
    BY <1>3, <1>4
  <1>6. \A q \in Requests :
          lease'[q].stage # "idle" => lease'[q] = lease[q] /\ lease[q].entry \in Entries
    BY <1>1 DEF PoolInv, TypeOK, Leases
  <1>7. TypeOK'
    <2>1. entry' \in [Entries -> EntryRecords]
      <3>1. \A d \in Entries : entry'[d] \in EntryRecords
        BY <1>3, <1>4 DEF PoolInv, TypeOK
      <3> QED
        BY <3>1, <1>0 DEF Release, PoolInv, TypeOK
    <2>2. lease' \in [Requests -> Leases]
      BY <1>1 DEF PoolInv, TypeOK, Leases, Stages
    <2> QED
      BY <2>1, <2>2, <1>1 DEF PoolInv, TypeOK
  <1>8. RefsMatchUsers'
    <2>1. /\ Cardinality(Users(e)') = Cardinality(Users(e)) - 1
          /\ \A d \in Entries \ {e} : Users(d)' = Users(d)
      BY <1>0, <1>1, LoseUser DEF PoolInv
    <2>2. \A d \in Entries : entry[d].refs = Cardinality(Users(d))
      BY DEF PoolInv, RefsMatchUsers
    <2>3. entry'[e].refs = Cardinality(Users(e)')
      BY <2>1, <2>2, <1>4
    <2>4. \A d \in Entries \ {e} : entry'[d].refs = Cardinality(Users(d)')
      BY <2>1, <2>2, <1>3
    <2> QED
      BY <2>3, <2>4 DEF RefsMatchUsers
  <1>9. ServesItsRevision'
    BY <1>5, <1>6 DEF PoolInv, ServesItsRevision
  <1>10. SlotsMatchSources' /\ RetiredIffUnmapped'
    <2>1. SlotsMatchSources'
      BY <1>1, <1>5 DEF PoolInv, TypeOK, SlotsMatchSources
    <2> QED
      BY <2>1, <1>1, <1>5, SlotsServe DEF PoolInv, RetiredIffUnmapped, Mapped
  <1>11. StageMatchesConn' /\ OneOpener'
    BY <1>5, <1>6 DEF PoolInv, StageMatchesConn, OneOpener
  <1>12. ClosingDiscipline'
    <2>1. /\ entry'[e].closes > 0 => entry'[e].retired /\ entry'[e].refs = 0
          /\ entry'[e].retired /\ entry'[e].refs = 0 /\ entry'[e].conn = "open" =>
               entry'[e].closes > 0
          /\ entry'[e].closes <= 1
      BY <1>2, <1>4
    <2> QED
      BY <2>1, <1>3 DEF PoolInv, ClosingDiscipline
  <1> QED
    BY <1>7, <1>8, <1>9, <1>10, <1>11, <1>12 DEF PoolInv

\* Invalidation retires the current entry and empties the slot.
LEMMA InvalidateStep ==
  ASSUME PoolInv, NEW s \in Sources, Invalidate(s)
  PROVE  PoolInv'
  <1>0. PICK old \in Entries : old = connections[s]
    BY DEF Invalidate, PoolInv, TypeOK
  <1>1. /\ entry[old] \in EntryRecords
        /\ lease' = lease /\ ctxDone' = ctxDone
        /\ \A t \in Sources : connections'[t] = IF t = s THEN NoEntry ELSE connections[t]
        /\ entry' = [e \in Entries |-> IF e = connections[s] THEN Retired(entry[e])
                                                             ELSE entry[e]]
        /\ connections' \in [Sources -> Entries \union {NoEntry}]
    BY DEF Invalidate, Forget, PoolInv, TypeOK
  <1>2. /\ \A d \in Entries \ {old} : entry'[d] = entry[d]
        /\ entry'[old] = Retired(entry[old])
    BY <1>0, <1>1
  <1>3. /\ entry'[old].source = entry[old].source
        /\ entry'[old].revision = entry[old].revision
        /\ entry'[old].refs = entry[old].refs
        /\ entry'[old].conn = entry[old].conn
        /\ entry'[old].retired
        /\ entry'[old].closes = IF entry[old].refs = 0 /\ entry[old].conn = "open"
                                  THEN entry[old].closes + 1 ELSE entry[old].closes
        /\ entry'[old] \in EntryRecords
    BY <1>1, <1>2, RetireOne
  <1>4. \A d \in Entries :
          /\ entry'[d].source = entry[d].source /\ entry'[d].revision = entry[d].revision
          /\ entry'[d].refs = entry[d].refs /\ entry'[d].conn = entry[d].conn
    BY <1>2, <1>3
  <1>5. TypeOK'
    <2>1. entry' \in [Entries -> EntryRecords]
      <3>1. \A d \in Entries : entry'[d] \in EntryRecords
        BY <1>2, <1>3 DEF PoolInv, TypeOK
      <3> QED
        BY <3>1, <1>1
    <2> QED
      BY <2>1, <1>1 DEF PoolInv, TypeOK
  <1>6. RefsMatchUsers'
    <2>1. \A d : Users(d)' = Users(d)
      BY <1>1 DEF Users
    <2> QED
      BY <2>1, <1>4 DEF PoolInv, RefsMatchUsers
  <1>7. ServesItsRevision' /\ StageMatchesConn' /\ OneOpener'
    <2>1. \A q \in Requests : lease'[q] = lease[q] /\ lease[q].entry \in Entries
      BY <1>1 DEF PoolInv, TypeOK, Leases
    <2> QED
      BY <2>1, <1>4 DEF PoolInv, ServesItsRevision, StageMatchesConn, OneOpener
  <1>8. SlotsMatchSources'
    BY <1>1, <1>4 DEF PoolInv, TypeOK, SlotsMatchSources
  <1>9. RetiredIffUnmapped'
    <2>1. \A t \in Sources : connections[t] \in Entries => entry[connections[t]].source = t
      BY NoEntryIsNoEntry DEF PoolInv, SlotsMatchSources
    <2>2. \A d \in Entries : Mapped(d)' <=> Mapped(d) /\ d # old
      BY <2>1, <1>0, <1>1, NoEntryIsNoEntry DEF Mapped
    <2>3. \A d \in Entries : Mapped(d)' <=> ~entry'[d].retired
      BY <2>2, <1>2, <1>3 DEF PoolInv, RetiredIffUnmapped
    <2> QED
      BY <2>3, <1>8, SlotsServe DEF RetiredIffUnmapped
  <1>10. ClosingDiscipline'
    <2>1. ~entry[old].retired /\ entry[old].closes = 0
      BY <1>0, <1>1 DEF PoolInv, RetiredIffUnmapped, Mapped, ClosingDiscipline, EntryRecords
    <2>2. /\ entry'[old].closes > 0 => entry'[old].retired /\ entry'[old].refs = 0
          /\ entry'[old].retired /\ entry'[old].refs = 0 /\ entry'[old].conn = "open" =>
               entry'[old].closes > 0
          /\ entry'[old].closes <= 1
      BY <2>1, <1>3
    <2> QED
      BY <2>2, <1>2 DEF PoolInv, ClosingDiscipline
  <1> QED
    BY <1>5, <1>6, <1>7, <1>8, <1>9, <1>10 DEF PoolInv

\* Contexts end and begin without touching the pool.
LEMMA UnchangedPool ==
  ASSUME PoolInv, UNCHANGED <<connections, entry, lease>>, ctxDone' \subseteq Requests
  PROVE  PoolInv'
  BY DEF PoolInv, TypeOK, RefsMatchUsers, Users, ServesItsRevision, SlotsMatchSources,
         RetiredIffUnmapped, Mapped, StageMatchesConn, OneOpener, ClosingDiscipline

LEMMA NextPool == PoolInv /\ [Next]_poolVars => PoolInv'
  <1> SUFFICES ASSUME PoolInv, [Next]_poolVars PROVE PoolInv'
    OBVIOUS
  <1>1. ASSUME NEW r \in Requests, NEW s \in Sources, NEW v \in Revisions,
               Join(r, s, v) \/ StartOpen(r, s, v)
        PROVE  PoolInv'
    BY <1>1, JoinStep, StartOpenStep
  <1>2. ASSUME NEW r \in Requests, OpenSucceeds(r) \/ OpenFails(r) PROVE PoolInv'
    BY <1>2, OpenSucceedsStep, OpenFailsStep
  <1>3. ASSUME NEW r \in Requests, Ready(r) \/ GiveUpWaiting(r) PROVE PoolInv'
    BY <1>3, WaiterStep
  <1>4. ASSUME NEW r \in Requests, Release(r) PROVE PoolInv'
    BY <1>4, ReleaseStep
  <1>5. ASSUME NEW r \in Requests, CancelContext(r) \/ FreshContext(r) PROVE PoolInv'
    <2>1. UNCHANGED <<connections, entry, lease>> /\ ctxDone' \subseteq Requests
      BY <1>5 DEF CancelContext, FreshContext, PoolInv, TypeOK
    <2> QED
      BY <2>1, UnchangedPool
  <1>6. ASSUME NEW s \in Sources, Invalidate(s) PROVE PoolInv'
    BY <1>6, InvalidateStep
  <1>7. CASE UNCHANGED poolVars
    <2>1. UNCHANGED <<connections, entry, lease>> /\ ctxDone' \subseteq Requests
      BY <1>7 DEF poolVars, PoolInv, TypeOK
    <2> QED
      BY <2>1, UnchangedPool
  <1> QED
    BY <1>1, <1>2, <1>3, <1>4, <1>5, <1>6, <1>7 DEF Next

LEMMA PoolInvariant == Spec => []PoolInv
  BY InitPool, NextPool, PTL DEF Spec

(***************************************************************************)
(* What the pool promises                                                  *)
(***************************************************************************)

\* Every entry counts exactly the callers between acquire and release on it,
\* whatever opening failed, was abandoned or was overtaken by an invalidation.
THEOREM ExactReferences == Spec => [](TypeOK /\ RefsMatchUsers)
  <1>1. PoolInv => TypeOK /\ RefsMatchUsers
    BY DEF PoolInv
  <1> QED
    BY <1>1, PoolInvariant, PTL

\* No caller is left with a closed connection: closing takes the last reference.
THEOREM UsedWhileOpen == Spec => []NoUseAfterClose
  <1>1. PoolInv => NoUseAfterClose
    <2> SUFFICES ASSUME PoolInv, NEW r \in Requests, lease[r].stage = "using"
                 PROVE  entry[lease[r].entry].conn = "open" /\ entry[lease[r].entry].closes = 0
      BY DEF NoUseAfterClose
    <2>1. entry[lease[r].entry].conn = "open"
      BY DEF PoolInv, StageMatchesConn
    <2>2. entry[lease[r].entry].refs # 0
      BY UserKeepsRef DEF PoolInv
    <2>3. lease[r].entry \in Entries /\ entry[lease[r].entry].closes \in Nat
      BY DEF PoolInv, TypeOK, Leases, EntryRecords
    <2> QED
      BY <2>1, <2>2, <2>3 DEF PoolInv, ClosingDiscipline
  <1> QED
    BY <1>1, PoolInvariant, PTL

\* A connection that nobody can reach any more has been closed, and once only.
THEOREM ClosedExactlyOnce == Spec => []ClosedOnce
  <1>1. PoolInv => ClosedOnce
    BY DEF PoolInv, ClosedOnce, Collectable, RetiredIffUnmapped,
           ClosingDiscipline
  <1> QED
    BY <1>1, PoolInvariant, PTL

\* The map holds exactly the entries that may still be handed out, each under
\* the source it was opened for.
THEOREM RetiredLeaveTheMap == Spec => []RetiredIffUnmapped
  <1>1. PoolInv => RetiredIffUnmapped
    BY DEF PoolInv
  <1> QED
    BY <1>1, PoolInvariant, PTL

\* A caller works on a connection of its own source and execution revision.
THEOREM RevisionsServed == Spec => []ServesItsRevision
  <1>1. PoolInv => ServesItsRevision
    BY DEF PoolInv
  <1> QED
    BY <1>1, PoolInvariant, PTL

=============================================================================

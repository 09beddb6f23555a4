--------------------------- MODULE ConnectionPool ---------------------------
(***************************************************************************)
(* The engine's cache of adapter connections: acquire, release and         *)
(* InvalidateSource of internal/engine/engine.go.                          *)
(*                                                                         *)
(* One entry per source is current.  The first caller opens it outside     *)
(* Engine.mu while later callers of the same execution revision hold a     *)
(* reference and wait on its ready channel.  An entry that is replaced,    *)
(* invalidated or failed to open is retired: it leaves the map at once and *)
(* is closed by whoever drops its last reference.                          *)
(***************************************************************************)
EXTENDS Integers, FiniteSets

CONSTANTS
  Requests,   \* request goroutines
  Sources,    \* data sources
  Revisions,  \* execution revisions a source snapshot may carry
  Entries,    \* identities of entry objects, reused once collectable
  NoEntry     \* absence of a map entry

ASSUME RequestsAreFinite == IsFiniteSet(Requests)
ASSUME NoEntryIsNoEntry == NoEntry \notin Entries
ASSUME EntriesExist == Entries # {}

VARIABLES
  connections,  \* Engine.connections
  entry,        \* the entry objects
  lease,        \* where each request is in acquire / release, and on which entry
  ctxDone       \* requests whose context is done

poolVars == <<connections, entry, lease, ctxDone>>

Stages == {"idle", "opening", "waiting", "using", "leaving"}

\* conn is "opening" until ready is closed; "open" is conn # nil, "failed" is
\* err # nil.  closes counts the calls of conn.Close().
EntryRecords == [source: Sources, revision: Revisions, refs: Nat, retired: BOOLEAN,
                 conn: {"opening", "open", "failed"}, closes: Nat]

Leases == [stage: Stages, entry: Entries, source: Sources, revision: Revisions]

TypeOK ==
  /\ connections \in [Sources -> Entries \union {NoEntry}]
  /\ entry \in [Entries -> EntryRecords]
  /\ lease \in [Requests -> Leases]
  /\ ctxDone \subseteq Requests

Init ==
  /\ connections = [s \in Sources |-> NoEntry]
  /\ \E s \in Sources, v \in Revisions, e \in Entries :
       /\ entry = [x \in Entries |->
                     [source |-> s, revision |-> v, refs |-> 0, retired |-> TRUE,
                      conn |-> "failed", closes |-> 0]]
       /\ lease = [r \in Requests |->
                     [stage |-> "idle", entry |-> e, source |-> s, revision |-> v]]
  /\ ctxDone = {}

Mapped(e) == \E s \in Sources : connections[s] = e

\* No map entry and no caller refers to the object any more.
Collectable(e) == ~Mapped(e) /\ entry[e].refs = 0

\* The source has a current entry, of the caller's execution revision.
Current(s, v) == connections[s] # NoEntry /\ entry[connections[s]].revision = v

\* Leaving the map: close now if idle and open, otherwise leave it to release.
Retired(x) ==
  [x EXCEPT !.retired = TRUE,
            !.closes = IF x.refs = 0 /\ x.conn = "open" THEN @ + 1 ELSE @]

(***************************************************************************)
(* acquire                                                                 *)
(***************************************************************************)
\* Sensitivity variant: the cached entry is taken whatever its revision.
JoinAnyRevision(r, s, v) ==
  /\ lease[r].stage = "idle"
  /\ connections[s] # NoEntry
  /\ entry' = [entry EXCEPT ![connections[s]].refs = @ + 1]
  /\ lease' = [lease EXCEPT ![r] = [stage |-> "waiting", entry |-> connections[s],
                                    source |-> s, revision |-> v]]
  /\ UNCHANGED <<connections, ctxDone>>

\* The current entry has the caller's revision: reference it and wait for ready.
Join(r, s, v) ==
  /\ lease[r].stage = "idle"
  /\ Current(s, v)
  /\ entry' = [entry EXCEPT ![connections[s]].refs = @ + 1]
  /\ lease' = [lease EXCEPT ![r] = [stage |-> "waiting", entry |-> connections[s],
                                    source |-> s, revision |-> v]]
  /\ UNCHANGED <<connections, ctxDone>>

Opening(s, v) ==
  [source |-> s, revision |-> v, refs |-> 1, retired |-> FALSE,
   conn |-> "opening", closes |-> 0]

\* No entry, or one of another revision (newer or older): retire what is there,
\* put a new entry in its place and open it outside the lock.
StartOpen(r, s, v) ==
  /\ lease[r].stage = "idle"
  /\ ~Current(s, v)
  /\ \E e \in Entries :
       /\ Collectable(e)
       /\ entry' = [x \in Entries |->
                      CASE x = e -> Opening(s, v)
                        [] x = connections[s] -> Retired(entry[x])
                        [] OTHER -> entry[x]]
       /\ connections' = [connections EXCEPT ![s] = e]
       /\ lease' = [lease EXCEPT ![r] = [stage |-> "opening", entry |-> e,
                                         source |-> s, revision |-> v]]
  /\ UNCHANGED ctxDone

\* adapter.Open returned a connection: publish it, even if the entry was retired
\* meanwhile, and close ready.
OpenSucceeds(r) ==
  /\ lease[r].stage = "opening"
  /\ entry' = [entry EXCEPT ![lease[r].entry].conn = "open"]
  /\ lease' = [lease EXCEPT ![r].stage = "using"]
  /\ UNCHANGED <<connections, ctxDone>>

\* The entry leaves the map only if it is still the current one.
Unmap(e) ==
  [s \in Sources |-> IF s = entry[e].source /\ connections[s] = e
                       THEN NoEntry ELSE connections[s]]

\* Sensitivity variant: ready is not closed when opening fails.
OpenFailsSilently(r) ==
  /\ lease[r].stage = "opening"
  /\ LET e == lease[r].entry IN
       /\ entry' = [entry EXCEPT ![e].retired = TRUE]
       /\ connections' = Unmap(e)
  /\ lease' = [lease EXCEPT ![r].stage = "leaving"]
  /\ UNCHANGED ctxDone

\* Opening failed (rejected, unreachable, or the opener's context ended):
\* publish the error to every waiter, retire the entry if it is still current.
OpenFails(r) ==
  /\ lease[r].stage = "opening"
  /\ LET e == lease[r].entry IN
       /\ entry' = [entry EXCEPT ![e].conn = "failed",
                                 ![e].retired = @ \/ connections[lease[r].source] = e]
       /\ connections' = Unmap(e)
  /\ lease' = [lease EXCEPT ![r].stage = "leaving"]
  /\ UNCHANGED ctxDone

\* ready is closed: use the connection, or leave with the opener's error.
Ready(r) ==
  /\ lease[r].stage = "waiting"
  /\ entry[lease[r].entry].conn # "opening"
  /\ lease' = [lease EXCEPT ![r].stage =
                 IF entry[lease[r].entry].conn = "open" THEN "using" ELSE "leaving"]
  /\ UNCHANGED <<connections, entry, ctxDone>>

\* Sensitivity variant: a waiter that gives up keeps its reference.
GiveUpHolding(r) ==
  /\ lease[r].stage = "waiting"
  /\ r \in ctxDone
  /\ lease' = [lease EXCEPT ![r].stage = "idle"]
  /\ UNCHANGED <<connections, entry, ctxDone>>

\* The ctx.Done() arm of the wait: drop the reference, then return ctx.Err().
GiveUpWaiting(r) ==
  /\ lease[r].stage = "waiting"
  /\ r \in ctxDone
  /\ lease' = [lease EXCEPT ![r].stage = "leaving"]
  /\ UNCHANGED <<connections, entry, ctxDone>>

(***************************************************************************)
(* release: deferred by execute, and called on acquire's error paths       *)
(***************************************************************************)
\* Sensitivity variant: the last reference closes the entry, retired or not.
ReleaseClosing(r) ==
  /\ lease[r].stage \in {"using", "leaving"}
  /\ entry' = [entry EXCEPT ![lease[r].entry] =
                 [@ EXCEPT !.refs = @ - 1,
                           !.closes = IF entry[lease[r].entry].refs = 1
                                        /\ entry[lease[r].entry].conn = "open"
                                      THEN @ + 1 ELSE @]]
  /\ lease' = [lease EXCEPT ![r].stage = "idle"]
  /\ UNCHANGED <<connections, ctxDone>>

\* Close is decided under the lock and called after it; nobody can reach the
\* entry in between, so it counts from the decision.
Release(r) ==
  /\ lease[r].stage \in {"using", "leaving"}
  /\ LET x == entry[lease[r].entry] IN
       entry' = [entry EXCEPT ![lease[r].entry] =
                   [x EXCEPT !.refs = @ - 1,
                             !.closes = IF x.refs = 1 /\ x.retired /\ x.conn = "open"
                                          THEN @ + 1 ELSE @]]
  /\ lease' = [lease EXCEPT ![r].stage = "idle"]
  /\ UNCHANGED <<connections, ctxDone>>

(***************************************************************************)
(* InvalidateSource (its job cancellations are modelled in QueryExecution) *)
(***************************************************************************)
\* Sensitivity variant: the retired entry stays in the map.
ForgetKeepingEntry(s) ==
  /\ entry' = [e \in Entries |->
                 IF e = connections[s] THEN Retired(entry[e]) ELSE entry[e]]
  /\ UNCHANGED connections

\* What InvalidateSource does to the cache.
Forget(s) ==
  /\ entry' = [e \in Entries |->
                 IF e = connections[s] THEN Retired(entry[e]) ELSE entry[e]]
  /\ connections' = [connections EXCEPT ![s] = NoEntry]

Invalidate(s) ==
  /\ connections[s] # NoEntry
  /\ Forget(s)
  /\ UNCHANGED <<lease, ctxDone>>

(***************************************************************************)
(* The contexts of the calls                                               *)
(***************************************************************************)
CancelContext(r) ==
  /\ r \notin ctxDone
  /\ ctxDone' = ctxDone \union {r}
  /\ UNCHANGED <<connections, entry, lease>>

FreshContext(r) ==
  /\ lease[r].stage = "idle"
  /\ r \in ctxDone
  /\ ctxDone' = ctxDone \ {r}
  /\ UNCHANGED <<connections, entry, lease>>

Next ==
  \/ \E r \in Requests :
       \/ \E s \in Sources, v \in Revisions : Join(r, s, v) \/ StartOpen(r, s, v)
       \/ OpenSucceeds(r)
       \/ OpenFails(r)
       \/ Ready(r)
       \/ GiveUpWaiting(r)
       \/ Release(r)
       \/ CancelContext(r)
       \/ FreshContext(r)
  \/ \E s \in Sources : Invalidate(s)

\* Opening a connection ends (its context has a timeout), runnable goroutines
\* run, and every user of a connection returns it.
Fairness ==
  \A r \in Requests :
    /\ WF_poolVars(OpenSucceeds(r) \/ OpenFails(r))
    /\ WF_poolVars(Ready(r))
    /\ WF_poolVars(Release(r))

Spec == Init /\ [][Next]_poolVars
FairSpec == Spec /\ Fairness

(***************************************************************************)
(* Properties                                                              *)
(***************************************************************************)
Users(e) == {r \in Requests : lease[r].stage # "idle" /\ lease[r].entry = e}

\* The reference count of an entry is the number of callers between acquire and
\* release on it, on every path: hit, open, failed open, abandoned wait.
RefsMatchUsers ==
  \A e \in Entries : entry[e].refs = Cardinality(Users(e))

\* A caller never queries through a connection that has been closed, whatever
\* edits, invalidations and failures happened while it held it.
NoUseAfterClose ==
  \A r \in Requests : lease[r].stage = "using" =>
    entry[lease[r].entry].conn = "open" /\ entry[lease[r].entry].closes = 0

\* A connection opened for one source and configuration is never handed to a
\* caller whose snapshot is of another source or execution revision.
ServesItsRevision ==
  \A r \in Requests : lease[r].stage # "idle" =>
    /\ entry[lease[r].entry].source = lease[r].source
    /\ entry[lease[r].entry].revision = lease[r].revision

\* No connection is closed twice, and none is leaked: once nobody can reach an
\* entry, its connection has been closed.
ClosedOnce ==
  \A e \in Entries :
    /\ entry[e].closes <= 1
    /\ Collectable(e) /\ entry[e].conn = "open" => entry[e].closes > 0

\* A connection that may still be handed out is the current one of its source,
\* so InvalidateSource reaches every one of them; a retired entry is out of the map.
RetiredIffUnmapped ==
  \A e \in Entries :
    /\ Mapped(e) <=> ~entry[e].retired
    /\ Mapped(e) => connections[entry[e].source] = e

\* A caller waiting for another's open always resumes, whether opening succeeds,
\* fails, or the entry is replaced or invalidated meanwhile.
WaitersResume ==
  \A r \in Requests : lease[r].stage = "waiting" ~> lease[r].stage # "waiting"

\* A retired connection is eventually closed: no user keeps it for ever.
RetiredIsClosed ==
  \A e \in Entries :
    (entry[e].retired /\ entry[e].conn = "open" /\ entry[e].closes = 0) ~>
      (entry[e].closes > 0 \/ ~entry[e].retired)
=============================================================================

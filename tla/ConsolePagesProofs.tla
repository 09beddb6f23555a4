-------------------------- MODULE ConsolePagesProofs --------------------------
(***************************************************************************)
(* Theorems about the console's pages (ConsolePages): what an answer that  *)
(* arrives late cannot do to what is on screen, for any number of requests *)
(* in flight, of entries on a page and of writes by other administrators.  *)
(*                                                                         *)
(* The invariant of a page speaks of its variables only, and is proved of  *)
(* its own Init and Next; a theorem joins the pages it is about.  The last *)
(* pages here are for the theorem of ConsoleProofs, which joins most.      *)
(***************************************************************************)
EXTENDS ConsolePages, TLAPS

(***************************************************************************)
(* The data source pages                                                   *)
(***************************************************************************)
\* A copy somebody holds of the source: of its present revision, then with its present
\* entry; or of an earlier one.
KnownCopy(copy, source) ==
  /\ copy \in Sources!Copies
  /\ ~copy.exists => copy.entry = 0
  /\ copy.revision <= source.revision
  /\ (copy.exists = source.exists /\ copy.revision = source.revision)
       => copy.entry = source.entry

\* A request tells of a known copy; a test that runs, of the query of its revision.
SourceCall(c, source) ==
  /\ c \in [op : Sources!Ops, editor : {0, 1}, copy : Sources!Copies,
            query : Sources!Queries, stage : {"sent", "probing", "ok", "failed"}]
  /\ KnownCopy(c.copy, source)
  /\ (c.stage = "probing" /\ c.copy.revision = source.revision /\ source.exists)
       => c.query = source.query

SourceServer(s) ==
  /\ s \in [source : Sources!Sources, careless : BOOLEAN]
  /\ ~s.source.exists => s.source.entry = 0
  /\ s.source.probe \in {Sources!Nil, s.source.query}
  /\ ~s.careless

SourceUi(u, source) ==
  /\ u \in [place : {"list", "setup"}, source : Sources!Copies, panel : Sources!Panels,
            editor : {0, 1}, form : Sources!Forms, busy : {"", "test", "save"},
            testing : BOOLEAN, deleting : BOOLEAN]
  /\ KnownCopy(u.source, source) /\ KnownCopy(u.form.base, source)

SourcesInv ==
  /\ SourceServer(server)
  /\ SourceUi(ui, server.source)
  /\ \A c \in requests : SourceCall(c, server.source)

\* What a source can become: it is deleted for good, or its revision grows, or it only
\* gets a probe.
SourceFollows(next, source) ==
  \/ next.revision > source.revision
  \/ /\ next.revision = source.revision /\ next.exists = source.exists
     /\ next.entry = source.entry /\ next.query = source.query
  \/ ~next.exists /\ next.entry = 0 /\ next.revision = MaxRevision

\* What was known of the source before is known of what it becomes.
LEMMA KnownStays ==
  ASSUME NEW source \in Sources!Sources, NEW next \in Sources!Sources, SourceFollows(next, source)
  PROVE  /\ \A copy : KnownCopy(copy, source) => KnownCopy(copy, next)
         /\ \A c : SourceCall(c, source) => SourceCall(c, next)
         /\ \A u : SourceUi(u, source) => SourceUi(u, next)
<1>1. /\ MaxRevision \in Nat
      /\ source.revision \in 0 .. MaxRevision /\ next.revision \in 0 .. MaxRevision
  BY PagesAssumption DEF Sources!Sources, Sources!Revisions
<1>2. ASSUME NEW copy, KnownCopy(copy, source) PROVE KnownCopy(copy, next)
  <2>1. copy.revision \in 0 .. MaxRevision
    BY <1>2 DEF KnownCopy, Sources!Copies, Sources!Revisions
  <2> QED
    BY <1>1, <1>2, <2>1 DEF KnownCopy, SourceFollows, Sources!Copies
<1>3. ASSUME NEW c, SourceCall(c, source) PROVE SourceCall(c, next)
  <2>1. c.copy.revision \in 0 .. MaxRevision /\ c.copy.revision <= source.revision
    BY <1>3 DEF SourceCall, KnownCopy, Sources!Copies, Sources!Revisions
  <2>2. (c.stage = "probing" /\ c.copy.revision = next.revision /\ next.exists)
          => c.query = next.query
    <3> SUFFICES ASSUME c.stage = "probing", c.copy.revision = next.revision, next.exists
                 PROVE  c.query = next.query
      OBVIOUS
    <3>1. ~(next.revision > source.revision)
      BY <1>1, <2>1
    <3>2. next.revision = source.revision /\ next.exists = source.exists /\ next.query = source.query
      BY <3>1 DEF SourceFollows
    <3> QED
      BY <1>3, <3>2 DEF SourceCall
  <2> QED
    BY <1>2, <1>3, <2>2 DEF SourceCall
<1>4. ASSUME NEW u, SourceUi(u, source) PROVE SourceUi(u, next)
  BY <1>2, <1>4 DEF SourceUi
<1> QED
  BY <1>2, <1>3, <1>4

\* The copies that are made.
LEMMA CopiesAreKnown ==
  ASSUME SourceServer(server)
  PROVE  /\ KnownCopy(Sources!NoCopy, server.source)
         /\ KnownCopy(Sources!CopyOf(server.source), server.source)
         /\ \A copy : KnownCopy(copy, server.source) =>
              \A b \in BOOLEAN : KnownCopy([copy EXCEPT !.probed = b], server.source)
<1>1. server.source \in Sources!Sources /\ MaxRevision \in Nat
  BY PagesAssumption DEF SourceServer
<1>2. 0 \in Sources!Revisions /\ 0 <= server.source.revision
  BY <1>1 DEF Sources!Revisions, Sources!Sources
<1>3. Sources!NoCopy = [exists |-> FALSE, revision |-> 0, entry |-> 0, probed |-> FALSE]
  BY DEF Sources!NoCopy, Sources!CopyOf, Sources!NoSource, Sources!Nil
<1>4. KnownCopy(Sources!NoCopy, server.source)
  BY <1>1, <1>2, <1>3 DEF KnownCopy, Sources!Copies, SourceServer
<1>5. KnownCopy(Sources!CopyOf(server.source), server.source)
  BY <1>1, <1>2 DEF KnownCopy, Sources!CopyOf, Sources!Copies, SourceServer, Sources!Sources,
     Sources!Revisions
<1>6. ASSUME NEW copy, KnownCopy(copy, server.source), NEW b \in BOOLEAN
      PROVE  KnownCopy([copy EXCEPT !.probed = b], server.source)
  BY <1>6 DEF KnownCopy, Sources!Copies
<1> QED
  BY <1>4, <1>5, <1>6

\* A request of this page: plain, or with a known copy.
LEMMA RequestsAreOfTheSource ==
  ASSUME SourcesInv, NEW op \in Sources!Ops, NEW copy, KnownCopy(copy, server.source),
         NEW e \in {0, 1}
  PROVE  /\ SourceCall(Sources!Request(op, copy), server.source)
         /\ SourceCall([Sources!Request(op, copy) EXCEPT !.editor = e], server.source)
  BY DEF Sources!Request, SourceCall, KnownCopy, Sources!Queries

\* What a step has to show of server, screen and new requests.
LEMMA SourcesStep ==
  ASSUME SourcesInv, SourceServer(server'), SourceFollows(server'.source, server.source),
         SourceUi(ui', server.source) \/ SourceUi(ui', server'.source),
         \A c \in requests' : c \in requests \/ SourceCall(c, server'.source)
  PROVE  SourcesInv'
<1>1. server.source \in Sources!Sources /\ server'.source \in Sources!Sources
  BY DEF SourcesInv, SourceServer
<1>2. /\ \A c : SourceCall(c, server.source) => SourceCall(c, server'.source)
      /\ \A u : SourceUi(u, server.source) => SourceUi(u, server'.source)
  BY <1>1, KnownStays
<1>3. \A c \in requests' : SourceCall(c, server'.source)
  BY <1>2 DEF SourcesInv
<1> QED
  BY <1>2, <1>3 DEF SourcesInv

\* The answer to a request tells of a copy.
LEMMA AnswersAreOfTheSource ==
  ASSUME NEW source, NEW next \in Sources!Sources, NEW c, SourceCall(c, source),
         NEW stage \in {"ok", "failed"}, NEW copy, KnownCopy(copy, next)
  PROVE  SourceCall([c EXCEPT !.stage = stage, !.copy = copy, !.query = 1], next)
<1> DEFINE a == [c EXCEPT !.stage = stage, !.copy = copy, !.query = 1]
<1>1. /\ a \in [op : Sources!Ops, editor : {0, 1}, copy : Sources!Copies,
                query : Sources!Queries, stage : {"sent", "probing", "ok", "failed"}]
      /\ a.stage = stage /\ a.copy = copy
  BY DEF SourceCall, KnownCopy, Sources!Queries
<1> QED
  BY <1>1 DEF SourceCall

\* The server answers a request and keeps, saves, tests or deletes the source.
LEMMA SourceServed ==
  ASSUME SourcesInv, Sources!Serve
  PROVE  SourcesInv'
<1>1. PICK c \in requests :
        \/ Sources!ServeList(c) \/ Sources!ServeTry(c) \/ Sources!ServeSave(c)
        \/ Sources!ServeDelete(c) \/ Sources!StartProbe(c)
        \/ c.stage = "probing" /\ Sources!StoreProbe(c)
  BY DEF Sources!Serve
<1>2. ui' = ui
  BY DEF Sources!Serve
<1>3. /\ SourceServer(server) /\ SourceUi(ui, server.source) /\ SourceCall(c, server.source)
      /\ server.source \in Sources!Sources
  BY DEF SourcesInv, SourceServer
<1>4. /\ MaxRevision \in Nat /\ server.source.revision \in 0 .. MaxRevision
      /\ server.source.entry \in 0 .. MaxRevision
      /\ server.source.exists \in BOOLEAN /\ server.source.query \in {1, 2}
      /\ server.source.probe \in {-1, server.source.query}
  BY <1>3, PagesAssumption DEF Sources!Sources, Sources!Revisions, Sources!Queries, SourceServer,
     Sources!Nil
<1>5. ASSUME NEW stage \in {"ok", "failed"}, NEW copy, KnownCopy(copy, server'.source),
             Sources!Answer(c, stage, copy), SourceServer(server'),
             SourceFollows(server'.source, server.source)
      PROVE  SourcesInv'
  <2>1. server'.source \in Sources!Sources
    BY <1>5 DEF SourceServer
  <2>2. SourceCall([c EXCEPT !.stage = stage, !.copy = copy, !.query = 1], server'.source)
    BY <1>3, <1>5, <2>1, AnswersAreOfTheSource
  <2>3. \A d \in requests' : d \in requests \/ SourceCall(d, server'.source)
    BY <1>5, <2>2 DEF Sources!Answer, Sources!Others
  <2> QED
    BY <1>2, <1>3, <1>5, <2>3, SourcesStep
<1>6. SourceFollows(server.source, server.source)
  BY DEF SourceFollows
<1>7. CASE Sources!ServeList(c)
  <2>1. /\ server' = server
        /\ Sources!Answer(c, "ok", Sources!CopyOf(server.source))
    BY <1>7 DEF Sources!ServeList
  <2>2. KnownCopy(Sources!CopyOf(server.source), server.source)
    BY <1>3, CopiesAreKnown
  <2> QED
    BY <1>3, <1>5, <1>6, <2>1, <2>2
<1>8. CASE Sources!ServeTry(c)
  <2>1. server' = server /\ Sources!Answer(c, "ok", Sources!NoCopy)
    BY <1>8 DEF Sources!ServeTry
  <2>2. KnownCopy(Sources!NoCopy, server.source)
    BY <1>3, CopiesAreKnown
  <2> QED
    BY <1>3, <1>5, <1>6, <2>1, <2>2
<1>9. CASE Sources!ServeSave(c)
  <2>1. /\ c.copy.exists = server.source.exists /\ c.copy.revision = server.source.revision
        /\ server.source.revision < MaxRevision
    BY <1>9 DEF Sources!ServeSave
  <2>2. PICK next \in Sources!Saved(server.source, c.op = "toggle") :
          /\ server' = [source |-> next,
                        careless |-> server.careless \/ c.copy.entry # server.source.entry]
          /\ Sources!Answer(c, "ok", [Sources!CopyOf(next) EXCEPT !.probed = FALSE])
    BY <1>9 DEF Sources!ServeSave
  <2>3. PICK query \in {1, 2}, probe \in {-1, 1, 2} :
          /\ next = [exists |-> TRUE, revision |-> server.source.revision + 1,
                     entry |-> server.source.revision + 1, query |-> query, probe |-> probe]
          /\ probe \in {-1, query}
    <3>1. PICK query \in {1, 2} :
            next = [exists |-> TRUE, revision |-> server.source.revision + 1,
                    entry |-> server.source.revision + 1, query |-> query,
                    probe |-> IF query = server.source.query /\ ~(c.op = "toggle")
                                THEN server.source.probe ELSE Sources!Nil]
      BY <1>4, <2>2 DEF Sources!Saved, Sources!Queries
    <3> QED
      BY <1>4, <3>1 DEF Sources!Nil
  <2>4. next \in Sources!Sources
    BY <1>4, <2>1, <2>3 DEF Sources!Sources, Sources!Revisions, Sources!Queries, Sources!Nil
  <2>5. c.copy.entry = server.source.entry
    BY <1>3, <2>1 DEF SourceCall, KnownCopy
  <2>6. server'.source = next /\ SourceServer(server')
    <3>1. ~server.careless
      BY <1>3 DEF SourceServer
    <3>2. server' = [source |-> next, careless |-> FALSE]
      BY <2>2, <2>5, <3>1
    <3> QED
      BY <2>3, <2>4, <3>2 DEF SourceServer, Sources!Nil
  <2>7. SourceFollows(server'.source, server.source)
    <3>1. server'.source.revision = server.source.revision + 1
      BY <2>3, <2>6
    <3> QED
      BY <1>4, <3>1 DEF SourceFollows
  <2> DEFINE copy == [Sources!CopyOf(next) EXCEPT !.probed = FALSE]
  <2>8. /\ copy \in Sources!Copies /\ copy.exists
        /\ copy.revision = next.revision /\ copy.entry = next.entry
        /\ next.exists /\ next.revision \in 0 .. MaxRevision
    <3>1. next.revision \in 0 .. MaxRevision /\ next.entry \in 0 .. MaxRevision /\ next.exists
      BY <1>4, <2>1, <2>3
    <3>2. PICK base : base = Sources!CopyOf(next)
      OBVIOUS
    <3>3. /\ base \in Sources!Copies /\ base.exists
          /\ base.revision = next.revision /\ base.entry = next.entry
      BY <2>3, <3>1, <3>2 DEF Sources!CopyOf, Sources!Copies, Sources!Revisions
    <3>4. copy = [base EXCEPT !.probed = FALSE]
      BY <3>2
    <3> HIDE DEF copy
    <3> QED
      BY <3>1, <3>3, <3>4 DEF Sources!Copies
  <2>9. KnownCopy(copy, next)
    <3> HIDE DEF copy
    <3> QED
      BY <1>4, <2>8 DEF KnownCopy
  <2> QED
    BY <1>5, <2>2, <2>6, <2>7, <2>9
<1>10. CASE Sources!ServeDelete(c)
  <2>1. /\ server' = [server EXCEPT !.source =
                        IF server.source.exists THEN Sources!Deleted ELSE server.source]
        /\ Sources!Answer(c, "ok", Sources!NoCopy)
    BY <1>10 DEF Sources!ServeDelete
  <2>2. /\ ~Sources!Deleted.exists /\ Sources!Deleted.revision = MaxRevision
        /\ Sources!Deleted.entry = 0 /\ Sources!Deleted.probe = Sources!Nil
    BY DEF Sources!Deleted, Sources!NoSource
  <2>3. Sources!Deleted \in Sources!Sources
    <3>1. Sources!NoSource \in Sources!Sources /\ MaxRevision \in Sources!Revisions
      BY <1>4 DEF Sources!NoSource, Sources!Sources, Sources!Revisions, Sources!Queries,
         Sources!Nil
    <3> QED
      BY <3>1 DEF Sources!Deleted, Sources!Sources
  <2>4. SourceServer(server') /\ SourceFollows(server'.source, server.source)
    BY <1>3, <2>1, <2>2, <2>3 DEF SourceServer, SourceFollows, Sources!Nil
  <2>5. KnownCopy(Sources!NoCopy, server'.source)
    BY <1>3, <2>4, CopiesAreKnown, KnownStays DEF SourceServer
  <2> QED
    BY <1>5, <2>1, <2>4, <2>5
<1>11. CASE Sources!StartProbe(c)
  <2> DEFINE copy == [Sources!NoCopy EXCEPT !.revision = server.source.revision]
             a == [c EXCEPT !.stage = "probing", !.copy = copy, !.query = server.source.query]
  <2>1. server' = server /\ requests' = Sources!Others(c) \union {a} /\ server.source.exists
        /\ server.source.exists = TRUE
    BY <1>4, <1>11 DEF Sources!StartProbe
  <2>2. /\ copy \in Sources!Copies /\ copy.exists = FALSE /\ copy.entry = 0
        /\ copy.revision = server.source.revision
    <3>1. KnownCopy(Sources!NoCopy, server.source)
      BY <1>3, CopiesAreKnown
    <3>2. Sources!NoCopy.exists = FALSE /\ Sources!NoCopy.entry = 0
      BY DEF Sources!NoCopy, Sources!CopyOf, Sources!NoSource
    <3> QED
      BY <1>4, <3>1, <3>2 DEF KnownCopy, Sources!Copies, Sources!Revisions
  <2>3. KnownCopy(copy, server.source)
    <3> HIDE DEF copy
    <3>1. copy.revision <= server.source.revision
      BY <1>4, <2>2
    <3>2. copy.exists # server.source.exists
      BY <2>1, <2>2
    <3> QED
      BY <2>2, <3>1, <3>2 DEF KnownCopy
  <2>4. SourceCall(a, server.source)
    <3> HIDE DEF copy
    <3>1. /\ a \in [op : Sources!Ops, editor : {0, 1}, copy : Sources!Copies,
                    query : Sources!Queries, stage : {"sent", "probing", "ok", "failed"}]
          /\ a.copy = copy /\ a.query = server.source.query
      BY <1>3, <1>4, <2>3 DEF SourceCall, KnownCopy, Sources!Queries
    <3> QED
      BY <2>3, <3>1 DEF SourceCall
  <2> QED
    BY <1>2, <1>3, <1>6, <2>1, <2>4, SourcesStep DEF Sources!Others
<1>12. CASE c.stage = "probing" /\ Sources!StoreProbe(c)
  <2>1. /\ server.source.exists /\ c.copy.revision = server.source.revision
        /\ c.query = server.source.query
    BY <1>3, <1>12 DEF Sources!StoreProbe, SourceCall
  <2>2. PICK stage \in {"ok", "failed"} : Sources!Answer(c, stage, Sources!NoCopy)
    BY <1>12 DEF Sources!StoreProbe
  <2>3. \/ server' = [server EXCEPT !.source.probe = server.source.query]
        \/ /\ server.source.revision < MaxRevision
           /\ \E query \in Sources!Queries :
                server' = [server EXCEPT !.source.revision = server.source.revision + 1,
                                         !.source.query = query, !.source.probe = query]
    BY <1>12, <2>1 DEF Sources!StoreProbe
  <2>4. SourceServer(server') /\ SourceFollows(server'.source, server.source)
    <3>1. CASE server' = [server EXCEPT !.source.probe = server.source.query]
      <4>1. /\ server'.source = [server.source EXCEPT !.probe = server.source.query]
            /\ server'.careless = server.careless
            /\ server' \in [source : Sources!Sources, careless : BOOLEAN]
        BY <1>3, <1>4, <3>1 DEF SourceServer, Sources!Sources, Sources!Queries
      <4> QED
        BY <1>3, <4>1 DEF SourceServer, SourceFollows, Sources!Sources
    <3>2. ASSUME server.source.revision < MaxRevision, NEW query \in {1, 2},
                 server' = [server EXCEPT !.source.revision = server.source.revision + 1,
                                          !.source.query = query, !.source.probe = query]
          PROVE  SourceServer(server') /\ SourceFollows(server'.source, server.source)
      <4> DEFINE next == [server.source EXCEPT !.revision = server.source.revision + 1,
                                               !.query = query, !.probe = query]
      <4>1. /\ next \in Sources!Sources /\ next.revision = server.source.revision + 1
            /\ next.query = query /\ next.probe = query
            /\ next.exists = server.source.exists /\ next.entry = server.source.entry
        <5>1. server.source.revision + 1 \in 0 .. MaxRevision
          BY <1>4, <3>2
        <5> QED
          BY <1>3, <5>1 DEF Sources!Sources, Sources!Queries, Sources!Revisions
      <4>2. /\ server'.source = next /\ server'.careless = server.careless
            /\ server' \in [source : Sources!Sources, careless : BOOLEAN]
        BY <1>3, <3>2, <4>1 DEF SourceServer
      <4> HIDE DEF next
      <4> QED
        BY <1>3, <1>4, <4>1, <4>2 DEF SourceServer, SourceFollows
    <3> QED
      BY <2>3, <3>1, <3>2 DEF Sources!Queries
  <2>5. KnownCopy(Sources!NoCopy, server'.source)
    BY <1>3, <2>4, CopiesAreKnown, KnownStays DEF SourceServer
  <2> QED
    BY <1>5, <2>2, <2>4, <2>5
<1> QED
  BY <1>1, <1>7, <1>8, <1>9, <1>10, <1>11, <1>12

\* A step of the page alone: the screen keeps known copies, and asks with one.
LEMMA SourcesPageStep ==
  ASSUME SourcesInv, server' = server, SourceUi(ui', server.source),
         \A c \in requests' : c \in requests \/ SourceCall(c, server.source)
  PROVE  SourcesInv'
<1>1. SourceServer(server') /\ SourceFollows(server'.source, server.source)
  BY DEF SourcesInv, SourceFollows
<1> QED
  BY <1>1, SourcesStep

\* What the administrator does on the list, the setup page and in the drawers.
LEMMA SourcesOperated ==
  ASSUME SourcesInv,
         \/ Sources!Refresh \/ Sources!TestSource \/ Sources!ToggleSource \/ Sources!OpenDelete
         \/ Sources!CloseDelete \/ Sources!DeleteSource \/ Sources!OpenEditor
         \/ Sources!CloseEditor \/ Sources!ChangeField \/ Sources!TryConnection
         \/ Sources!SaveSource \/ Sources!OpenDetails \/ Sources!CloseDetails
  PROVE  SourcesInv'
<1>1. /\ SourceUi(ui, server.source) /\ KnownCopy(Sources!NoCopy, server.source)
      /\ \A copy : KnownCopy(copy, server.source) =>
           \A b \in BOOLEAN : KnownCopy([copy EXCEPT !.probed = b], server.source)
  BY CopiesAreKnown DEF SourcesInv
<1>2. /\ KnownCopy(ui.source, server.source) /\ KnownCopy(ui.form.base, server.source)
      /\ ui.editor \in {0, 1} /\ ui.source.probed \in BOOLEAN /\ ui.form \in Sources!Forms
  BY <1>1 DEF SourceUi, KnownCopy, Sources!Copies
<1>3. \A copy : KnownCopy(copy, server.source) => copy \in Sources!Copies
  BY DEF KnownCopy
<1>4. ASSUME NEW op \in Sources!Ops, NEW copy, KnownCopy(copy, server.source),
             \/ Sources!Ask(Sources!Request(op, copy))
             \/ Sources!Ask(Sources!OfTheForm(op, copy))
      PROVE  \A c \in requests' : c \in requests \/ SourceCall(c, server.source)
  <2> DEFINE plain == Sources!Request(op, copy)
             typed == [plain EXCEPT !.editor = ui.editor]
  <2>1. SourceCall(plain, server.source) /\ SourceCall(typed, server.source)
    BY <1>2, <1>4, RequestsAreOfTheSource
  <2>2. requests' = requests \union {plain} \/ requests' = requests \union {typed}
    BY <1>4 DEF Sources!Ask, Sources!OfTheForm
  <2> HIDE DEF plain, typed
  <2> QED
    BY <2>1, <2>2
<1>5. CASE Sources!Refresh \/ Sources!ToggleSource
  <2>1. ui' = ui /\ server' = server
    BY <1>5 DEF Sources!Refresh, Sources!ToggleSource
  <2>2. KnownCopy([ui.source EXCEPT !.probed = FALSE], server.source)
    BY <1>1, <1>2
  <2>3. \/ Sources!Ask(Sources!Request("list", Sources!NoCopy))
        \/ Sources!Ask(Sources!Request("toggle", [ui.source EXCEPT !.probed = FALSE]))
    BY <1>5 DEF Sources!Refresh, Sources!ToggleSource, Sources!Plain
  <2>4. "list" \in Sources!Ops /\ "toggle" \in Sources!Ops
    BY DEF Sources!Ops, Sources!Mutations
  <2>5. \A c \in requests' : c \in requests \/ SourceCall(c, server.source)
    BY <1>1, <1>4, <2>2, <2>3, <2>4
  <2> QED
    BY <1>1, <2>1, <2>5, SourcesPageStep
<1>6. CASE Sources!TestSource \/ Sources!DeleteSource
  <2>1. /\ server' = server
        /\ ui' = [ui EXCEPT !.testing = TRUE] \/ ui' = [ui EXCEPT !.deleting = TRUE]
    BY <1>6 DEF Sources!TestSource, Sources!DeleteSource
  <2>2. SourceUi(ui', server.source)
    BY <1>1, <2>1 DEF SourceUi
  <2>3. \/ Sources!Ask(Sources!Request("rowTest", Sources!NoCopy))
        \/ Sources!Ask(Sources!Request("delete", Sources!NoCopy))
    BY <1>6 DEF Sources!TestSource, Sources!DeleteSource, Sources!Plain
  <2>4. "rowTest" \in Sources!Ops /\ "delete" \in Sources!Ops
    BY DEF Sources!Ops, Sources!Mutations
  <2>5. \A c \in requests' : c \in requests \/ SourceCall(c, server.source)
    BY <1>1, <1>4, <2>3, <2>4
  <2> QED
    BY <2>1, <2>2, <2>5, SourcesPageStep
<1>7. CASE Sources!TryConnection \/ Sources!SaveSource
  <2>1. /\ server' = server
        /\ ui' = [ui EXCEPT !.busy = "test"] \/ ui' = [ui EXCEPT !.busy = "save"]
    BY <1>7 DEF Sources!TryConnection, Sources!SaveSource
  <2>2. SourceUi(ui', server.source)
    BY <1>1, <2>1 DEF SourceUi
  <2>3. \/ Sources!Ask(Sources!OfTheForm("try", Sources!NoCopy))
        \/ Sources!Ask(Sources!OfTheForm("save", ui.form.base))
    BY <1>7 DEF Sources!TryConnection, Sources!SaveSource
  <2>4. "try" \in Sources!Ops /\ "save" \in Sources!Ops
    BY DEF Sources!Ops, Sources!Mutations
  <2>5. \A c \in requests' : c \in requests \/ SourceCall(c, server.source)
    BY <1>1, <1>2, <1>4, <2>3, <2>4
  <2> QED
    BY <2>1, <2>2, <2>5, SourcesPageStep
<1>8. CASE Sources!OpenDelete \/ Sources!CloseDelete \/ Sources!OpenDetails \/ Sources!CloseDetails
  <2>1. /\ server' = server /\ requests' = requests
        /\ \E panel \in Sources!Panels : ui' = [ui EXCEPT !.panel = panel]
    BY <1>8 DEF Sources!OpenDelete, Sources!CloseDelete, Sources!OpenDetails,
       Sources!CloseDetails, Sources!Panels
  <2>2. SourceUi(ui', server.source)
    BY <1>1, <2>1 DEF SourceUi
  <2> QED
    BY <2>1, <2>2, SourcesPageStep
<1>9. CASE Sources!ChangeField
  <2>1. /\ server' = server /\ requests' = requests
        /\ ui' = [ui EXCEPT !.form = [ui.form EXCEPT !.probed = FALSE]]
    BY <1>9 DEF Sources!ChangeField
  <2>2. /\ [ui.form EXCEPT !.probed = FALSE] \in Sources!Forms
        /\ [ui.form EXCEPT !.probed = FALSE].base = ui.form.base
    BY <1>2 DEF Sources!Forms
  <2>3. SourceUi(ui', server.source)
    BY <1>1, <2>1, <2>2 DEF SourceUi
  <2> QED
    BY <2>1, <2>3, SourcesPageStep
<1>10. CASE Sources!OpenEditor \/ Sources!CloseEditor
  <2>1. /\ server' = server /\ requests' = requests
        /\ \E copy \in {ui.source, Sources!NoCopy}, panel \in Sources!Panels, e \in {0, 1} :
             ui' = [ui EXCEPT !.panel = panel, !.form = Sources!FormOf(copy), !.busy = "",
                              !.editor = e]
    <3>1. CASE Sources!OpenEditor
      <4>1. PICK e \in {0, 1} : e = IF 0 \in Sources!Running THEN 1 ELSE 0
        OBVIOUS
      <4>2. ui' = [ui EXCEPT !.panel = "editor", !.form = Sources!FormOf(ui.source), !.busy = "",
                             !.editor = e]
        BY <3>1, <4>1 DEF Sources!OpenEditor
      <4> QED
        BY <3>1, <4>2 DEF Sources!OpenEditor, Sources!Panels
    <3>2. CASE Sources!CloseEditor
      BY <3>2 DEF Sources!CloseEditor, Sources!NoForm, Sources!Panels
    <3> QED
      BY <1>10, <3>1, <3>2
  <2>2. PICK copy \in {ui.source, Sources!NoCopy}, panel \in Sources!Panels, e \in {0, 1} :
          ui' = [ui EXCEPT !.panel = panel, !.form = Sources!FormOf(copy), !.busy = "",
                           !.editor = e]
    BY <2>1
  <2>3. KnownCopy(copy, server.source)
    BY <1>1, <1>2
  <2>4. /\ Sources!FormOf(copy) \in Sources!Forms
        /\ KnownCopy(Sources!FormOf(copy).base, server.source)
    <3>1. copy.probed \in BOOLEAN /\ KnownCopy([copy EXCEPT !.probed = FALSE], server.source)
      BY <1>1, <2>3 DEF KnownCopy, Sources!Copies
    <3> QED
      BY <1>3, <3>1 DEF Sources!FormOf, Sources!Forms
  <2>5. SourceUi(ui', server.source)
      BY <1>1, <2>2, <2>4 DEF SourceUi
  <2> QED
    BY <2>1, <2>5, SourcesPageStep
<1> QED
  BY <1>5, <1>6, <1>7, <1>8, <1>9, <1>10

\* What the continuations do to the screen.
LEMMA ScreenStaysOfTheSource ==
  ASSUME NEW source, SourceUi(ui, source), NEW copy, KnownCopy(copy, source), NEW b \in BOOLEAN
  PROVE  /\ SourceUi([ui EXCEPT !.busy = ""], source)
         /\ SourceUi([ui EXCEPT !.testing = FALSE], source)
         /\ SourceUi([ui EXCEPT !.deleting = FALSE], source)
         /\ SourceUi([ui EXCEPT !.panel = "none"], source)
         /\ SourceUi([ui EXCEPT !.form = [ui.form EXCEPT !.probed = b]], source)
         /\ SourceUi([ui EXCEPT !.form = [ui.form EXCEPT !.base = copy]], source)
         /\ \A u : SourceUi(u, source) => SourceUi([u EXCEPT !.source = copy], source)
<1>1. ui.form \in Sources!Forms /\ copy \in Sources!Copies
  BY DEF SourceUi, KnownCopy
<1>2. /\ [ui.form EXCEPT !.probed = b] \in Sources!Forms
      /\ [ui.form EXCEPT !.probed = b].base = ui.form.base
      /\ [ui.form EXCEPT !.base = copy] \in Sources!Forms
      /\ [ui.form EXCEPT !.base = copy].base = copy
  BY <1>1 DEF Sources!Forms
<1>3. /\ SourceUi([ui EXCEPT !.busy = ""], source)
      /\ SourceUi([ui EXCEPT !.testing = FALSE], source)
      /\ SourceUi([ui EXCEPT !.deleting = FALSE], source)
      /\ SourceUi([ui EXCEPT !.panel = "none"], source)
  BY DEF SourceUi, Sources!Panels
<1>4. ASSUME NEW form \in Sources!Forms, KnownCopy(form.base, source)
      PROVE  SourceUi([ui EXCEPT !.form = form], source)
  BY <1>4 DEF SourceUi
<1>5. /\ SourceUi([ui EXCEPT !.form = [ui.form EXCEPT !.probed = b]], source)
      /\ SourceUi([ui EXCEPT !.form = [ui.form EXCEPT !.base = copy]], source)
  BY <1>2, <1>4 DEF SourceUi
<1>6. ASSUME NEW u, SourceUi(u, source) PROVE SourceUi([u EXCEPT !.source = copy], source)
  BY <1>1, <1>6 DEF SourceUi
<1> QED
  BY <1>3, <1>5, <1>6

\* An answer, or that there is none, reaches the page.
LEMMA SourcesHear ==
  ASSUME SourcesInv, Sources!Deliver
  PROVE  SourcesInv'
<1>1. PICK asked \in requests : \E c \in Sources!Heard(asked) :
        LET others == Sources!Others(asked) IN
          \/ Sources!ListArrives(c, others) \/ Sources!SavedAndChecked(c, others)
          \/ Sources!RowTestEnds(c, others) \/ Sources!ToggleEnds(c, others)
          \/ Sources!DeleteEnds(c, others) \/ Sources!TryEnds(c, others)
          \/ Sources!SaveEnds(c, others) \/ Sources!CheckEnds(c, others)
  BY DEF Sources!Deliver
<1> DEFINE others == Sources!Others(asked)
<1>2. PICK c \in Sources!Heard(asked) :
          \/ Sources!ListArrives(c, others) \/ Sources!SavedAndChecked(c, others)
          \/ Sources!RowTestEnds(c, others) \/ Sources!ToggleEnds(c, others)
          \/ Sources!DeleteEnds(c, others) \/ Sources!TryEnds(c, others)
          \/ Sources!SaveEnds(c, others) \/ Sources!CheckEnds(c, others)
  BY <1>1
<1>3. KnownCopy(c.copy, server.source) /\ c.editor \in {0, 1} /\ (c.stage = "ok") \in BOOLEAN
  <2>1. SourceCall(asked, server.source)
    BY DEF SourcesInv
  <2>2. c = asked \/ c = [asked EXCEPT !.stage = "failed"]
    BY DEF Sources!Heard
  <2>3. c.copy = asked.copy /\ c.editor = asked.editor
    BY <2>1, <2>2 DEF SourceCall
  <2> QED
    BY <2>1, <2>3 DEF SourceCall
<1>4. /\ server' = server /\ SourceUi(ui, server.source)
      /\ KnownCopy(Sources!NoCopy, server.source) /\ \A d \in others : d \in requests
  BY CopiesAreKnown DEF SourcesInv, Sources!Deliver, Sources!Others
<1>5. ASSUME SourceUi(ui', server.source), NEW op \in Sources!Ops,
             \/ requests' = others
             \/ Sources!Then(others, Sources!Plain(op))
             \/ Sources!Then(others, [Sources!Plain(op) EXCEPT !.editor = c.editor])
      PROVE  SourcesInv'
  <2> DEFINE plain == Sources!Request(op, Sources!NoCopy)
             typed == [plain EXCEPT !.editor = c.editor]
  <2>1. SourceCall(plain, server.source) /\ SourceCall(typed, server.source)
    BY <1>3, <1>4, RequestsAreOfTheSource
  <2>2. \/ requests' = others \/ requests' = others \union {plain}
        \/ requests' = others \union {typed}
    BY <1>5 DEF Sources!Then, Sources!Plain
  <2> HIDE DEF plain, typed, others
  <2>3. \A d \in requests' : d \in requests \/ SourceCall(d, server.source)
    BY <1>4, <2>1, <2>2
  <2> QED
    BY <1>4, <1>5, <2>3, SourcesPageStep
<1>6. /\ SourceUi(Sources!Free(c), server.source)
      /\ SourceUi([ui EXCEPT !.busy = ""], server.source)
      /\ SourceUi([ui EXCEPT !.testing = FALSE], server.source)
      /\ SourceUi([ui EXCEPT !.deleting = FALSE], server.source)
      /\ SourceUi([ui EXCEPT !.panel = "none"], server.source)
      /\ \A b \in BOOLEAN :
           SourceUi([ui EXCEPT !.form = [ui.form EXCEPT !.probed = b]], server.source)
      /\ SourceUi([ui EXCEPT !.form = [ui.form EXCEPT !.base = c.copy]], server.source)
      /\ \A u : SourceUi(u, server.source) => SourceUi([u EXCEPT !.source = c.copy], server.source)
  BY <1>3, <1>4, ScreenStaysOfTheSource DEF Sources!Free
<1>7. /\ {"list", "listThenClose", "listThenStay", "listTested", "listDeleted", "check"}
           \subseteq Sources!Ops
  BY DEF Sources!Ops
<1>8. CASE Sources!ListArrives(c, others)
  <2>1. PICK u \in {ui, Sources!Free(c), [ui EXCEPT !.testing = FALSE],
                    [ui EXCEPT !.deleting = FALSE]} :
          ui' = [u EXCEPT !.source = c.copy] \/ ui' = u
    BY <1>8 DEF Sources!ListArrives
  <2>2. SourceUi(u, server.source)
    BY <1>4, <1>6, <2>1
  <2>3. SourceUi(ui', server.source)
    BY <1>6, <2>1, <2>2
  <2> QED
    BY <1>5, <1>7, <1>8, <2>3 DEF Sources!ListArrives
<1>9. CASE Sources!SavedAndChecked(c, others)
  <2>1. CASE ui' = Sources!Free(c) \/ ui' = [ui EXCEPT !.source = c.copy]
    BY <1>4, <1>5, <1>6, <1>7, <1>9, <2>1 DEF Sources!SavedAndChecked
  <2>2. CASE ui' = [ui EXCEPT !.source = c.copy, !.panel = "none", !.form = Sources!NoForm,
                              !.busy = "", !.editor = 0]
    <3>1. /\ Sources!NoForm \in Sources!Forms
          /\ KnownCopy(Sources!NoForm.base, server.source)
      <4>1. KnownCopy([Sources!NoCopy EXCEPT !.probed = FALSE], server.source)
        BY <1>4, CopiesAreKnown DEF SourcesInv
      <4>2. Sources!NoCopy.probed \in BOOLEAN
        BY <1>4 DEF KnownCopy, Sources!Copies
      <4> QED
        BY <4>1, <4>2 DEF Sources!NoForm, Sources!FormOf, Sources!Forms, KnownCopy
    <3>2. PICK form : form = Sources!NoForm
      OBVIOUS
    <3>3. SourceUi(ui', server.source)
      BY <1>3, <1>4, <2>2, <3>1, <3>2 DEF SourceUi, KnownCopy, Sources!Panels
    <3> QED
      BY <1>5, <1>7, <1>9, <3>3 DEF Sources!SavedAndChecked
  <2>3. \/ ui' = Sources!Free(c) \/ ui' = [ui EXCEPT !.source = c.copy]
        \/ ui' = [ui EXCEPT !.source = c.copy, !.panel = "none", !.form = Sources!NoForm,
                            !.busy = "", !.editor = 0]
    BY <1>9 DEF Sources!SavedAndChecked
  <2> QED
    BY <2>1, <2>2, <2>3
<1>10. CASE Sources!RowTestEnds(c, others) \/ Sources!ToggleEnds(c, others)
            \/ Sources!DeleteEnds(c, others)
  <2>1. SourceUi(ui', server.source)
    BY <1>4, <1>6, <1>10 DEF Sources!RowTestEnds, Sources!ToggleEnds, Sources!DeleteEnds
  <2>2. \E op \in {"listTested", "list", "listDeleted"} :
          requests' = others \/ Sources!Then(others, Sources!Plain(op))
    BY <1>10 DEF Sources!RowTestEnds, Sources!ToggleEnds, Sources!DeleteEnds
  <2> QED
    BY <1>5, <1>7, <2>1, <2>2
<1>11. CASE Sources!TryEnds(c, others)
  <2>1. PICK b \in BOOLEAN : b = (c.stage = "ok")
    BY <1>3
  <2>2. ui' = ui \/ ui' = [ui EXCEPT !.busy = "",
                                     !.form = [ui.form EXCEPT !.probed = b]]
    BY <1>11, <2>1 DEF Sources!TryEnds
  <2>3. SourceUi(ui', server.source)
    <3>1. ui.form \in Sources!Forms
      BY <1>4 DEF SourceUi
    <3>2. /\ [ui.form EXCEPT !.probed = b] \in Sources!Forms
          /\ [ui.form EXCEPT !.probed = b].base = ui.form.base
      BY <3>1 DEF Sources!Forms
    <3> QED
      BY <1>4, <2>2, <3>2 DEF SourceUi
  <2> QED
    BY <1>5, <1>7, <1>11, <2>3 DEF Sources!TryEnds
<1>12. CASE Sources!SaveEnds(c, others) \/ Sources!CheckEnds(c, others)
  <2>1. \/ ui' = ui \/ ui' = Sources!Free(c)
        \/ ui' = [ui EXCEPT !.form = [ui.form EXCEPT !.base = c.copy]]
        \/ ui' = [ui EXCEPT !.form = [ui.form EXCEPT !.probed = TRUE]]
    BY <1>12 DEF Sources!SaveEnds, Sources!CheckEnds
  <2>2. SourceUi(ui', server.source)
    BY <1>4, <1>6, <2>1
  <2>3. \E op \in {"check", "listThenClose", "listThenStay"} :
          \/ requests' = others
          \/ Sources!Then(others, [Sources!Plain(op) EXCEPT !.editor = c.editor])
    BY <1>12 DEF Sources!SaveEnds, Sources!CheckEnds
  <2> QED
    BY <1>5, <1>7, <2>2, <2>3
<1> QED
  BY <1>2, <1>8, <1>9, <1>10, <1>11, <1>12

\* Another administrator saves the source.
LEMMA SourceSavedElsewhere ==
  ASSUME SourcesInv, Sources!OtherAdministratorSaves
  PROVE  SourcesInv'
<1>1. /\ ui' = ui /\ requests' = requests
      /\ server.source.exists /\ server.source.revision < MaxRevision
  BY DEF Sources!OtherAdministratorSaves
<1>2. PICK next \in Sources!Saved(server.source, FALSE) :
        server' = [server EXCEPT !.source = next]
  BY DEF Sources!OtherAdministratorSaves
<1>3. /\ SourceServer(server) /\ MaxRevision \in Nat
      /\ server.source.revision \in 0 .. MaxRevision
      /\ server.source.probe \in {-1, server.source.query}
  BY PagesAssumption DEF SourcesInv, SourceServer, Sources!Sources, Sources!Revisions, Sources!Nil
<1>4. PICK query \in {1, 2}, probe \in {-1, 1, 2} :
        /\ next = [exists |-> TRUE, revision |-> server.source.revision + 1,
                   entry |-> server.source.revision + 1, query |-> query, probe |-> probe]
        /\ probe \in {-1, query}
  <2>1. PICK query \in {1, 2} :
          next = [exists |-> TRUE, revision |-> server.source.revision + 1,
                  entry |-> server.source.revision + 1, query |-> query,
                  probe |-> IF query = server.source.query /\ ~FALSE
                              THEN server.source.probe ELSE Sources!Nil]
    BY <1>2 DEF Sources!Saved, Sources!Queries
  <2> QED
    BY <1>3, <2>1 DEF Sources!Nil
<1>5. next \in Sources!Sources /\ next.revision = server.source.revision + 1
  BY <1>1, <1>3, <1>4 DEF Sources!Sources, Sources!Revisions, Sources!Queries, Sources!Nil
<1>6. server'.source = next /\ SourceServer(server')
  BY <1>2, <1>3, <1>4, <1>5 DEF SourceServer, Sources!Nil
<1>7. SourceFollows(server'.source, server.source)
  BY <1>3, <1>5, <1>6 DEF SourceFollows
<1> QED
  BY <1>1, <1>6, <1>7, SourcesStep DEF SourcesInv

\* The page starts with what the list told of the source.
LEMMA SourcesStart == Sources!Init => SourcesInv
<1> SUFFICES ASSUME Sources!Init PROVE SourcesInv
  OBVIOUS
<1>1. PICK s \in {Sources!NoSource, [Sources!NoSource EXCEPT !.exists = TRUE]},
           place \in {"list", "setup"} :
        /\ server = [source |-> s, careless |-> FALSE]
        /\ ui = [place |-> place, source |-> Sources!CopyOf(s), panel |-> "none", editor |-> 0,
                 form |-> Sources!NoForm, busy |-> "", testing |-> FALSE, deleting |-> FALSE]
        /\ requests = {}
  BY DEF Sources!Init
<1>2. s \in Sources!Sources /\ s.entry = 0 /\ s.probe = Sources!Nil
  <2>1. 0 \in Sources!Revisions
    <3>1. MaxRevision \in Nat
      BY PagesAssumption
    <3> QED
      BY <3>1 DEF Sources!Revisions
  <2>2. Sources!NoSource \in Sources!Sources
    BY <2>1 DEF Sources!NoSource, Sources!Sources, Sources!Queries, Sources!Nil
  <2>3. Sources!NoSource.entry = 0 /\ Sources!NoSource.probe = Sources!Nil
    BY DEF Sources!NoSource
  <2> QED
    BY <2>2, <2>3 DEF Sources!Sources
<1>3. SourceServer(server) /\ server.source = s
  BY <1>1, <1>2 DEF SourceServer
<1>4. /\ KnownCopy(Sources!NoCopy, s) /\ KnownCopy(Sources!CopyOf(s), s)
      /\ KnownCopy([Sources!NoCopy EXCEPT !.probed = FALSE], s)
  BY <1>3, CopiesAreKnown
<1>5. Sources!NoForm \in Sources!Forms /\ KnownCopy(Sources!NoForm.base, s)
  BY <1>4 DEF Sources!NoForm, Sources!FormOf, Sources!Forms, KnownCopy, Sources!Copies
<1>6. SourceUi(ui, s)
  <2>1. PICK form, copy : form = Sources!NoForm /\ copy = Sources!CopyOf(s)
    OBVIOUS
  <2> QED
    BY <1>1, <1>4, <1>5, <2>1 DEF SourceUi, KnownCopy, Sources!Panels
<1> QED
  BY <1>1, <1>3, <1>6 DEF SourcesInv

\* Every step of the page keeps its invariant.
LEMMA SourcesKeep ==
  ASSUME SourcesInv, Sources!Next
  PROVE  SourcesInv'
  BY SourcesOperated, SourceServed, SourceSavedElsewhere, SourcesHear DEF Sources!Next

-----------------------------------------------------------------------------
(* The result of a connection test is stored for the connection it tested, *)
(* however tests, saves and deletions of the source overlap (testSource    *)
(* reads, probes without the lock and compares the revision it read;       *)
(* StoresOverAnything would not do).                                       *)
THEOREM ProbesStayWithTheirConnection == PagesSpec => []ProbesDescribeTheirSource
<1> DEFINE Inv == page = "sources" => SourcesInv
<1>1. PagesInit => Inv
  BY SourcesStart DEF PagesInit
<1>2. Inv /\ [PagesNext]_pagesVars => Inv'
  <2> SUFFICES ASSUME Inv, [PagesNext]_pagesVars, page' = "sources"
               PROVE  SourcesInv'
    OBVIOUS
  <2>1. CASE PagesNext
    <3>1. page = "sources" /\ Sources!Next
      BY <2>1 DEF PagesNext
    <3> QED
      BY <3>1, SourcesKeep
  <2>2. CASE UNCHANGED pagesVars
    BY <2>2 DEF pagesVars, SourcesInv
  <2> QED
    BY <2>1, <2>2
<1>3. Inv => ProbesDescribeTheirSource
  BY DEF ProbesDescribeTheirSource, Sources!ProbesDescribeTheirSource, SourcesInv, SourceServer
<1> QED
  BY <1>1, <1>2, <1>3, PTL DEF PagesSpec

(***************************************************************************)
(* The page that drafts, tries and publishes one query                     *)
(***************************************************************************)
\* What somebody holds of the query: its present view, or one of an earlier revision.
KnownView(v, s) ==
  /\ v \in QueryTools!Views
  /\ v.revision <= s.view.revision
  /\ v.revision = s.view.revision => v = s.view

\* An entry and the revision it was read at.
KnownEntry(revision, entry, s) ==
  /\ revision <= s.view.revision
  /\ revision = s.view.revision => entry = s.view.entry

\* Evidence of a call is of a call that was made.
Earned(e, s) == e \in QueryTools!Evidence /\ (e.called => <<e.agent, e.version>> \in s.called)

ToolsForm(f, s) ==
  /\ f \in QueryTools!Forms
  /\ KnownEntry(f.expected, f.entry, s)
  /\ f.latest # QueryTools!Nil => KnownEntry(f.latest, f.latestEntry, s)

ToolsServer(s) ==
  /\ s \in [view : QueryTools!Views, tried : BOOLEAN,
            called : SUBSET (QueryTools!Agents \X QueryTools!Revisions), careless : BOOLEAN]
  /\ s.view.revision >= 1
  /\ ~s.careless

ToolsUi(u, s) ==
  /\ u \in [loaded : BOOLEAN, view : QueryTools!Views, agent : QueryTools!Agents,
            ready : QueryTools!Evidence, form : QueryTools!Forms, busy : BOOLEAN,
            reviewing : BOOLEAN, waiting : BOOLEAN]
  /\ KnownView(u.view, s) /\ Earned(u.ready, s) /\ ToolsForm(u.form, s)

ToolsCall(c, s) ==
  /\ c \in QueryTools!Requests
  /\ KnownView(c.view, s) /\ Earned(c.evidence, s)
  /\ c.op \in {"save", "publish"} => KnownEntry(c.revision, c.entry, s)

ToolsInv ==
  /\ ToolsServer(server)
  /\ ToolsUi(ui, server)
  /\ \A c \in requests : ToolsCall(c, server)

\* The query's revision grows with what it is, and calls that were made stay made.
ToolsFollow(t, s) ==
  /\ s.called \subseteq t.called
  /\ t.view = s.view \/ t.view.revision > s.view.revision

LEMMA ToolsKnowledgeStays ==
  ASSUME NEW s, ToolsServer(s), NEW t, ToolsServer(t), ToolsFollow(t, s)
  PROVE  /\ \A u : ToolsUi(u, s) => ToolsUi(u, t)
         /\ \A c : ToolsCall(c, s) => ToolsCall(c, t)
<1>1. /\ s.view.revision \in 0 .. MaxPublications /\ t.view.revision \in 0 .. MaxPublications
      /\ MaxPublications \in Nat
  BY PagesAssumption DEF ToolsServer, QueryTools!Views, QueryTools!Revisions
<1>2. ASSUME NEW v, KnownView(v, s) PROVE KnownView(v, t)
  <2>1. v.revision \in 0 .. MaxPublications
    BY <1>2 DEF KnownView, QueryTools!Views, QueryTools!Revisions
  <2> QED
    BY <1>1, <1>2, <2>1 DEF KnownView, ToolsFollow
<1>3. ASSUME NEW e, Earned(e, s) PROVE Earned(e, t)
  BY <1>3 DEF Earned, ToolsFollow
<1>4. ASSUME NEW revision \in 0 .. MaxPublications, NEW entry, KnownEntry(revision, entry, s)
      PROVE  KnownEntry(revision, entry, t)
  BY <1>1, <1>4 DEF KnownEntry, ToolsFollow
<1>5. ASSUME NEW f, ToolsForm(f, s) PROVE ToolsForm(f, t)
  <2>1. f.expected \in 0 .. MaxPublications
        /\ (f.latest # QueryTools!Nil => f.latest \in 0 .. MaxPublications)
    BY <1>5 DEF ToolsForm, QueryTools!Forms, QueryTools!Revisions, QueryTools!Nil
  <2> QED
    BY <1>4, <1>5, <2>1 DEF ToolsForm
<1>6. ASSUME NEW u, ToolsUi(u, s) PROVE ToolsUi(u, t)
  BY <1>2, <1>3, <1>5, <1>6 DEF ToolsUi
<1>7. ASSUME NEW c, ToolsCall(c, s) PROVE ToolsCall(c, t)
  <2>1. c.revision \in 0 .. MaxPublications
    BY <1>7 DEF ToolsCall, QueryTools!Requests, QueryTools!Revisions
  <2> QED
    BY <1>2, <1>3, <1>4, <1>7, <2>1 DEF ToolsCall
<1> QED
  BY <1>6, <1>7

\* What a step has to show of server, screen and new requests.
LEMMA ToolsStep ==
  ASSUME ToolsInv, ToolsServer(server'), ToolsFollow(server', server),
         ToolsUi(ui', server) \/ ToolsUi(ui', server'),
         \A c \in requests' : c \in requests \/ ToolsCall(c, server) \/ ToolsCall(c, server')
  PROVE  ToolsInv'
<1>1. /\ \A u : ToolsUi(u, server) => ToolsUi(u, server')
      /\ \A c : ToolsCall(c, server) => ToolsCall(c, server')
  BY ToolsKnowledgeStays DEF ToolsInv
<1> QED
  BY <1>1 DEF ToolsInv

LEMMA ToolsPageStep ==
  ASSUME ToolsInv, server' = server, ToolsUi(ui', server),
         \A c \in requests' : c \in requests \/ ToolsCall(c, server)
  PROVE  ToolsInv'
<1>1. ToolsServer(server') /\ ToolsFollow(server', server)
  BY DEF ToolsInv, ToolsFollow
<1> QED
  BY <1>1, ToolsStep

\* Nothing is known by nobody: the empty view, form and evidence.
LEMMA BlankIsKnown ==
  ASSUME NEW s, ToolsServer(s)
  PROVE  /\ KnownView(QueryTools!Blank, s) /\ Earned(QueryTools!NoEvidence, s)
         /\ ToolsForm(QueryTools!NoForm, s)
         /\ 0 \in QueryTools!Revisions
<1>1. /\ MaxPublications \in Nat /\ s.view.revision \in 0 .. MaxPublications
      /\ s.view.revision >= 1
  BY PagesAssumption DEF ToolsServer, QueryTools!Views, QueryTools!Revisions
<1>2. 0 \in QueryTools!Revisions
  BY <1>1 DEF QueryTools!Revisions
<1>3. KnownView(QueryTools!Blank, s)
  BY <1>1, <1>2 DEF KnownView, QueryTools!Blank, QueryTools!Views
<1>4. Earned(QueryTools!NoEvidence, s)
  BY <1>2 DEF Earned, QueryTools!NoEvidence, QueryTools!Evidence, QueryTools!Agents
<1>5. ToolsForm(QueryTools!NoForm, s)
  BY <1>1, <1>2 DEF ToolsForm, QueryTools!NoForm, QueryTools!Forms, KnownEntry, QueryTools!Nil
<1> QED
  BY <1>2, <1>3, <1>4, <1>5

\* A request that is sent knows what it says it knows.
LEMMA ToolsRequests ==
  ASSUME NEW s, ToolsServer(s), NEW op \in QueryTools!Ops, NEW u, u.agent \in QueryTools!Agents,
         NEW revision \in QueryTools!Revisions, NEW entry \in QueryTools!Revisions,
         op \in {"save", "publish"} => KnownEntry(revision, entry, s)
  PROVE  ToolsCall(QueryTools!Request(op, u, revision, entry), s)
<1>1. PICK blank, none : blank = QueryTools!Blank /\ none = QueryTools!NoEvidence
  OBVIOUS
<1>2. KnownView(blank, s) /\ Earned(none, s)
  BY <1>1, BlankIsKnown
<1>3. blank \in QueryTools!Views /\ none \in QueryTools!Evidence
  BY <1>2 DEF KnownView, Earned
<1> QED
  BY <1>1, <1>2, <1>3 DEF ToolsCall, QueryTools!Request, QueryTools!Requests

\* A read asks for nothing in particular.
LEMMA ToolsReads ==
  ASSUME NEW s, ToolsServer(s), NEW op \in QueryTools!Ops
  PROVE  ToolsCall(QueryTools!Read(op), s)
<1>1. QueryTools!Fresh.agent \in QueryTools!Agents
  BY DEF QueryTools!Fresh, QueryTools!Agents
<1>2. KnownEntry(0, 0, s)
  <2>1. s.view.revision \in 0 .. MaxPublications /\ s.view.revision >= 1
    BY DEF ToolsServer, QueryTools!Views, QueryTools!Revisions
  <2>2. MaxPublications \in Nat
    BY PagesAssumption
  <2> QED
    BY <2>1, <2>2 DEF KnownEntry
<1> QED
  BY <1>1, <1>2, BlankIsKnown, ToolsRequests DEF QueryTools!Read

\* Following a screen asks for the readiness it shows.
LEMMA ToolsFollowScreen ==
  ASSUME NEW s, ToolsServer(s), NEW u, ToolsUi(u, s), NEW others, QueryTools!Follow(u, others)
  PROVE  /\ ToolsUi(ui', s)
         /\ \A c \in requests' : c \in others \/ ToolsCall(c, s)
<1>1. ui' = u \/ ui' = [u EXCEPT !.waiting = FALSE]
  BY DEF QueryTools!Follow
<1>2. ToolsUi(ui', s)
  BY <1>1 DEF ToolsUi
<1>3. ToolsCall(QueryTools!Readiness(u), s)
  <2>1. u.agent \in QueryTools!Agents /\ u.view.revision \in QueryTools!Revisions
    BY DEF ToolsUi, QueryTools!Views
  <2>2. 0 \in QueryTools!Revisions /\ "ready" \in QueryTools!Ops
    BY BlankIsKnown DEF QueryTools!Ops
  <2> QED
    BY <2>1, <2>2, ToolsRequests DEF QueryTools!Readiness
<1>4. \A c \in requests' : c \in others \/ c = QueryTools!Readiness(u)
  BY DEF QueryTools!Follow
<1> QED
  BY <1>2, <1>3, <1>4

\* What the administrator does on the page and in its form.
LEMMA ToolsOperated ==
  ASSUME ToolsInv,
         \/ QueryTools!ReloadDraft \/ QueryTools!RefreshEvidence \/ QueryTools!ChooseAgent
         \/ QueryTools!OpenEditor \/ QueryTools!CancelEditing \/ QueryTools!SaveDraft
         \/ QueryTools!ReviewServerEntry \/ QueryTools!KeepMyEdits \/ QueryTools!RunChecks
         \/ QueryTools!OpenReview \/ QueryTools!CloseReview \/ QueryTools!Publish
         \/ QueryTools!WaitForCall \/ QueryTools!StopWaiting
  PROVE  ToolsInv'
<1>1. ToolsServer(server) /\ ToolsUi(ui, server)
  BY DEF ToolsInv
<1>2. /\ ui.agent \in QueryTools!Agents /\ ui.view.revision \in QueryTools!Revisions
      /\ ui.view.entry \in QueryTools!Revisions /\ ui.view.published \in QueryTools!Revisions
      /\ KnownEntry(ui.view.revision, ui.view.entry, server)
      /\ ui.form \in QueryTools!Forms /\ ToolsForm(ui.form, server)
      /\ 0 \in QueryTools!Revisions /\ QueryTools!NoForm \in QueryTools!Forms
      /\ ToolsForm(QueryTools!NoForm, server)
  BY <1>1, BlankIsKnown DEF ToolsUi, KnownView, KnownEntry, QueryTools!Views, ToolsForm
<1>3. ASSUME server' = server, ToolsUi(ui', server), NEW r, ToolsCall(r, server),
             \A c \in requests' : c \in requests \/ c = r
      PROVE  ToolsInv'
  BY <1>3, ToolsPageStep
<1>4. ASSUME server' = server, ToolsUi(ui', server), \A c \in requests' : c \in requests
      PROVE  ToolsInv'
  BY <1>4, ToolsPageStep
<1>5. ASSUME NEW f, ToolsForm(f, server) PROVE ToolsUi([ui EXCEPT !.form = f], server)
  BY <1>1, <1>5 DEF ToolsUi, ToolsForm
<1>6. CASE QueryTools!ReloadDraft \/ QueryTools!RefreshEvidence
  <2>1. PICK op \in {"load", "refresh"} :
          \A c \in requests' : c \in requests \/ c = QueryTools!Read(op)
    BY <1>6 DEF QueryTools!ReloadDraft, QueryTools!RefreshEvidence, QueryTools!Ask
  <2>2. ToolsCall(QueryTools!Read(op), server)
    BY <1>1, ToolsReads DEF QueryTools!Ops
  <2>3. server' = server /\ ToolsUi(ui', server)
    BY <1>1, <1>6 DEF QueryTools!ReloadDraft, QueryTools!RefreshEvidence, ToolsUi
  <2> QED
    BY <1>3, <2>1, <2>2, <2>3
<1>7. CASE QueryTools!ChooseAgent
  <2>1. PICK a \in QueryTools!Agents : QueryTools!Follow([ui EXCEPT !.agent = a], requests)
    BY <1>7 DEF QueryTools!ChooseAgent
  <2>2. ToolsUi([ui EXCEPT !.agent = a], server)
    BY <1>1 DEF ToolsUi
  <2>3. /\ ToolsUi(ui', server)
        /\ \A c \in requests' : c \in requests \/ ToolsCall(c, server)
    BY <1>1, <2>1, <2>2, ToolsFollowScreen
  <2>4. server' = server
    BY <1>7 DEF QueryTools!ChooseAgent
  <2> QED
    BY <2>3, <2>4, ToolsPageStep
<1>8. CASE QueryTools!OpenEditor
  <2> DEFINE f == [QueryTools!NoForm EXCEPT !.open = TRUE, !.entry = ui.view.entry,
                                            !.expected = ui.view.revision]
  <2>1. /\ f \in QueryTools!Forms /\ f.expected = ui.view.revision /\ f.entry = ui.view.entry
        /\ f.latest = QueryTools!Nil
    BY <1>2 DEF QueryTools!NoForm, QueryTools!Forms, QueryTools!Nil
  <2>2. ToolsForm(f, server)
    <3> HIDE DEF f
    <3> QED
      BY <1>2, <2>1 DEF ToolsForm
  <2>3. /\ server' = server /\ \A c \in requests' : c \in requests
        /\ ui' = [ui EXCEPT !.reviewing = FALSE, !.waiting = FALSE, !.form = f]
    BY <1>8 DEF QueryTools!OpenEditor
  <2>4. ToolsUi(ui', server)
    <3> HIDE DEF f
    <3> QED
      BY <1>1, <2>2, <2>3 DEF ToolsUi, ToolsForm
  <2> QED
    BY <1>4, <2>3, <2>4
<1>9. CASE QueryTools!CancelEditing
  <2>1. /\ server' = server /\ \A c \in requests' : c \in requests
        /\ ui' = [ui EXCEPT !.form = QueryTools!NoForm]
    BY <1>9 DEF QueryTools!CancelEditing
  <2> QED
    BY <1>2, <1>4, <1>5, <2>1
<1>10. ToolsUi([ui EXCEPT !.form = [ui.form EXCEPT !.saving = TRUE]], server)
  <2>1. ToolsForm([ui.form EXCEPT !.saving = TRUE], server)
    BY <1>2 DEF ToolsForm, QueryTools!Forms
  <2> QED
    BY <1>5, <2>1
<1>11. CASE QueryTools!SaveDraft
  <2>1. /\ server' = server /\ ui' = [ui EXCEPT !.form = [ui.form EXCEPT !.saving = TRUE]]
        /\ \A c \in requests' : \/ c \in requests
                                \/ c = QueryTools!Request("save", ui, ui.form.expected,
                                                          ui.form.entry)
    BY <1>11 DEF QueryTools!SaveDraft, QueryTools!Ask
  <2>2. /\ ui.form.expected \in QueryTools!Revisions /\ ui.form.entry \in QueryTools!Revisions
        /\ KnownEntry(ui.form.expected, ui.form.entry, server)
    BY <1>2 DEF ToolsForm, QueryTools!Forms
  <2>3. ToolsCall(QueryTools!Request("save", ui, ui.form.expected, ui.form.entry), server)
    BY <1>1, <1>2, <2>2, ToolsRequests DEF QueryTools!Ops
  <2> QED
    BY <1>3, <1>10, <2>1, <2>3
<1>12. CASE QueryTools!ReviewServerEntry
  <2>1. /\ server' = server /\ ui' = [ui EXCEPT !.form = [ui.form EXCEPT !.saving = TRUE]]
        /\ \A c \in requests' : c \in requests \/ c = QueryTools!Read("latest")
    BY <1>12 DEF QueryTools!ReviewServerEntry, QueryTools!Ask
  <2>2. ToolsCall(QueryTools!Read("latest"), server)
    BY <1>1, ToolsReads DEF QueryTools!Ops
  <2> QED
    BY <1>3, <1>10, <2>1, <2>2
<1>13. CASE QueryTools!KeepMyEdits
  <2> DEFINE f == [ui.form EXCEPT !.expected = ui.form.latest, !.conflict = FALSE,
                                  !.entry = ui.form.latestEntry, !.latest = QueryTools!Nil,
                                  !.latestEntry = 0]
  <2>1. /\ server' = server /\ \A c \in requests' : c \in requests
        /\ ui' = [ui EXCEPT !.form = f] /\ ui.form.latest # QueryTools!Nil
    BY <1>13 DEF QueryTools!KeepMyEdits
  <2>2. /\ f \in QueryTools!Forms /\ f.expected = ui.form.latest
        /\ f.entry = ui.form.latestEntry /\ f.latest = QueryTools!Nil
    BY <1>2, <2>1 DEF QueryTools!Forms
  <2>3. KnownEntry(ui.form.latest, ui.form.latestEntry, server)
    BY <1>2, <2>1 DEF ToolsForm
  <2>4. ToolsForm(f, server)
    <3> HIDE DEF f
    <3> QED
      BY <2>2, <2>3 DEF ToolsForm
  <2> HIDE DEF f
  <2> QED
    BY <1>4, <1>5, <2>1, <2>4
<1>14. CASE QueryTools!RunChecks \/ QueryTools!Publish
  <2>1. PICK op \in {"trial", "publish"} :
          \A c \in requests' :
            c \in requests
              \/ c = QueryTools!Request(op, ui, ui.view.revision, ui.view.entry)
    BY <1>14 DEF QueryTools!RunChecks, QueryTools!Publish, QueryTools!Ask, QueryTools!Plain
  <2>2. ToolsCall(QueryTools!Request(op, ui, ui.view.revision, ui.view.entry), server)
    BY <1>1, <1>2, ToolsRequests DEF QueryTools!Ops
  <2>3. server' = server /\ ToolsUi(ui', server)
    BY <1>1, <1>14 DEF QueryTools!RunChecks, QueryTools!Publish, ToolsUi
  <2> QED
    BY <1>3, <2>1, <2>2, <2>3
<1>15. CASE QueryTools!OpenReview \/ QueryTools!CloseReview \/ QueryTools!StopWaiting
  <2>1. /\ server' = server /\ ToolsUi(ui', server)
        /\ \A c \in requests' : c \in requests
    BY <1>1, <1>15 DEF QueryTools!OpenReview, QueryTools!CloseReview, QueryTools!StopWaiting,
       ToolsUi
  <2> QED
    BY <1>4, <2>1
<1>16. CASE QueryTools!WaitForCall
  <2>1. ToolsCall(QueryTools!Request("poll", ui, 0, ui.view.published), server)
    BY <1>1, <1>2, ToolsRequests DEF QueryTools!Ops
  <2>2. /\ server' = server /\ ToolsUi(ui', server)
        /\ \A c \in requests' : \/ c \in requests
                                \/ c = QueryTools!Request("poll", ui, 0, ui.view.published)
    BY <1>1, <1>16 DEF QueryTools!WaitForCall, QueryTools!Ask, ToolsUi
  <2> QED
    BY <1>3, <2>1, <2>2
<1> QED
  BY <1>6, <1>7, <1>8, <1>9, <1>11, <1>12, <1>13, <1>14, <1>15, <1>16

\* An answer carries what the server knows.
LEMMA ToolsAnswers ==
  ASSUME NEW s, ToolsServer(s), NEW c, c \in QueryTools!Requests,
         NEW stage \in {"ok", "conflict"}, NEW view, KnownView(view, s),
         NEW evidence, Earned(evidence, s), QueryTools!Answer(c, stage, view, evidence),
         c.op \notin {"save", "publish"} \/ KnownEntry(c.revision, c.entry, s)
  PROVE  \A d \in requests' : d \in requests \/ ToolsCall(d, s)
<1>1. PICK base : base = IF c.op = "poll" THEN c ELSE QueryTools!Read(c.op)
  OBVIOUS
<1>2. c.op \in QueryTools!Ops
  BY DEF QueryTools!Requests
<1>3. ToolsCall(QueryTools!Read(c.op), s)
  BY <1>2, ToolsReads
<1>4. /\ base \in QueryTools!Requests
      /\ base.op \in {"save", "publish"} => KnownEntry(base.revision, base.entry, s)
  BY <1>1, <1>3 DEF ToolsCall
<1>5. view \in QueryTools!Views /\ evidence \in QueryTools!Evidence
  BY DEF KnownView, Earned
<1>6. PICK a : a = [base EXCEPT !.stage = stage, !.view = view, !.evidence = evidence]
  OBVIOUS
<1>7. /\ a \in QueryTools!Requests /\ a.view = view /\ a.evidence = evidence
      /\ a.op = base.op /\ a.revision = base.revision /\ a.entry = base.entry
  BY <1>4, <1>5, <1>6 DEF QueryTools!Requests
<1>8. ToolsCall(a, s)
  BY <1>4, <1>7 DEF ToolsCall
<1>9. \A d \in requests' : d \in requests \/ d = a
  BY <1>1, <1>6 DEF QueryTools!Answer
<1> QED
  BY <1>8, <1>9

\* The server's writes take the query to a later revision.
LEMMA ToolsWritten ==
  ASSUME ToolsServer(server), server.view.revision < MaxPublications,
         NEW next, next \in QueryTools!Views, next.revision = server.view.revision + 1,
         NEW tried \in BOOLEAN,
         server' = [view |-> next, tried |-> tried, called |-> server.called,
                    careless |-> FALSE]
  PROVE  /\ ToolsServer(server') /\ ToolsFollow(server', server)
         /\ KnownView(next, server')
<1>1. server.view.revision \in 0 .. MaxPublications /\ MaxPublications \in Nat
  BY PagesAssumption DEF ToolsServer, QueryTools!Views, QueryTools!Revisions
<1>2. ToolsServer(server')
  BY <1>1 DEF ToolsServer
<1>3. ToolsFollow(server', server)
  BY <1>1 DEF ToolsFollow
<1>4. KnownView(next, server')
  BY <1>1 DEF KnownView
<1> QED
  BY <1>2, <1>3, <1>4

\* The query a write leaves.
LEMMA BumpedView ==
  ASSUME ToolsServer(server), server.view.revision < MaxPublications
  PROVE  /\ QueryTools!Bump(server.view) \in QueryTools!Views
         /\ QueryTools!Bump(server.view).revision = server.view.revision + 1
         /\ server.view.revision + 1 \in QueryTools!Revisions
<1>1. /\ server.view.revision \in 0 .. MaxPublications /\ MaxPublications \in Nat
      /\ server.view \in QueryTools!Views
  BY PagesAssumption DEF ToolsServer, QueryTools!Views, QueryTools!Revisions
<1>2. server.view.revision + 1 \in QueryTools!Revisions
  BY <1>1 DEF QueryTools!Revisions
<1> QED
  BY <1>1, <1>2 DEF QueryTools!Bump, QueryTools!Views

\* The server reads, saves, tries, publishes or refuses.
LEMMA ToolsServed ==
  ASSUME ToolsInv, QueryTools!Serve
  PROVE  ToolsInv'
<1>1. PICK c \in requests :
        \/ QueryTools!ServeRead(c) \/ QueryTools!ServeSave(c) \/ QueryTools!ServeTrial(c)
        \/ QueryTools!ServePublish(c) \/ QueryTools!Refuse(c)
  BY DEF QueryTools!Serve
<1>2. ui' = ui /\ ToolsServer(server) /\ ToolsUi(ui, server) /\ ToolsCall(c, server)
  BY DEF QueryTools!Serve, ToolsInv
<1>3. /\ c \in QueryTools!Requests /\ server.view \in QueryTools!Views
      /\ server.view.revision \in QueryTools!Revisions
      /\ server.view.entry \in QueryTools!Revisions
      /\ server.view.published \in QueryTools!Revisions
      /\ server.careless = FALSE
  BY <1>2 DEF ToolsCall, ToolsServer, QueryTools!Views
<1>4. /\ KnownView(QueryTools!Blank, server) /\ Earned(QueryTools!NoEvidence, server)
      /\ KnownView(server.view, server)
  <2>1. KnownView(server.view, server)
    <3>1. MaxPublications \in Nat
      BY PagesAssumption
    <3>2. server.view.revision <= server.view.revision
      BY <1>3, <3>1 DEF QueryTools!Revisions
    <3> QED
      BY <1>3, <3>2 DEF KnownView
  <2> QED
    BY <1>2, <2>1, BlankIsKnown
<1>5. c.op \notin {"save", "publish"} \/ KnownEntry(c.revision, c.entry, server)
  BY <1>2 DEF ToolsCall
<1>6. ASSUME ToolsServer(server'), ToolsFollow(server', server),
             NEW stage \in {"ok", "conflict"}, NEW view, KnownView(view, server'),
             NEW evidence, Earned(evidence, server'),
             QueryTools!Answer(c, stage, view, evidence)
      PROVE  ToolsInv'
  <2>1. ToolsCall(c, server')
    BY <1>2, <1>6, ToolsKnowledgeStays
  <2>2. c.op \notin {"save", "publish"} \/ KnownEntry(c.revision, c.entry, server')
    BY <2>1 DEF ToolsCall
  <2>3. \A d \in requests' : d \in requests \/ ToolsCall(d, server')
    BY <1>3, <1>6, <2>2, ToolsAnswers
  <2> QED
    BY <1>2, <1>6, <2>3, ToolsStep
<1>7. ToolsFollow(server, server)
  BY DEF ToolsFollow
<1>8. CASE QueryTools!ServeRead(c)
  <2>1. Earned(QueryTools!EvidenceOf(c), server)
    <3>1. /\ c.revision \in QueryTools!Revisions \union {QueryTools!Nil}
          /\ c.agent \in QueryTools!Agents
      BY <1>3 DEF QueryTools!Requests
    <3>2. PICK b \in BOOLEAN : b <=> (<<c.agent, server.view.published>> \in server.called)
      <4>1. (<<c.agent, server.view.published>> \in server.called) \in BOOLEAN
        OBVIOUS
      <4> QED
        BY <4>1
    <3>3. QueryTools!EvidenceOf(c)
            = [key |-> c.revision, agent |-> c.agent, version |-> server.view.published,
               called |-> b]
      <4>1. b = (<<c.agent, server.view.published>> \in server.called)
        BY <3>2
      <4> QED
        BY <4>1 DEF QueryTools!EvidenceOf
    <3>4. PICK e : e = QueryTools!EvidenceOf(c)
      OBVIOUS
    <3>5. /\ e \in QueryTools!Evidence /\ e.agent = c.agent
          /\ e.version = server.view.published /\ e.called = b
      BY <1>3, <3>1, <3>3, <3>4 DEF QueryTools!Evidence
    <3> QED
      BY <3>2, <3>4, <3>5 DEF Earned
  <2>2. server' = server
    BY <1>8 DEF QueryTools!ServeRead
  <2>3. \/ QueryTools!Answer(c, "ok", server.view, QueryTools!NoEvidence)
        \/ QueryTools!Answer(c, "ok", QueryTools!Blank, QueryTools!EvidenceOf(c))
    BY <1>8 DEF QueryTools!ServeRead
  <2> QED
    BY <1>2, <1>4, <1>6, <1>7, <2>1, <2>2, <2>3
<1>9. CASE QueryTools!ServeSave(c)
  <2>1. /\ c.op = "save" /\ c.revision = server.view.revision
        /\ server.view.revision < MaxPublications
    BY <1>9 DEF QueryTools!ServeSave
  <2>2. PICK next : next = [QueryTools!Bump(server.view) EXCEPT !.entry = c.revision + 1]
    OBVIOUS
  <2>3. next \in QueryTools!Views /\ next.revision = server.view.revision + 1
    BY <1>2, <2>1, <2>2, BumpedView DEF QueryTools!Views
  <2>4. c.entry = server.view.entry
    BY <1>5, <2>1 DEF KnownEntry
  <2>5. server' = [view |-> next, tried |-> FALSE, called |-> server.called,
                   careless |-> FALSE]
    <3>1. server' = [server EXCEPT !.view = next, !.tried = FALSE,
                                   !.careless = server.careless \/ c.entry # server.view.entry]
      BY <1>9, <2>2 DEF QueryTools!ServeSave
    <3>2. server' = [server EXCEPT !.view = next, !.tried = FALSE, !.careless = FALSE]
      BY <1>3, <2>4, <3>1
    <3> QED
      BY <1>2, <3>2 DEF ToolsServer
  <2>6. QueryTools!Answer(c, "ok", next, QueryTools!NoEvidence)
    BY <1>9, <2>2 DEF QueryTools!ServeSave
  <2>7. /\ ToolsServer(server') /\ ToolsFollow(server', server) /\ KnownView(next, server')
    BY <1>2, <2>1, <2>3, <2>5, ToolsWritten
  <2> QED
    BY <1>6, <2>6, <2>7, BlankIsKnown
<1>10. CASE QueryTools!ServeTrial(c)
  <2>1. /\ server' = [server EXCEPT !.tried = TRUE]
        /\ QueryTools!Answer(c, "ok", QueryTools!Blank, QueryTools!NoEvidence)
    BY <1>10 DEF QueryTools!ServeTrial
  <2>2. ToolsServer(server') /\ ToolsFollow(server', server)
    BY <1>2, <2>1 DEF ToolsServer, ToolsFollow
  <2> QED
    BY <1>6, <2>1, <2>2, BlankIsKnown
<1>11. CASE QueryTools!ServePublish(c)
  <2>1. /\ c.op = "publish" /\ c.revision = server.view.revision
        /\ server.view.revision < MaxPublications
    BY <1>11 DEF QueryTools!ServePublish
  <2>2. PICK next : next = [QueryTools!Bump(server.view) EXCEPT !.published = server.view.entry]
    OBVIOUS
  <2>3. next \in QueryTools!Views /\ next.revision = server.view.revision + 1
    BY <1>2, <1>3, <2>1, <2>2, BumpedView DEF QueryTools!Views
  <2>4. c.entry = server.view.entry
    BY <1>5, <2>1 DEF KnownEntry
  <2>5. /\ server' = [view |-> next, tried |-> server.tried, called |-> server.called,
                      careless |-> FALSE]
        /\ server.tried \in BOOLEAN
    <3>1. server' = [server EXCEPT !.view = next,
                                   !.careless = server.careless \/ c.entry # server.view.entry]
      BY <1>11, <2>2 DEF QueryTools!ServePublish
    <3>2. server' = [server EXCEPT !.view = next, !.careless = FALSE]
      BY <1>3, <2>4, <3>1
    <3> QED
      BY <1>2, <3>2 DEF ToolsServer
  <2>6. QueryTools!Answer(c, "ok", next, QueryTools!NoEvidence)
    BY <1>11, <2>2 DEF QueryTools!ServePublish
  <2>7. /\ ToolsServer(server') /\ ToolsFollow(server', server) /\ KnownView(next, server')
    BY <1>2, <2>1, <2>3, <2>5, ToolsWritten
  <2> QED
    BY <1>6, <2>6, <2>7, BlankIsKnown
<1>12. CASE QueryTools!Refuse(c)
  <2>1. /\ server' = server
        /\ QueryTools!Answer(c, "conflict", QueryTools!Blank, QueryTools!NoEvidence)
    BY <1>12 DEF QueryTools!Refuse
  <2> QED
    BY <1>2, <1>4, <1>6, <1>7, <2>1
<1> QED
  BY <1>1, <1>8, <1>9, <1>10, <1>11, <1>12

\* Another administrator writes, and Agents call the published query.
LEMMA ToolsElsewhere ==
  ASSUME ToolsInv, QueryTools!OtherAdministratorWrites \/ QueryTools!AgentCalls
  PROVE  ToolsInv'
<1>1. /\ ToolsServer(server) /\ ToolsUi(ui, server) /\ ui' = ui /\ requests' = requests
  BY DEF QueryTools!OtherAdministratorWrites, QueryTools!AgentCalls, ToolsInv
<1>2. CASE QueryTools!OtherAdministratorWrites
  <2>1. server.view.revision < MaxPublications
    BY <1>2 DEF QueryTools!OtherAdministratorWrites
  <2>2. PICK next : next = QueryTools!Bump(server.view)
    OBVIOUS
  <2>3. /\ next \in QueryTools!Views /\ next.revision = server.view.revision + 1
        /\ next.revision \in QueryTools!Revisions /\ next.entry \in QueryTools!Revisions
    BY <1>1, <2>1, <2>2, BumpedView DEF QueryTools!Views
  <2>4. PICK view \in {next, [next EXCEPT !.entry = next.revision],
                       [next EXCEPT !.published = next.entry]}, tried \in BOOLEAN :
          server' = [server EXCEPT !.view = view, !.tried = tried]
    <3>1. \/ server' = [server EXCEPT !.view = next]
          \/ server' = [server EXCEPT !.view = [next EXCEPT !.entry = next.revision],
                                      !.tried = FALSE]
          \/ server' = [server EXCEPT !.view = [next EXCEPT !.published = next.entry],
                                      !.tried = TRUE]
      BY <1>2, <2>2 DEF QueryTools!OtherAdministratorWrites
    <3>2. server.tried \in BOOLEAN
          /\ [server EXCEPT !.view = next] = [server EXCEPT !.view = next, !.tried = server.tried]
      BY <1>1 DEF ToolsServer
    <3> QED
      BY <3>1, <3>2
  <2>5. view \in QueryTools!Views /\ view.revision = server.view.revision + 1
    BY <2>3, <2>4 DEF QueryTools!Views
  <2>6. server' = [view |-> view, tried |-> tried, called |-> server.called,
                   careless |-> FALSE]
    BY <1>1, <2>4 DEF ToolsServer
  <2>7. ToolsServer(server') /\ ToolsFollow(server', server)
    BY <1>1, <2>1, <2>5, <2>6, ToolsWritten
  <2> QED
    BY <1>1, <2>7, ToolsStep
<1>3. CASE QueryTools!AgentCalls
  <2>1. PICK a \in QueryTools!Agents :
          server' = [server EXCEPT !.called =
                       server.called \union {<<a, server.view.published>>}]
    BY <1>3 DEF QueryTools!AgentCalls
  <2>2. server.view.published \in QueryTools!Revisions
    BY <1>1 DEF ToolsServer, QueryTools!Views
  <2>3. /\ server.called \subseteq QueryTools!Agents \X QueryTools!Revisions
        /\ <<a, server.view.published>> \in QueryTools!Agents \X QueryTools!Revisions
    BY <1>1, <2>2 DEF ToolsServer
  <2>4. PICK called : /\ called = server.called \union {<<a, server.view.published>>}
                      /\ called \in SUBSET (QueryTools!Agents \X QueryTools!Revisions)
    BY <2>3
  <2>5. ToolsServer(server') /\ ToolsFollow(server', server)
    BY <1>1, <2>1, <2>4 DEF ToolsServer, ToolsFollow
  <2> QED
    BY <1>1, <2>5, ToolsStep
<1> QED
  BY <1>2, <1>3

\* What the continuations do to the screen.
LEMMA ToolsScreens ==
  ASSUME NEW s, ToolsServer(s), NEW u, ToolsUi(u, s)
  PROVE  /\ \A b \in BOOLEAN : /\ ToolsUi([u EXCEPT !.busy = b], s)
                               /\ ToolsUi([u EXCEPT !.loaded = b], s)
                               /\ ToolsUi([u EXCEPT !.reviewing = b], s)
                               /\ ToolsUi([u EXCEPT !.waiting = b], s)
         /\ \A f : ToolsForm(f, s) => ToolsUi([u EXCEPT !.form = f], s)
         /\ \A e : Earned(e, s) => ToolsUi([u EXCEPT !.ready = e], s)
         /\ \A v : KnownView(v, s) => ToolsUi([u EXCEPT !.loaded = TRUE, !.view = v], s)
<1>1. ASSUME NEW b \in BOOLEAN
      PROVE  /\ ToolsUi([u EXCEPT !.busy = b], s) /\ ToolsUi([u EXCEPT !.loaded = b], s)
             /\ ToolsUi([u EXCEPT !.reviewing = b], s) /\ ToolsUi([u EXCEPT !.waiting = b], s)
  BY DEF ToolsUi
<1>2. ASSUME NEW f, ToolsForm(f, s) PROVE ToolsUi([u EXCEPT !.form = f], s)
  BY <1>2 DEF ToolsUi, ToolsForm
<1>3. ASSUME NEW e, Earned(e, s) PROVE ToolsUi([u EXCEPT !.ready = e], s)
  BY <1>3 DEF ToolsUi, Earned
<1>4. ASSUME NEW v, KnownView(v, s)
      PROVE  ToolsUi([u EXCEPT !.loaded = TRUE, !.view = v], s)
  BY <1>4 DEF ToolsUi, KnownView
<1> QED
  BY <1>1, <1>2, <1>3, <1>4

\* An answer, or that there is none, reaches the page.
LEMMA ToolsHear ==
  ASSUME ToolsInv, QueryTools!Deliver
  PROVE  ToolsInv'
<1>1. PICK asked \in requests : \E c \in QueryTools!Heard(asked) :
        LET others == requests \ {asked} IN
          \/ QueryTools!StateArrives(c, others) \/ QueryTools!TrialEnds(c, others)
          \/ QueryTools!SaveEnds(c, others) \/ QueryTools!LatestArrives(c, others)
          \/ QueryTools!PublicationEnds(c, others) \/ QueryTools!ReadinessArrives(c, others)
          \/ QueryTools!PollArrives(c, others)
  BY DEF QueryTools!Deliver
<1> DEFINE others == requests \ {asked}
<1>2. PICK c \in QueryTools!Heard(asked) :
        \/ QueryTools!StateArrives(c, others) \/ QueryTools!TrialEnds(c, others)
        \/ QueryTools!SaveEnds(c, others) \/ QueryTools!LatestArrives(c, others)
        \/ QueryTools!PublicationEnds(c, others) \/ QueryTools!ReadinessArrives(c, others)
        \/ QueryTools!PollArrives(c, others)
  BY <1>1
<1>3. /\ server' = server /\ ToolsServer(server) /\ ToolsUi(ui, server)
      /\ \A d \in others : d \in requests
  BY <1>2 DEF QueryTools!Deliver, ToolsInv
<1> HIDE DEF others
<1>4. /\ KnownView(c.view, server) /\ Earned(c.evidence, server)
      /\ c.entry \in QueryTools!Revisions
  <2>1. ToolsCall(asked, server)
    BY DEF ToolsInv
  <2>2. c = asked \/ c = [asked EXCEPT !.stage = "failed"]
    BY DEF QueryTools!Heard
  <2>3. c.view = asked.view /\ c.evidence = asked.evidence /\ c.entry = asked.entry
    BY <2>1, <2>2 DEF ToolsCall, QueryTools!Requests
  <2> QED
    BY <2>1, <2>3 DEF ToolsCall, QueryTools!Requests
<1>5. /\ \A b \in BOOLEAN : /\ ToolsUi([ui EXCEPT !.busy = b], server)
                            /\ ToolsUi([ui EXCEPT !.waiting = b], server)
      /\ \A f : ToolsForm(f, server) => ToolsUi([ui EXCEPT !.form = f], server)
      /\ \A e : Earned(e, server) => ToolsUi([ui EXCEPT !.ready = e], server)
      /\ ToolsForm(QueryTools!NoForm, server) /\ Earned(QueryTools!NoEvidence, server)
  BY <1>3, ToolsScreens, BlankIsKnown
<1>6. ASSUME NEW u, ToolsUi(u, server), QueryTools!Follow(u, others) PROVE ToolsInv'
  <2>1. /\ ToolsUi(ui', server)
        /\ \A d \in requests' : d \in others \/ ToolsCall(d, server)
    BY <1>3, <1>6, ToolsFollowScreen
  <2> QED
    BY <1>3, <2>1, ToolsPageStep
<1>7. ASSUME NEW u, ToolsUi(u, server), QueryTools!NewState(u, c.view, others)
      PROVE  ToolsInv'
  BY <1>3, <1>4, <1>6, <1>7, ToolsScreens DEF QueryTools!NewState
<1>8. ASSUME ToolsUi(ui', server), NEW r, ToolsCall(r, server),
             \A d \in requests' : d \in others \/ d = r
      PROVE  ToolsInv'
  BY <1>3, <1>8, ToolsPageStep
<1>9. ASSUME ToolsUi(ui', server), \A d \in requests' : d \in others
      PROVE  ToolsInv'
  BY <1>3, <1>9, ToolsPageStep
<1>10. CASE QueryTools!StateArrives(c, others)
  <2>1. PICK b \in BOOLEAN : b <=> ui.busy /\ c.op = "load"
    OBVIOUS
  <2>2. PICK u : u = [ui EXCEPT !.busy = b]
    OBVIOUS
  <2>3. ToolsUi(u, server) /\ ToolsUi([u EXCEPT !.loaded = FALSE], server)
    BY <1>3, <1>5, <2>2, ToolsScreens
  <2>4. [ui EXCEPT !.busy = ui.busy /\ c.op = "load"] = u
    <3>1. b = (ui.busy /\ c.op = "load")
      <4>1. ui.busy \in BOOLEAN
        BY <1>3 DEF ToolsUi
      <4> QED
        BY <2>1, <4>1
    <3> QED
      BY <2>2, <3>1
  <2>5. \/ QueryTools!NewState(u, c.view, others)
        \/ ui' = [u EXCEPT !.loaded = FALSE] /\ \A d \in requests' : d \in others
        \/ ui' = u /\ requests' = others
    BY <1>10, <2>4 DEF QueryTools!StateArrives
  <2> QED
    BY <1>7, <1>9, <2>3, <2>5
<1>11. CASE QueryTools!TrialEnds(c, others)
  <2>1. ToolsCall(QueryTools!Read("reread"), server)
    BY <1>3, ToolsReads DEF QueryTools!Ops
  <2> QED
    BY <1>3, <1>8, <1>11, <2>1 DEF QueryTools!TrialEnds
<1>12. ASSUME NEW f, f \in {[ui.form EXCEPT !.saving = FALSE, !.conflict = b] : b \in BOOLEAN}
                           \union {[ui.form EXCEPT !.saving = FALSE],
                                   [ui.form EXCEPT !.saving = FALSE,
                                                   !.latest = c.view.revision,
                                                   !.latestEntry = c.view.entry]}
       PROVE  ToolsUi([ui EXCEPT !.form = f], server)
  <2>1. ui.form \in QueryTools!Forms /\ ToolsForm(ui.form, server)
    BY <1>3 DEF ToolsUi
  <2>2. /\ c.view.revision \in QueryTools!Revisions /\ c.view.entry \in QueryTools!Revisions
        /\ KnownEntry(c.view.revision, c.view.entry, server)
    BY <1>4 DEF KnownView, KnownEntry, QueryTools!Views
  <2>3. /\ f \in QueryTools!Forms /\ f.expected = ui.form.expected /\ f.entry = ui.form.entry
        /\ \/ f.latest = ui.form.latest /\ f.latestEntry = ui.form.latestEntry
           \/ f.latest = c.view.revision /\ f.latestEntry = c.view.entry
    BY <1>12, <2>1, <2>2 DEF QueryTools!Forms
  <2>4. ToolsForm(f, server)
    BY <2>1, <2>2, <2>3 DEF ToolsForm
  <2> QED
    BY <1>5, <2>4
<1>13. CASE QueryTools!SaveEnds(c, others)
  <2>1. CASE QueryTools!NewState([ui EXCEPT !.form = QueryTools!NoForm], c.view, others)
    BY <1>5, <1>7, <2>1
  <2>2. CASE /\ ui' = [ui EXCEPT !.form.saving = FALSE,
                                 !.form.conflict = (c.stage = "conflict")]
             /\ requests' = others
    <3>1. PICK b \in BOOLEAN : b = (c.stage = "conflict")
      <4>1. (c.stage = "conflict") \in BOOLEAN
        OBVIOUS
      <4> QED
        BY <4>1
    <3>2. ui' = [ui EXCEPT !.form = [ui.form EXCEPT !.saving = FALSE, !.conflict = b]]
      BY <1>3, <2>2, <3>1 DEF ToolsUi
    <3>3. ToolsUi(ui', server)
      BY <1>12, <3>2
    <3> QED
      BY <1>9, <2>2, <3>3
  <2> QED
    BY <1>13, <2>1, <2>2 DEF QueryTools!SaveEnds
<1>14. CASE QueryTools!LatestArrives(c, others)
  <2>1. \/ ui' = [ui EXCEPT !.form = [ui.form EXCEPT !.saving = FALSE]]
        \/ ui' = [ui EXCEPT !.form = [ui.form EXCEPT !.saving = FALSE,
                                                     !.latest = c.view.revision,
                                                     !.latestEntry = c.view.entry]]
    BY <1>3, <1>14 DEF QueryTools!LatestArrives, ToolsUi
  <2>2. ToolsUi(ui', server)
    BY <1>12, <2>1
  <2>3. requests' = others
    BY <1>14 DEF QueryTools!LatestArrives
  <2> QED
    BY <1>9, <2>2, <2>3
<1>15. CASE QueryTools!PublicationEnds(c, others)
  <2>1. ToolsUi([ui EXCEPT !.busy = FALSE, !.reviewing = FALSE], server)
    BY <1>3 DEF ToolsUi
  <2>2. \/ QueryTools!NewState([ui EXCEPT !.busy = FALSE, !.reviewing = FALSE], c.view, others)
        \/ ui' = [ui EXCEPT !.busy = FALSE] /\ requests' = others
    BY <1>15 DEF QueryTools!PublicationEnds
  <2> QED
    BY <1>5, <1>7, <1>9, <2>1, <2>2
<1>16. CASE QueryTools!ReadinessArrives(c, others)
  <2>1. \/ ui' = [ui EXCEPT !.ready = c.evidence]
        \/ ui' = [ui EXCEPT !.ready = QueryTools!NoEvidence]
    BY <1>16 DEF QueryTools!ReadinessArrives
  <2>2. requests' = others
    BY <1>16 DEF QueryTools!ReadinessArrives
  <2> QED
    BY <1>4, <1>5, <1>9, <2>1, <2>2
<1>17. CASE QueryTools!PollArrives(c, others)
  <2>1. PICK ended : ended = [ui EXCEPT !.waiting = FALSE]
    OBVIOUS
  <2>2. ToolsUi(ended, server) /\ ToolsUi([ui EXCEPT !.waiting = FALSE, !.busy = TRUE], server)
    BY <1>3, <1>5, <2>1 DEF ToolsUi
  <2>3. /\ ToolsCall(QueryTools!Read("refresh"), server)
        /\ ToolsCall(QueryTools!Request("poll", ui, 0, c.entry), server)
    <3>1. ui.agent \in QueryTools!Agents /\ 0 \in QueryTools!Revisions
      BY <1>3, BlankIsKnown DEF ToolsUi
    <3> QED
      BY <1>3, <1>4, <3>1, ToolsReads, ToolsRequests DEF QueryTools!Ops
  <2>4. \/ ui' = ended /\ requests' = others
        \/ /\ ui' = [ui EXCEPT !.waiting = FALSE, !.busy = TRUE]
           /\ requests' = others \union {QueryTools!Read("refresh")}
        \/ QueryTools!Follow(ended, others)
        \/ ui' = ui /\ requests' = others \union {QueryTools!Request("poll", ui, 0, c.entry)}
    BY <1>17, <2>1 DEF QueryTools!PollArrives
  <2> QED
    BY <1>3, <1>6, <1>8, <1>9, <2>2, <2>3, <2>4
<1> QED
  BY <1>2, <1>10, <1>11, <1>13, <1>14, <1>15, <1>16, <1>17

\* The page starts without a copy of the query, and asks for it.
LEMMA ToolsStart == QueryTools!Init => ToolsInv
<1> SUFFICES ASSUME QueryTools!Init PROVE ToolsInv
  OBVIOUS
<1>1. PICK p \in {0, 1} :
        server = [view |-> [revision |-> 2 - p, entry |-> 2 - p, published |-> p],
                  tried |-> p = 1, called |-> {}, careless |-> FALSE]
  BY DEF QueryTools!Init
<1>2. {0, 1, 2} \subseteq QueryTools!Revisions
  <2>1. MaxPublications \in Nat \ {0, 1}
    BY PagesAssumption
  <2> QED
    BY <2>1 DEF QueryTools!Revisions
<1>3. ToolsServer(server)
  <2>1. PICK r \in {1, 2}, t \in BOOLEAN :
          server = [view |-> [revision |-> r, entry |-> r, published |-> p],
                    tried |-> t, called |-> {}, careless |-> FALSE]
    <3>1. 2 - p \in {1, 2} /\ (p = 1) \in BOOLEAN
      OBVIOUS
    <3> QED
      BY <1>1, <3>1
  <2> QED
    BY <1>2, <2>1 DEF ToolsServer, QueryTools!Views
<1>4. ToolsUi(ui, server)
  <2>1. PICK view, ready, form : /\ view = QueryTools!Blank /\ ready = QueryTools!NoEvidence
                                 /\ form = QueryTools!NoForm
    OBVIOUS
  <2>2. ui = [loaded |-> FALSE, view |-> view, agent |-> 1, ready |-> ready, form |-> form,
              busy |-> FALSE, reviewing |-> FALSE, waiting |-> FALSE]
    BY <2>1 DEF QueryTools!Init, QueryTools!Fresh
  <2>3. KnownView(view, server) /\ Earned(ready, server) /\ ToolsForm(form, server)
    BY <1>3, <2>1, BlankIsKnown
  <2> QED
    BY <2>2, <2>3 DEF ToolsUi, KnownView, Earned, ToolsForm, QueryTools!Agents
<1>5. \A c \in requests : ToolsCall(c, server)
  BY <1>3, ToolsReads DEF QueryTools!Init, QueryTools!Ops
<1> QED
  BY <1>3, <1>4, <1>5 DEF ToolsInv

\* Every step of the page keeps its invariant.
LEMMA ToolsKeep ==
  ASSUME ToolsInv, QueryTools!Next
  PROVE  ToolsInv'
  BY ToolsOperated, ToolsServed, ToolsElsewhere, ToolsHear DEF QueryTools!Next

(***************************************************************************)
(* The ontology pages                                                      *)
(***************************************************************************)
\* A confirmation to delete a version holds the version that was picked.
DialogInv ==
  /\ {"dialog", "version"} \subseteq DOMAIN ui
  /\ Ontology!ConfirmationIsEarned

\* What is shown of everything else may change.
LEMMA DialogStays ==
  ASSUME DialogInv, {"dialog", "version"} \subseteq DOMAIN ui',
         (ui'.dialog = ui.dialog /\ ui'.version = ui.version) \/ ui'.dialog # "deleteVersion"
  PROVE  DialogInv'
  BY DEF DialogInv, Ontology!ConfirmationIsEarned

\* A page that is opened shows no dialog.
LEMMA PagesOpenBare ==
  ASSUME NEW place
  PROVE  /\ {"dialog", "version"} \subseteq DOMAIN Ontology!Page(place)
         /\ Ontology!Page(place).dialog = ""
<1>1. ASSUME NEW p, NEW state, NEW draft, NEW none,
             p = [place |-> place, loaded |-> FALSE, state |-> state, draft |-> draft,
                  typed |-> FALSE, busy |-> FALSE, editing |-> none, saving |-> FALSE,
                  conflict |-> FALSE, dialog |-> "", version |-> none]
      PROVE  /\ {"dialog", "version"} \subseteq DOMAIN p
             /\ p.dialog = ""
  <2>1. p.dialog = ""
    BY <1>1
  <2>2. {"dialog", "version"} \subseteq DOMAIN p
    BY <1>1
  <2> QED
    BY <2>1, <2>2
<1>2. PICK p : p = Ontology!Page(place)
  OBVIOUS
<1> QED
  BY <1>1, <1>2 DEF Ontology!Page

LEMMA DialogOperated ==
  ASSUME DialogInv,
         \/ Ontology!Open \/ Ontology!Leave \/ Ontology!Reload \/ Ontology!Validate
         \/ Ontology!Export \/ Ontology!TypeSettings \/ Ontology!RevertSettings
         \/ Ontology!SaveSettings \/ Ontology!ViewVersion \/ Ontology!LoadOlderVersions
         \/ Ontology!AskDeleteVersion
         \/ (\E d \in Ontology!Confirmed \ {"deleteVersion"} : Ontology!OpenDialog(d))
         \/ Ontology!CloseDialog \/ Ontology!ConfirmDialog \/ Ontology!OpenEditor
         \/ Ontology!CloseEditor \/ Ontology!RefuseForm \/ Ontology!SaveItem
         \/ Ontology!DiscardEditAndReload
  PROVE  DialogInv'
<1>1. {"dialog", "version"} \subseteq DOMAIN ui
  BY DEF DialogInv
<1>2. CASE Ontology!Open \/ Ontology!Leave
  BY <1>2, PagesOpenBare, DialogStays DEF Ontology!Open, Ontology!Leave
<1>3. CASE \/ Ontology!Reload \/ Ontology!Validate \/ Ontology!Export \/ Ontology!SaveSettings
           \/ Ontology!ViewVersion \/ Ontology!LoadOlderVersions \/ Ontology!ConfirmDialog
  <2>1. ui' = [ui EXCEPT !.busy = TRUE]
    BY <1>3 DEF Ontology!Reload, Ontology!Validate, Ontology!Export, Ontology!SaveSettings,
       Ontology!ViewVersion, Ontology!LoadOlderVersions, Ontology!ConfirmDialog, Ontology!Act
  <2> QED
    BY <1>1, <2>1, DialogStays
<1>4. CASE Ontology!TypeSettings \/ Ontology!RevertSettings
  BY <1>1, <1>4, DialogStays DEF Ontology!TypeSettings, Ontology!RevertSettings
<1>5. CASE Ontology!AskDeleteVersion
  BY <1>1, <1>5 DEF Ontology!AskDeleteVersion, DialogInv, Ontology!ConfirmationIsEarned
<1>6. CASE \E d \in Ontology!Confirmed \ {"deleteVersion"} : Ontology!OpenDialog(d)
  BY <1>1, <1>6, DialogStays DEF Ontology!OpenDialog
<1>7. CASE Ontology!CloseDialog
  BY <1>1, <1>7, DialogStays DEF Ontology!CloseDialog
<1>8. CASE \/ Ontology!OpenEditor \/ Ontology!CloseEditor \/ Ontology!RefuseForm
           \/ Ontology!SaveItem \/ Ontology!DiscardEditAndReload
  BY <1>1, <1>8, DialogStays DEF Ontology!OpenEditor, Ontology!CloseEditor,
     Ontology!RefuseForm, Ontology!SaveItem, Ontology!DiscardEditAndReload
<1> QED
  BY <1>2, <1>3, <1>4, <1>5, <1>6, <1>7, <1>8

\* A definition that arrives takes the place of the confirmation that is open.
LEMMA DialogHears ==
  ASSUME DialogInv, Ontology!Deliver
  PROVE  DialogInv'
<1>1. {"dialog", "version"} \subseteq DOMAIN ui
  BY DEF DialogInv
<1>2. PICK c : \/ ui' = ui \/ Ontology!Loaded(c) \/ Ontology!ViewArrives(c)
               \/ Ontology!OlderArrive(c) \/ Ontology!DialogConfirmed(c)
               \/ Ontology!VersionDeleted(c) \/ Ontology!ItemSaved(c) \/ Ontology!Fails(c)
               \/ \E others : Ontology!Moves(c, others)
  BY DEF Ontology!Deliver
<1>3. ASSUME NEW u, {"dialog", "version"} \subseteq DOMAIN u, NEW state
      PROVE  /\ {"dialog", "version"} \subseteq DOMAIN Ontology!Accept(u, state)
             /\ Ontology!Accept(u, state).dialog = u.dialog
             /\ Ontology!Accept(u, state).version = u.version
  BY <1>3 DEF Ontology!Accept
<1>4. /\ {"dialog", "version"} \subseteq DOMAIN Ontology!Idle
      /\ Ontology!Idle.dialog = ui.dialog /\ Ontology!Idle.version = ui.version
  BY <1>1 DEF Ontology!Idle
<1>5. CASE Ontology!Loaded(c)
  <2>1. PICK u \in {ui, Ontology!Idle} : ui' = u \/ ui' = Ontology!Accept(u, c.state)
    BY <1>5 DEF Ontology!Loaded
  <2> QED
    BY <1>1, <1>3, <1>4, <2>1, DialogStays
<1>6. CASE Ontology!ViewArrives(c)
  <2>1. ui' = Ontology!Idle
          \/ ui' = [Ontology!Idle EXCEPT !.version = c.version, !.dialog = "version"]
    BY <1>6 DEF Ontology!ViewArrives
  <2> QED
    BY <1>4, <2>1, DialogStays
<1>7. CASE Ontology!OlderArrive(c)
  <2>1. \/ ui' = Ontology!Idle
        \/ ui' = [Ontology!Idle EXCEPT !.state.revision = c.revision,
                                       !.state.draft = c.shown]
    BY <1>7 DEF Ontology!OlderArrive
  <2> QED
    BY <1>4, <2>1, DialogStays
<1>8. CASE Ontology!DialogConfirmed(c)
  <2>1. PICK u : /\ u = Ontology!Accept(Ontology!Idle, c.state)
                 /\ ui' = Ontology!Shut(u) \/ ui' = Ontology!Idle
    BY <1>8 DEF Ontology!DialogConfirmed
  <2>2. {"dialog", "version"} \subseteq DOMAIN u
    BY <1>3, <1>4, <2>1
  <2> QED
    BY <1>4, <2>1, <2>2, DialogStays DEF Ontology!Shut
<1>9. CASE Ontology!VersionDeleted(c) \/ Ontology!Fails(c)
  BY <1>4, <1>9, DialogStays DEF Ontology!VersionDeleted, Ontology!Fails
<1>10. CASE Ontology!ItemSaved(c)
  <2> DEFINE u == [ui EXCEPT !.saving = FALSE,
                             !.conflict = IF c.op = "afterConflict" THEN @
                                          ELSE c.stage = "conflict"]
  <2>1. \/ ui' = u
        \/ ui' = [Ontology!Accept(u, c.state) EXCEPT !.conflict = FALSE]
        \/ ui' = [[Ontology!Accept(u, c.state) EXCEPT !.conflict = FALSE]
                    EXCEPT !.editing = Ontology!Nil]
    <3>1. CASE c.stage # "ok"
      BY <1>10, <3>1 DEF Ontology!ItemSaved
    <3>2. CASE c.stage = "ok" /\ c.op = "another"
      BY <1>10, <3>2 DEF Ontology!ItemSaved
    <3>3. CASE c.stage = "ok" /\ c.op # "another"
      BY <1>10, <3>3 DEF Ontology!ItemSaved
    <3> QED
      BY <3>1, <3>2, <3>3
  <2>2. /\ {"dialog", "version"} \subseteq DOMAIN u
        /\ u.dialog = ui.dialog /\ u.version = ui.version
    BY <1>1
  <2> HIDE DEF u
  <2>3. PICK v : /\ v = Ontology!Accept(u, c.state)
                 /\ {"dialog", "version"} \subseteq DOMAIN v
                 /\ v.dialog = ui.dialog /\ v.version = ui.version
    BY <1>3, <2>2
  <2> QED
    BY <2>1, <2>2, <2>3, DialogStays
<1>11. CASE \E others : Ontology!Moves(c, others)
  <2>1. ui' = ui \/ \E place : ui' = Ontology!Page(place)
    BY <1>11 DEF Ontology!Moves
  <2> QED
    BY <1>1, <2>1, PagesOpenBare, DialogStays
<1>12. CASE ui' = ui
  BY <1>1, <1>12, DialogStays
<1> QED
  BY <1>2, <1>5, <1>6, <1>7, <1>8, <1>9, <1>10, <1>11, <1>12

LEMMA DialogKeeps ==
  ASSUME DialogInv, Ontology!Next
  PROVE  DialogInv'
<1>1. CASE Ontology!Serve \/ Ontology!OtherAdministratorWrites
  <2>1. ui' = ui
    BY <1>1 DEF Ontology!Serve, Ontology!OtherAdministratorWrites
  <2> QED
    BY <2>1, DialogStays DEF DialogInv
<1> QED
  BY <1>1, DialogOperated, DialogHears DEF Ontology!Next

LEMMA DialogStarts == Ontology!Init => DialogInv
  BY PagesOpenBare DEF Ontology!Init, DialogInv, Ontology!ConfirmationIsEarned

-----------------------------------------------------------------------------
(* A query that the page calls confirmed was called by the selected Agent  *)
(* at the published version shown, and a version of an ontology is deleted *)
(* only from a dialog that names the version that was picked               *)
(* (QueryPublishing.tsx, Ontologies.tsx).                                  *)
THEOREM ConfirmationsAreEarned == PagesSpec => []ConfirmationIsEarned
<1> DEFINE Inv == /\ page = "tools"    => ToolsInv
                  /\ page = "ontology" => DialogInv
<1>1. PagesInit => Inv
  BY ToolsStart, DialogStarts DEF PagesInit
<1>2. Inv /\ [PagesNext]_pagesVars => Inv'
  <2> SUFFICES ASSUME Inv, [PagesNext]_pagesVars PROVE Inv'
    OBVIOUS
  <2>1. CASE PagesNext
    <3>1. page' = page
      BY <2>1 DEF PagesNext
    <3>2. ASSUME page = "tools" PROVE ToolsInv'
      <4>1. QueryTools!Next
        BY <2>1, <3>2 DEF PagesNext
      <4> QED
        BY <3>2, <4>1, ToolsKeep
    <3>3. ASSUME page = "ontology" PROVE DialogInv'
      <4>1. Ontology!Next
        BY <2>1, <3>3 DEF PagesNext
      <4> QED
        BY <3>3, <4>1, DialogKeeps
    <3> QED
      BY <3>1, <3>2, <3>3
  <2>2. CASE UNCHANGED pagesVars
    BY <2>2 DEF pagesVars, ToolsInv, DialogInv, Ontology!ConfirmationIsEarned, Ontology!Picked
  <2> QED
    BY <2>1, <2>2
<1>3. Inv => ConfirmationIsEarned
  <2>1. ASSUME ToolsInv, ui.loaded, QueryTools!Confirmed(ui)
        PROVE  <<ui.agent, ui.view.published>> \in server.called
    <3>1. PICK r : r = QueryTools!Ready(ui)
      OBVIOUS
    <3>2. r.called /\ r.version = ui.view.published
      BY <2>1, <3>1 DEF QueryTools!Confirmed
    <3>3. CASE ui.ready.key = ui.view.revision /\ ui.ready.agent = ui.agent
      <4>1. r = ui.ready
        BY <3>1, <3>3 DEF QueryTools!Ready
      <4>2. <<r.agent, r.version>> \in server.called
        BY <2>1, <3>2, <4>1 DEF ToolsInv, ToolsUi, Earned
      <4> QED
        BY <3>2, <3>3, <4>1, <4>2
    <3>4. CASE ~(ui.ready.key = ui.view.revision /\ ui.ready.agent = ui.agent)
      <4>1. r = QueryTools!NoEvidence
        BY <3>1, <3>4 DEF QueryTools!Ready
      <4> QED
        BY <3>2, <4>1 DEF QueryTools!NoEvidence
    <3> QED
      BY <3>3, <3>4
  <2> QED
    BY <2>1 DEF ConfirmationIsEarned, DialogInv, QueryTools!ConfirmationIsEarned
<1> QED
  BY <1>1, <1>2, <1>3, PTL DEF PagesSpec

(***************************************************************************)
(* The panel of the OAuth clients                                          *)
(***************************************************************************)
\* The request that a pressed button sends, or one of the reloads that follow it.
Pressed(r) == r.of # "list"

\* While the panel is open a pressed button stays busy until its one request and the
\* reloads after it are answered; no secret is on screen while a write is in flight, and
\* the panel is closed only when no button is busy.
PanelInv ==
  /\ {"rows", "known", "doing", "client", "copy", "busy", "secret", "closing", "open",
      "left", "lost"} \subseteq DOMAIN ui
  /\ \A r \in requests : {"of", "client", "copy", "shown", "rows", "stage"} \subseteq DOMAIN r
  /\ ui.left = TRUE => ui.open = FALSE
  /\ ui.left # TRUE =>
       /\ ui.lost = FALSE
       /\ ui.open \in BOOLEAN /\ ui.busy \in BOOLEAN
       /\ ui.open = FALSE \/ ui.closing = TRUE => ui.busy = FALSE
       /\ ui.closing = TRUE => ui.secret # OAuth!NoSecret
       /\ \A r \in requests : Pressed(r) => ui.busy = TRUE
       /\ \A r, d \in requests : Pressed(r) /\ Pressed(d) => r = d
       /\ \A r \in requests : r.of \in OAuth!Writes => ui.secret = OAuth!NoSecret

LEMMA PanelRequest ==
  ASSUME NEW of
  PROVE  /\ {"of", "client", "copy", "shown", "rows", "stage"} \subseteq DOMAIN OAuth!Request(of)
         /\ OAuth!Request(of).of = of
<1>1. ASSUME NEW rows, NEW copy, NEW client, NEW r,
             r = [of |-> of, client |-> client, copy |-> copy, shown |-> 0, rows |-> rows,
                  stage |-> "sent"]
      PROVE  {"of", "client", "copy", "shown", "rows", "stage"} \subseteq DOMAIN r /\ r.of = of
  BY <1>1
<1> QED
  BY <1>1 DEF OAuth!Request

LEMMA PanelFresh ==
  /\ {"rows", "known", "doing", "client", "copy", "busy", "secret", "closing", "open",
      "left", "lost"} \subseteq DOMAIN OAuth!Fresh
  /\ OAuth!Fresh.open = TRUE /\ OAuth!Fresh.left = FALSE /\ OAuth!Fresh.lost = FALSE
  /\ OAuth!Fresh.busy = FALSE /\ OAuth!Fresh.closing = FALSE
<1>1. ASSUME NEW rows, NEW copy, NEW client, NEW secret, NEW p,
             p = [rows |-> rows, known |-> FALSE, doing |-> "", client |-> client, copy |-> copy,
                  busy |-> FALSE, secret |-> secret, closing |-> FALSE, open |-> TRUE,
                  left |-> FALSE, lost |-> FALSE]
      PROVE  /\ {"rows", "known", "doing", "client", "copy", "busy", "secret", "closing", "open",
                 "left", "lost"} \subseteq DOMAIN p
             /\ p.open = TRUE /\ p.left = FALSE /\ p.lost = FALSE
             /\ p.busy = FALSE /\ p.closing = FALSE
  BY <1>1
<1>2. PICK p : p = OAuth!Fresh
  OBVIOUS
<1> QED
  BY <1>1, <1>2 DEF OAuth!Fresh

\* A screen that keeps its locks and asks for nothing but the list.
LEMMA PanelStays ==
  ASSUME PanelInv,
         {"rows", "known", "doing", "client", "copy", "busy", "secret", "closing", "open",
          "left", "lost"} \subseteq DOMAIN ui',
         ui'.open = ui.open, ui'.left = ui.left, ui'.lost = ui.lost, ui'.busy = ui.busy,
         \/ ui'.secret = ui.secret /\ ui'.closing = ui.closing
         \/ ui'.secret = OAuth!NoSecret /\ ui'.closing = FALSE
         \/ ui'.secret = ui.secret /\ ui.secret # OAuth!NoSecret /\ ui.busy = FALSE,
         \A r \in requests' : r \in requests \/ r = OAuth!Request("list")
  PROVE  PanelInv'
<1>1. {"of", "client", "copy", "shown", "rows", "stage"} \subseteq DOMAIN OAuth!Request("list")
      /\ OAuth!Request("list").of = "list"
  BY PanelRequest
<1>2. "list" \notin OAuth!Writes
  BY DEF OAuth!Writes
<1>3. PICK blank : blank = OAuth!Request("list")
  OBVIOUS
<1>4. \A r \in requests' : {"of", "client", "copy", "shown", "rows", "stage"} \subseteq DOMAIN r
  BY <1>1 DEF PanelInv
<1>5. \A r \in requests' : r.of # "list" => r \in requests
  BY <1>1
<1>6. ui'.left = TRUE => ui'.open = FALSE
  BY DEF PanelInv
<1>7. ASSUME ui'.left # TRUE
      PROVE  /\ ui'.lost = FALSE
             /\ ui'.open \in BOOLEAN /\ ui'.busy \in BOOLEAN
             /\ ui'.open = FALSE \/ ui'.closing = TRUE => ui'.busy = FALSE
             /\ ui'.closing = TRUE => ui'.secret # OAuth!NoSecret
             /\ \A r \in requests' : Pressed(r) => ui'.busy = TRUE
             /\ \A r, d \in requests' : Pressed(r) /\ Pressed(d) => r = d
             /\ \A r \in requests' : r.of \in OAuth!Writes => ui'.secret = OAuth!NoSecret
  BY <1>2, <1>5, <1>7 DEF PanelInv, Pressed
<1> QED
  BY <1>4, <1>6, <1>7 DEF PanelInv, Pressed, OAuth!Writes, OAuth!NoSecret, OAuth!Nobody

\* What the administrator does on the panel.
LEMMA PanelOperated ==
  ASSUME PanelInv,
         \/ OAuth!RefreshClients \/ OAuth!RegisterClient \/ OAuth!ChooseClient \/ OAuth!GoBack
         \/ OAuth!SavedConfiguration
  PROVE  PanelInv'
<1>1. CASE OAuth!RefreshClients
  <2>1. ui' = ui /\ requests' = requests \union {OAuth!Request("list")}
    BY <1>1 DEF OAuth!RefreshClients, OAuth!Ask
  <2> QED
    BY <2>1, PanelStays DEF PanelInv
<1>2. CASE OAuth!RegisterClient
  <2>1. ui' = [ui EXCEPT !.doing = "register"] /\ requests' = requests
    BY <1>2 DEF OAuth!RegisterClient
  <2> QED
    BY <2>1, PanelStays DEF PanelInv
<1>3. CASE OAuth!ChooseClient
  <2>1. PICK c, doing, copy : /\ ui' = [ui EXCEPT !.doing = doing, !.client = c, !.copy = copy]
                              /\ requests' = requests
    BY <1>3 DEF OAuth!ChooseClient
  <2> QED
    BY <2>1, PanelStays DEF PanelInv
<1>4. CASE OAuth!GoBack
  <2>1. PICK absent : ui' = [ui EXCEPT !.doing = "", !.client = OAuth!Nobody, !.copy = absent]
    BY <1>4 DEF OAuth!GoBack, OAuth!Back
  <2>2. requests' = requests \union {OAuth!Request("list")}
    BY <1>4 DEF OAuth!GoBack, OAuth!Ask
  <2> QED
    BY <2>1, <2>2, PanelStays DEF PanelInv
<1>5. CASE OAuth!SavedConfiguration
  <2>1. PICK none : /\ ui' = [ui EXCEPT !.secret = none, !.closing = FALSE]
                    /\ none = OAuth!NoSecret /\ requests' = requests
    BY <1>5 DEF OAuth!SavedConfiguration
  <2> QED
    BY <2>1, PanelStays DEF PanelInv
<1> QED
  BY <1>1, <1>2, <1>3, <1>4, <1>5

\* The button that writes.
LEMMA PanelSubmitted ==
  ASSUME PanelInv, OAuth!Submit
  PROVE  PanelInv'
<1>1. /\ ui.open /\ ui.secret = OAuth!NoSecret /\ ~ui.busy
      /\ ui' = [ui EXCEPT !.busy = TRUE]
      /\ ui.doing \in OAuth!Writes
  BY DEF OAuth!Submit, OAuth!FormShown, OAuth!QuestionShown, OAuth!Writes, OAuth!Actions
<1>2. PICK r : /\ r = [OAuth!Request(ui.doing) EXCEPT !.client = ui.client, !.copy = ui.copy,
                                                      !.shown = ui.copy.revision]
               /\ requests' = requests \union {r}
  BY DEF OAuth!Submit, OAuth!Ask
<1>3. {"of", "client", "copy", "shown", "rows", "stage"} \subseteq DOMAIN r /\ r.of = ui.doing
  <2>1. PICK q : q = OAuth!Request(ui.doing)
    OBVIOUS
  <2>2. {"of", "client", "copy", "shown", "rows", "stage"} \subseteq DOMAIN q /\ q.of = ui.doing
    BY <2>1, PanelRequest
  <2>3. r = [q EXCEPT !.client = ui.client, !.copy = ui.copy, !.shown = ui.copy.revision]
    BY <1>2, <2>1
  <2> QED
    BY <2>2, <2>3
<1>4. {"rows", "known", "doing", "client", "copy", "busy", "secret", "closing", "open",
       "left", "lost"} \subseteq DOMAIN ui'
  BY <1>1 DEF PanelInv
<1>5. /\ ui'.open = ui.open /\ ui'.left = ui.left /\ ui'.lost = ui.lost /\ ui'.busy = TRUE
      /\ ui'.secret = ui.secret /\ ui'.closing = ui.closing
  BY <1>1 DEF PanelInv
<1>6. ui.left # TRUE
  BY <1>1 DEF PanelInv
<1>7. \A d \in requests : d.of = "list"
  BY <1>1, <1>6 DEF PanelInv, Pressed
<1>8. ui.open = TRUE /\ ui.busy = FALSE
  BY <1>1, <1>6 DEF PanelInv
<1>9. \A d \in requests' : {"of", "client", "copy", "shown", "rows", "stage"} \subseteq DOMAIN d
  BY <1>2, <1>3 DEF PanelInv
<1>10. \A d \in requests' : d.of # "list" => d = r
  BY <1>2, <1>7
<1> QED
  BY <1>1, <1>4, <1>5, <1>6, <1>8, <1>9, <1>10
  DEF PanelInv, Pressed, OAuth!Writes, OAuth!NoSecret, OAuth!Nobody

\* The panel that is closed, or left with its page.
LEMMA PanelClosed ==
  ASSUME PanelInv, OAuth!ClosePanel \/ OAuth!CloseWithoutSaving \/ OAuth!LeavePage
  PROVE  PanelInv'
<1>1. ui.left # TRUE /\ ui.open = TRUE
  <2>1. ui.open
    BY DEF OAuth!ClosePanel, OAuth!CloseWithoutSaving, OAuth!LeavePage
  <2> QED
    BY <2>1 DEF PanelInv
<1>2. PICK fresh : fresh = OAuth!Fresh
  OBVIOUS
<1>3. /\ {"rows", "known", "doing", "client", "copy", "busy", "secret", "closing", "open",
          "left", "lost"} \subseteq DOMAIN fresh
      /\ fresh.left = FALSE /\ fresh.busy = FALSE /\ fresh.closing = FALSE
  BY <1>2, PanelFresh
<1>4. ASSUME OAuth!Close, ~\E r \in requests : r.of \in OAuth!Writes
      PROVE  PanelInv'
  <2>1. ui' = [fresh EXCEPT !.open = FALSE, !.lost = ui.lost] /\ requests' = {}
    BY <1>2, <1>4 DEF OAuth!Close
  <2>2. ui.lost = FALSE
    BY <1>1 DEF PanelInv
  <2>3. /\ {"rows", "known", "doing", "client", "copy", "busy", "secret", "closing", "open",
            "left", "lost"} \subseteq DOMAIN ui'
        /\ ui'.left = FALSE /\ ui'.busy = FALSE /\ ui'.closing = FALSE
        /\ ui'.open = FALSE /\ ui'.lost = FALSE
    BY <1>3, <2>1, <2>2
  <2> QED
    BY <2>1, <2>3 DEF PanelInv
<1>5. CASE OAuth!ClosePanel
  <2>1. ui.busy = FALSE
    BY <1>1, <1>5 DEF OAuth!ClosePanel, PanelInv
  <2>2. ~\E r \in requests : r.of \in OAuth!Writes
    BY <1>1, <2>1 DEF PanelInv, Pressed, OAuth!Writes
  <2>3. CASE ui.secret = OAuth!NoSecret /\ OAuth!Close
    BY <1>4, <2>2, <2>3
  <2>4. CASE /\ ui.secret # OAuth!NoSecret
             /\ ui' = [ui EXCEPT !.closing = TRUE] /\ requests' = requests
    <3>1. /\ ui'.open = ui.open /\ ui'.left = ui.left /\ ui'.lost = ui.lost
          /\ ui'.busy = ui.busy /\ ui'.secret = ui.secret
          /\ {"rows", "known", "doing", "client", "copy", "busy", "secret", "closing", "open",
              "left", "lost"} \subseteq DOMAIN ui'
      BY <2>4 DEF PanelInv
    <3> QED
      BY <2>1, <2>4, <3>1, PanelStays
  <2> QED
    BY <1>5, <2>3, <2>4 DEF OAuth!ClosePanel
<1>6. CASE OAuth!CloseWithoutSaving
  <2>1. OAuth!Close /\ ui.secret # OAuth!NoSecret
    BY <1>6 DEF OAuth!CloseWithoutSaving
  <2> QED
    BY <1>1, <1>4, <2>1 DEF PanelInv
<1>7. CASE OAuth!LeavePage
  <2>1. PICK b : /\ ui' = [fresh EXCEPT !.open = FALSE, !.left = TRUE, !.lost = b]
                 /\ requests' \subseteq requests
    BY <1>2, <1>7 DEF OAuth!LeavePage, OAuth!Unmounted
  <2>2. /\ {"rows", "known", "doing", "client", "copy", "busy", "secret", "closing", "open",
            "left", "lost"} \subseteq DOMAIN ui'
        /\ ui'.left = TRUE /\ ui'.open = FALSE
    BY <1>3, <2>1
  <2> QED
    BY <2>1, <2>2 DEF PanelInv
<1> QED
  BY <1>5, <1>6, <1>7

\* The end of the session takes the panel away with the page.
LEMMA PanelExpires ==
  ASSUME PanelInv, NEW asked \in requests, OAuth!SessionExpired(asked)
  PROVE  PanelInv'
<1>1. PICK fresh : fresh = OAuth!Fresh
  OBVIOUS
<1>2. {"rows", "known", "doing", "client", "copy", "busy", "secret", "closing", "open",
       "left", "lost"} \subseteq DOMAIN fresh
  BY <1>1, PanelFresh
<1>3. PICK b : /\ ui' = [fresh EXCEPT !.open = FALSE, !.left = TRUE, !.lost = b]
               /\ requests' \subseteq requests
  BY <1>1 DEF OAuth!SessionExpired, OAuth!Unmounted
<1>4. /\ {"rows", "known", "doing", "client", "copy", "busy", "secret", "closing", "open",
          "left", "lost"} \subseteq DOMAIN ui'
      /\ ui'.left = TRUE /\ ui'.open = FALSE
  BY <1>2, <1>3
<1> QED
  BY <1>3, <1>4 DEF PanelInv

\* A request that is answered is the request it was.
LEMMA PanelAnswered ==
  ASSUME PanelInv, ui' = ui, NEW r \in requests, NEW d,
         {"of", "client", "copy", "shown", "rows", "stage"} \subseteq DOMAIN d, d.of = r.of,
         requests' = (requests \ {r}) \union {d}
  PROVE  PanelInv'
<1>1. \A e \in requests' : {"of", "client", "copy", "shown", "rows", "stage"} \subseteq DOMAIN e
  BY DEF PanelInv
<1>2. ASSUME ui.left # TRUE
      PROVE  /\ \A e \in requests' : Pressed(e) => ui.busy = TRUE
             /\ \A e, f \in requests' : Pressed(e) /\ Pressed(f) => e = f
             /\ \A e \in requests' : e.of \in OAuth!Writes => ui.secret = OAuth!NoSecret
  BY <1>2 DEF PanelInv, Pressed
<1> QED
  BY <1>1, <1>2 DEF PanelInv, Pressed, OAuth!Writes, OAuth!NoSecret, OAuth!Nobody

LEMMA PanelServed ==
  ASSUME PanelInv, OAuth!Serve \/ OAuth!SomeoneElseWrites
  PROVE  PanelInv'
<1>1. CASE OAuth!SomeoneElseWrites
  <2>1. ui' = ui /\ requests' = requests
    BY <1>1 DEF OAuth!SomeoneElseWrites
  <2> QED
    BY <2>1 DEF PanelInv, Pressed, OAuth!Writes, OAuth!NoSecret, OAuth!Nobody
<1>2. CASE OAuth!Serve
  <2>1. PICK r \in requests : /\ OAuth!ServeList(r) \/ OAuth!ServeRegister(r)
                                                    \/ OAuth!ServeChange(r)
                              /\ ui' = ui
    BY <1>2 DEF OAuth!Serve
  <2>2. {"of", "client", "copy", "shown", "rows", "stage"} \subseteq DOMAIN r
    BY DEF PanelInv
  <2>3. ASSUME NEW c, NEW copy, OAuth!Answered(r, c, copy)
        PROVE  PanelInv'
    <3>1. PICK d : /\ d = [r EXCEPT !.stage = "ok", !.client = c, !.copy = copy, !.shown = 0]
                   /\ requests' = (requests \ {r}) \union {d}
      BY <2>3 DEF OAuth!Answered
    <3>2. {"of", "client", "copy", "shown", "rows", "stage"} \subseteq DOMAIN d /\ d.of = r.of
      BY <2>2, <3>1
    <3> QED
      BY <2>1, <3>1, <3>2, PanelAnswered
  <2>4. CASE OAuth!ServeList(r)
    <3>1. PICK rows : requests' = (requests \ {r}) \union
                                  {[r EXCEPT !.stage = "ok", !.rows = rows]}
      BY <2>4 DEF OAuth!ServeList
    <3>2. PICK d : /\ d = [r EXCEPT !.stage = "ok", !.rows = rows]
                   /\ requests' = (requests \ {r}) \union {d}
      BY <3>1
    <3>3. {"of", "client", "copy", "shown", "rows", "stage"} \subseteq DOMAIN d /\ d.of = r.of
      BY <2>2, <3>2
    <3> QED
      BY <2>1, <3>2, <3>3, PanelAnswered
  <2>5. CASE OAuth!ServeRegister(r)
    BY <2>3, <2>5 DEF OAuth!ServeRegister
  <2>6. CASE OAuth!ServeChange(r)
    <3>1. PICK next : OAuth!Answered(r, r.client, next)
      BY <2>6 DEF OAuth!ServeChange
    <3> QED
      BY <2>3, <3>1
  <2> QED
    BY <2>1, <2>4, <2>5, <2>6
<1> QED
  BY <1>1, <1>2

\* What the browser does with an answer, or with the news that there will be none.
LEMMA PanelHears ==
  ASSUME PanelInv, OAuth!Deliver, ~\E asked \in requests : OAuth!SessionExpired(asked)
  PROVE  PanelInv'
<1>0. PICK asked \in requests : \E r \in OAuth!Heard(asked) :
        \/ /\ ui.open
           /\ \/ OAuth!ListArrives(r, requests \ {asked})
              \/ OAuth!WriteEnds(r, requests \ {asked})
              \/ OAuth!ReloadEnds(r, requests \ {asked})
        \/ OAuth!NobodyListens(r, requests \ {asked})
  BY DEF OAuth!Deliver
<1>1. PICK r \in OAuth!Heard(asked) :
        \/ /\ ui.open
           /\ \/ OAuth!ListArrives(r, requests \ {asked})
              \/ OAuth!WriteEnds(r, requests \ {asked})
              \/ OAuth!ReloadEnds(r, requests \ {asked})
        \/ OAuth!NobodyListens(r, requests \ {asked})
  BY <1>0
<1>2. {"of", "client", "copy", "shown", "rows", "stage"} \subseteq DOMAIN r /\ r.of = asked.of
  <2>1. {"of", "client", "copy", "shown", "rows", "stage"} \subseteq DOMAIN asked
    BY DEF PanelInv
  <2>2. r = asked \/ r = [asked EXCEPT !.stage = "failed"]
    BY <1>1 DEF OAuth!Heard
  <2> QED
    BY <2>1, <2>2
<1>3. PICK others : others = requests \ {asked}
  OBVIOUS
<1>4. \A d \in others : d \in requests /\ d # asked
  BY <1>3
<1> DEFINE Fields == {"rows", "known", "doing", "client", "copy", "busy", "secret", "closing",
                      "open", "left", "lost"}
<1>5. Fields \subseteq DOMAIN ui
  BY DEF PanelInv
<1>6. PICK v : v = OAuth!Loaded(r)
  OBVIOUS
<1>7. /\ Fields \subseteq DOMAIN v
      /\ v.open = ui.open /\ v.left = ui.left /\ v.lost = ui.lost /\ v.busy = ui.busy
      /\ v.secret = ui.secret /\ v.closing = ui.closing
  <2>1. v = ui \/ v = [ui EXCEPT !.rows = r.rows, !.known = TRUE]
    BY <1>6 DEF OAuth!Loaded
  <2> QED
    BY <1>5, <2>1
<1>8. CASE OAuth!NobodyListens(r, others)
  <2>1. PICK b : /\ ~ui.open /\ requests' = others
                 /\ b = (ui.lost \/ (r.stage = "ok" /\ r.of \in {"register", "rotate"}))
                 /\ ui' = [ui EXCEPT !.lost = b]
    BY <1>8 DEF OAuth!NobodyListens
  <2>2. ASSUME ui.left # TRUE PROVE b = FALSE
    <3>1. ui.open = FALSE /\ ui.busy = FALSE /\ ui.lost = FALSE
      BY <2>1, <2>2 DEF PanelInv
    <3>2. asked.of = "list"
      BY <2>2, <3>1 DEF PanelInv, Pressed
    <3> QED
      BY <1>2, <2>1, <3>1, <3>2
  <2>3. /\ Fields \subseteq DOMAIN ui'
        /\ ui'.open = ui.open /\ ui'.left = ui.left /\ ui'.lost = b /\ ui'.busy = ui.busy
        /\ ui'.secret = ui.secret /\ ui'.closing = ui.closing
    BY <1>5, <2>1
  <2>4. \A d \in requests' : d \in requests
    BY <1>4, <2>1
  <2> QED
    BY <2>2, <2>3, <2>4 DEF PanelInv, Pressed, OAuth!Writes, OAuth!NoSecret, OAuth!Nobody
<1>9. CASE ui.open /\ OAuth!ListArrives(r, others)
  <2>1. ui' = v /\ \A d \in requests' : d \in requests
    BY <1>4, <1>6, <1>9 DEF OAuth!ListArrives
  <2> QED
    BY <1>7, <2>1, PanelStays
<1>10. ASSUME ui.open, Pressed(asked)
       PROVE  /\ ui.left # TRUE /\ ui.open = TRUE /\ ui.busy = TRUE /\ ui.lost = FALSE
              /\ ui.closing # TRUE
              /\ \A d \in others : ~Pressed(d)
  BY <1>4, <1>10 DEF PanelInv
\* A button that stays busy with its next reload, or is freed.
<1>11. ASSUME ui.open, Pressed(asked), NEW next, NEW more,
              Fields \subseteq DOMAIN next, next.open = ui.open, next.left = ui.left,
              next.lost = ui.lost, next.closing = ui.closing, ui' = next,
              requests' = others \union more,
              \/ more = {} /\ next.busy = FALSE
              \/ next.busy = TRUE /\ \E of \in {"saved", "agents"} : more = {OAuth!Request(of)}
       PROVE  PanelInv'
  <2>1. /\ ui.left # TRUE /\ ui.open = TRUE /\ ui.lost = FALSE /\ ui.closing # TRUE
        /\ \A d \in others : ~Pressed(d)
    BY <1>10, <1>11
  <2>2. CASE more = {} /\ next.busy = FALSE
    <3>1. \A d \in requests' : d \in requests /\ ~Pressed(d)
      BY <1>4, <1>11, <2>1, <2>2
    <3>2. \A d \in requests' : d.of \notin OAuth!Writes
      BY <3>1 DEF Pressed, OAuth!Writes
    <3> QED
      BY <1>11, <2>1, <2>2, <3>1, <3>2
      DEF PanelInv, Pressed, OAuth!Writes, OAuth!NoSecret, OAuth!Nobody
  <2>3. CASE next.busy = TRUE /\ \E of \in {"saved", "agents"} : more = {OAuth!Request(of)}
    <3>1. PICK of \in {"saved", "agents"} : more = {OAuth!Request(of)}
      BY <2>3
    <3>2. PICK q : q = OAuth!Request(of)
      OBVIOUS
    <3>3. {"of", "client", "copy", "shown", "rows", "stage"} \subseteq DOMAIN q /\ q.of = of
      BY <3>2, PanelRequest
    <3>4. \A d \in requests' : d = q \/ (d \in requests /\ ~Pressed(d))
      BY <1>4, <1>11, <2>1, <3>1, <3>2
    <3>5. \A d \in requests' : d.of \notin OAuth!Writes
      BY <3>1, <3>3, <3>4 DEF Pressed, OAuth!Writes
    <3> QED
      BY <1>11, <2>1, <2>3, <3>3, <3>4, <3>5
      DEF PanelInv, Pressed, OAuth!Writes, OAuth!NoSecret, OAuth!Nobody
  <2> QED
    BY <1>11, <2>2, <2>3
<1> HIDE DEF Fields
<1>12. CASE ui.open /\ OAuth!WriteEnds(r, others)
  <2>1. asked.of \in OAuth!Writes /\ Pressed(asked)
    BY <1>2, <1>12 DEF OAuth!WriteEnds, OAuth!Writes, Pressed
  <2>2. /\ ui.busy = TRUE /\ ui.lost = FALSE /\ ui.secret = OAuth!NoSecret
    BY <1>10, <1>12, <2>1 DEF PanelInv
  <2>3. CASE ui' = [ui EXCEPT !.busy = FALSE] /\ requests' = others
    <3>1. PICK next : next = [ui EXCEPT !.busy = FALSE]
      OBVIOUS
    <3>2. /\ Fields \subseteq DOMAIN next /\ next.open = ui.open /\ next.left = ui.left
          /\ next.lost = ui.lost /\ next.closing = ui.closing /\ next.busy = FALSE
      BY <1>5, <3>1 DEF Fields
    <3>3. ui' = next /\ requests' = others \union {}
      BY <2>3, <3>1
    <3> QED
      BY <1>11, <1>12, <2>1, <3>2, <3>3
  <2>4. CASE OAuth!Then(others, "saved") /\ r.stage = "ok"
    <3>1. PICK next, absent, secret, b :
            /\ next = [ui EXCEPT !.doing = "", !.client = OAuth!Nobody, !.copy = absent]
            /\ ui' = [next EXCEPT !.secret = secret, !.lost = b]
            /\ b = (ui.lost \/ (r.of \in {"register", "rotate"} /\ ui.secret # OAuth!NoSecret))
      <4>1. PICK next : next = OAuth!Back(ui)
        OBVIOUS
      <4>2. PICK absent : next = [ui EXCEPT !.doing = "", !.client = OAuth!Nobody,
                                            !.copy = absent]
        BY <4>1 DEF OAuth!Back
      <4>3. next.lost = ui.lost
        BY <1>5, <4>2 DEF Fields
      <4>4. ui' = [next EXCEPT
              !.secret = IF r.of \in {"register", "rotate"}
                           THEN [client |-> r.client, number |-> r.copy.revision]
                           ELSE next.secret,
              !.lost = next.lost \/ (r.of \in {"register", "rotate"}
                                      /\ ui.secret # OAuth!NoSecret)]
        BY <1>12, <2>4, <4>1 DEF OAuth!WriteEnds
      <4>5. PICK secret, b :
              /\ ui' = [next EXCEPT !.secret = secret, !.lost = b]
              /\ b = (next.lost \/ (r.of \in {"register", "rotate"}
                                     /\ ui.secret # OAuth!NoSecret))
        BY <4>4
      <4> QED
        BY <4>2, <4>3, <4>5
    <3>2. b = FALSE
      BY <2>2, <3>1
    <3>3. /\ Fields \subseteq DOMAIN ui' /\ ui'.open = ui.open /\ ui'.left = ui.left
          /\ ui'.lost = ui.lost /\ ui'.closing = ui.closing /\ ui'.busy = TRUE
      BY <1>5, <2>2, <3>1, <3>2 DEF Fields
    <3>4. requests' = others \union {OAuth!Request("saved")}
      BY <2>4 DEF OAuth!Then
    <3>5. PICK last, more : last = ui' /\ more = {OAuth!Request("saved")}
      OBVIOUS
    <3> QED
      BY <1>11, <1>12, <2>1, <3>3, <3>4, <3>5
  <2> QED
    BY <1>12, <2>3, <2>4 DEF OAuth!WriteEnds
<1>13. CASE ui.open /\ OAuth!ReloadEnds(r, others)
  <2>1. CASE r.of = "saved" /\ ui' = v /\ OAuth!Then(others, "agents")
    <3>1. Pressed(asked) /\ ui.busy = TRUE
      BY <1>2, <1>10, <1>13, <2>1 DEF Pressed
    <3>2. requests' = others \union {OAuth!Request("agents")}
      BY <2>1 DEF OAuth!Then
    <3>3. PICK more : more = {OAuth!Request("agents")}
      OBVIOUS
    <3> QED
      BY <1>7, <1>11, <1>13, <2>1, <3>1, <3>2, <3>3
  <2>2. CASE r.of = "agents" /\ ui' = [ui EXCEPT !.busy = FALSE] /\ requests' = others
    <3>1. PICK next : next = [ui EXCEPT !.busy = FALSE]
      OBVIOUS
    <3>2. /\ Fields \subseteq DOMAIN next /\ next.open = ui.open /\ next.left = ui.left
          /\ next.lost = ui.lost /\ next.closing = ui.closing /\ next.busy = FALSE
      BY <1>5, <3>1 DEF Fields
    <3>3. ui' = next /\ requests' = others \union {}
      BY <2>2, <3>1
    <3>4. Pressed(asked)
      BY <1>2, <2>2 DEF Pressed
    <3> QED
      BY <1>11, <1>13, <3>2, <3>3, <3>4
  <2> QED
    BY <1>6, <1>13, <2>1, <2>2 DEF OAuth!ReloadEnds
<1> QED
  BY <1>1, <1>3, <1>8, <1>9, <1>12, <1>13

LEMMA PanelStarts == OAuth!Init => PanelInv
<1> SUFFICES ASSUME OAuth!Init PROVE PanelInv
  OBVIOUS
<1>1. PICK fresh, q : /\ fresh = OAuth!Fresh /\ q = OAuth!Request("list")
                      /\ ui = fresh /\ requests = {q}
  BY DEF OAuth!Init
<1>2. {"of", "client", "copy", "shown", "rows", "stage"} \subseteq DOMAIN q /\ q.of = "list"
  BY <1>1, PanelRequest
<1> QED
  BY <1>1, <1>2, PanelFresh DEF PanelInv, Pressed, OAuth!Writes

LEMMA PanelKeeps ==
  ASSUME PanelInv, OAuth!Next
  PROVE  PanelInv'
  BY PanelOperated, PanelSubmitted, PanelClosed, PanelServed, PanelExpires, PanelHears
     DEF OAuth!Next

(***************************************************************************)
(* The Agents page                                                         *)
(***************************************************************************)
AgentsScreen == {"rows", "busy", "saving", "conflict", "panel", "agent", "copy", "token",
                 "saved", "lost", "left"}
AgentsCall == {"op", "of", "agent", "copy", "shown", "rows", "stage"}

\* What keeps the rows busy, and what keeps the editor open.
HoldsRows(c) ==
  \/ c.op = "write" /\ c.of \in {"pause", "revoke", "rotate"}
  \/ c.op = "load" /\ c.of \in {"pause", "revoke", "issued"}
HoldsEditor(c) ==
  \/ c.op = "write" /\ c.of \in {"edit", "create"}
  \/ c.op = "load" /\ c.of = "conflict"
\* What the question before it keeps its panel open for.
HoldsPanel(c) == c.op = "write" /\ c.of \in {"revoke", "rotate"}

\* One operation at a time on the rows and in the editor; the panel that asked for a
\* token stays open until it is answered, and a token is only in its own panel.
AgentsLock(u, all) ==
  /\ u.token = AgentsPage!NoToken \/ u.panel = "connection"
  /\ \A c \in all : HoldsRows(c) => u.busy = TRUE
  /\ \A c, d \in all : HoldsRows(c) /\ HoldsRows(d) => c = d
  /\ \A c \in all : HoldsEditor(c) => u.saving = TRUE /\ u.panel = "editor"
  /\ \A c, d \in all : HoldsEditor(c) /\ HoldsEditor(d) => c = d
  /\ \A c \in all : HoldsPanel(c) => u.panel = c.of

AgentsInv ==
  /\ AgentsScreen \subseteq DOMAIN ui
  /\ \A c \in requests :
       /\ AgentsCall \subseteq DOMAIN c
       /\ \/ c.op = "load" /\ c.of \in AgentsPage!Loads
          \/ c.op = "write" /\ c.of \in AgentsPage!Writes
  /\ ui.left # TRUE => ui.lost = FALSE /\ AgentsLock(ui, requests)

LEMMA AgentsRequest ==
  ASSUME NEW op, NEW of
  PROVE  /\ AgentsCall \subseteq DOMAIN AgentsPage!Request(op, of)
         /\ AgentsPage!Request(op, of).op = op /\ AgentsPage!Request(op, of).of = of
<1>1. ASSUME NEW agent, NEW copy, NEW rows, NEW r,
             r = [op |-> op, of |-> of, agent |-> agent, copy |-> copy, shown |-> 0,
                  rows |-> rows, stage |-> "sent"]
      PROVE  AgentsCall \subseteq DOMAIN r /\ r.op = op /\ r.of = of
  BY <1>1 DEF AgentsCall
<1> QED
  BY <1>1 DEF AgentsPage!Request

\* What a step has to show of the screen and of new requests.
LEMMA AgentsStep ==
  ASSUME AgentsInv, AgentsScreen \subseteq DOMAIN ui',
         \A c \in requests' : c \in requests \/
           /\ AgentsCall \subseteq DOMAIN c
           /\ \/ c.op = "load" /\ c.of \in AgentsPage!Loads
              \/ c.op = "write" /\ c.of \in AgentsPage!Writes,
         ui'.left # TRUE => ui'.lost = FALSE /\ AgentsLock(ui', requests')
  PROVE  AgentsInv'
<1>1. \A c \in requests' :
        /\ AgentsCall \subseteq DOMAIN c
        /\ \/ c.op = "load" /\ c.of \in AgentsPage!Loads
           \/ c.op = "write" /\ c.of \in AgentsPage!Writes
  BY DEF AgentsInv
<1> QED
  BY <1>1 DEF AgentsInv, AgentsScreen, AgentsCall, AgentsLock, HoldsRows, HoldsEditor,
       HoldsPanel, AgentsPage!Loads, AgentsPage!Writes, AgentsPage!NoToken, AgentsPage!Nobody

\* A page that asks for the rows for nothing that waits for them.
LEMMA AgentsLook ==
  ASSUME AgentsInv, ui' = ui, NEW of \in {"refresh", "activity"},
         AgentsPage!Ask(AgentsPage!Request("load", of))
  PROVE  AgentsInv'
<1>1. PICK r : /\ r = AgentsPage!Request("load", of) /\ requests' = requests \union {r}
  BY DEF AgentsPage!Ask
<1>2. AgentsCall \subseteq DOMAIN r /\ r.op = "load" /\ r.of = of
  BY <1>1, AgentsRequest
<1>3. ~HoldsRows(r) /\ ~HoldsEditor(r) /\ ~HoldsPanel(r)
  BY <1>2 DEF HoldsRows, HoldsEditor, HoldsPanel
<1>4. ui.left # TRUE => AgentsLock(ui, requests \union {r})
  BY <1>3 DEF AgentsInv, AgentsLock
<1> QED
  BY <1>1, <1>2, <1>4, AgentsStep DEF AgentsInv, AgentsPage!Loads

\* A page that changes its panel while nothing holds the one that was open.
LEMMA AgentsTurn ==
  ASSUME AgentsInv, requests' = requests, AgentsScreen \subseteq DOMAIN ui',
         ui'.left = ui.left, ui'.lost = ui.lost, ui'.busy = ui.busy, ui'.saving = ui.saving,
         \/ ui'.panel = ui.panel
         \/ ui.left # TRUE =>
              \A c \in requests : ~HoldsEditor(c) /\ ~HoldsPanel(c),
         \/ ui'.token = AgentsPage!NoToken
         \/ ui'.token = ui.token /\ (ui'.panel = ui.panel \/ ui.panel # "connection")
  PROVE  AgentsInv'
<1>1. ASSUME ui.left # TRUE
      PROVE  AgentsLock(ui', requests')
  BY <1>1 DEF AgentsInv, AgentsLock
<1> QED
  BY <1>1, AgentsStep DEF AgentsInv

\* A button that writes, or reloads for the editor.
LEMMA AgentsPress ==
  ASSUME AgentsInv, NEW r, requests' = requests \union {r}, AgentsCall \subseteq DOMAIN r,
         \/ r.op = "load" /\ r.of = "conflict"
         \/ r.op = "write" /\ r.of \in AgentsPage!Writes,
         AgentsScreen \subseteq DOMAIN ui', ui'.left = ui.left, ui'.lost = ui.lost,
         ui'.token = ui.token, ui'.panel = ui.panel,
         \/ HoldsRows(r) /\ ~HoldsEditor(r) /\ ui.busy # TRUE /\ ui'.busy = TRUE
              /\ ui'.saving = ui.saving
         \/ HoldsEditor(r) /\ ~HoldsRows(r) /\ ui.saving # TRUE /\ ui'.saving = TRUE
              /\ ui'.busy = ui.busy /\ ui.panel = "editor",
         HoldsPanel(r) => ui.panel = r.of
  PROVE  AgentsInv'
<1>1. ASSUME ui.left # TRUE
      PROVE  AgentsLock(ui', requests')
  <2>1. AgentsLock(ui, requests)
    BY <1>1 DEF AgentsInv
  <2>2. CASE HoldsRows(r) /\ ~HoldsEditor(r) /\ ui.busy # TRUE /\ ui'.busy = TRUE
              /\ ui'.saving = ui.saving
    <3>1. \A c \in requests : ~HoldsRows(c)
      BY <2>1, <2>2 DEF AgentsLock
    <3> QED
      BY <2>1, <2>2, <3>1 DEF AgentsLock
  <2>3. CASE HoldsEditor(r) /\ ~HoldsRows(r) /\ ui.saving # TRUE /\ ui'.saving = TRUE
              /\ ui'.busy = ui.busy /\ ui.panel = "editor"
    <3>1. \A c \in requests : ~HoldsEditor(c)
      BY <2>1, <2>3 DEF AgentsLock
    <3> QED
      BY <2>1, <2>3, <3>1 DEF AgentsLock
  <2> QED
    BY <2>2, <2>3
<1>2. \A c \in requests' : c \in requests \/
           /\ AgentsCall \subseteq DOMAIN c
           /\ \/ c.op = "load" /\ c.of \in AgentsPage!Loads
              \/ c.op = "write" /\ c.of \in AgentsPage!Writes
  BY DEF AgentsPage!Loads
<1> QED
  BY <1>1, <1>2, AgentsStep DEF AgentsInv

\* What the administrator does on the rows and in the panels.
LEMMA AgentsOperated ==
  ASSUME AgentsInv,
         \/ AgentsPage!Refresh \/ AgentsPage!RefreshActivity \/ AgentsPage!Connect
         \/ AgentsPage!OpenEditor \/ AgentsPage!OpenConfirmation \/ AgentsPage!LeavePage
         \/ AgentsPage!OpenSetup \/ AgentsPage!CancelAction \/ AgentsPage!EditGrants
         \/ AgentsPage!CloseEditor \/ AgentsPage!AcknowledgeToken
         \/ AgentsPage!CloseConnection
  PROVE  AgentsInv'
<1>1. /\ AgentsScreen \subseteq DOMAIN ui
      /\ ui.left # TRUE => AgentsLock(ui, requests)
  BY DEF AgentsInv
<1>2. PICK none : none = AgentsPage!NoToken
  OBVIOUS
<1>3. CASE AgentsPage!Refresh \/ AgentsPage!RefreshActivity
  BY <1>3, AgentsLook DEF AgentsPage!Refresh, AgentsPage!RefreshActivity
\* A panel that is opened over the rows.
<1>4. ASSUME ui.panel = "", requests' = requests, AgentsScreen \subseteq DOMAIN ui',
             ui'.left = ui.left, ui'.lost = ui.lost, ui'.busy = ui.busy,
             ui'.saving = ui.saving, ui'.token = none \/ ui'.token = ui.token
      PROVE  AgentsInv'
  <2>1. ASSUME ui.left # TRUE PROVE \A c \in requests : ~HoldsEditor(c) /\ ~HoldsPanel(c)
    BY <1>1, <1>4, <2>1 DEF AgentsLock, HoldsPanel
  <2> QED
    BY <1>2, <1>4, <2>1, AgentsTurn
<1>13. CASE AgentsPage!Connect
  <2>1. PICK a : /\ ui.panel = "" /\ requests' = requests
                 /\ ui' = [ui EXCEPT !.panel = "connection", !.agent = a, !.token = none]
    BY <1>2, <1>13 DEF AgentsPage!Connect, AgentsPage!Shown, AgentsPage!OnThePage
  <2>2. /\ AgentsScreen \subseteq DOMAIN ui' /\ ui'.left = ui.left /\ ui'.lost = ui.lost
        /\ ui'.busy = ui.busy /\ ui'.saving = ui.saving /\ ui'.token = none
    BY <1>1, <2>1 DEF AgentsScreen
  <2> QED
    BY <1>4, <2>1, <2>2
<1>14. CASE AgentsPage!OpenEditor
  <2>1. PICK a, copy : /\ ui.panel = "" /\ requests' = requests
                       /\ \/ ui' = [ui EXCEPT !.panel = "editor"]
                          \/ ui' = [ui EXCEPT !.panel = "editor", !.agent = a, !.copy = copy]
    BY <1>14 DEF AgentsPage!OpenEditor, AgentsPage!OnThePage
  <2>2. /\ AgentsScreen \subseteq DOMAIN ui' /\ ui'.left = ui.left /\ ui'.lost = ui.lost
        /\ ui'.busy = ui.busy /\ ui'.saving = ui.saving /\ ui'.token = ui.token
    BY <1>1, <2>1 DEF AgentsScreen
  <2> QED
    BY <1>4, <2>1, <2>2
<1>15. CASE AgentsPage!OpenConfirmation
  <2>1. PICK a, action : /\ ui.panel = "" /\ requests' = requests
                         /\ ui' = [ui EXCEPT !.panel = action, !.agent = a]
    BY <1>15 DEF AgentsPage!OpenConfirmation, AgentsPage!Shown, AgentsPage!OnThePage
  <2>2. /\ AgentsScreen \subseteq DOMAIN ui' /\ ui'.left = ui.left /\ ui'.lost = ui.lost
        /\ ui'.busy = ui.busy /\ ui'.saving = ui.saving /\ ui'.token = ui.token
    BY <1>1, <2>1 DEF AgentsScreen
  <2> QED
    BY <1>4, <2>1, <2>2
<1>5. CASE AgentsPage!LeavePage \/ AgentsPage!OpenSetup
  <2>1. PICK fresh, lost : /\ fresh = AgentsPage!Fresh
                           /\ ui' = [fresh EXCEPT !.left = TRUE, !.lost = lost]
                           /\ requests' \subseteq requests
    BY <1>5 DEF AgentsPage!LeavePage, AgentsPage!OpenSetup, AgentsPage!Unmounted
  <2>2. AgentsScreen \subseteq DOMAIN fresh
    BY <2>1 DEF AgentsPage!Fresh, AgentsScreen
  <2>3. AgentsScreen \subseteq DOMAIN ui' /\ ui'.left = TRUE
    BY <2>1, <2>2 DEF AgentsScreen
  <2> QED
    BY <2>1, <2>3, AgentsStep
<1>6. CASE AgentsPage!EditGrants
  <2>1. PICK copy : ui' = [ui EXCEPT !.copy = copy] /\ requests' = requests
    BY <1>6 DEF AgentsPage!EditGrants
  <2>2. /\ AgentsScreen \subseteq DOMAIN ui' /\ ui'.left = ui.left /\ ui'.lost = ui.lost
        /\ ui'.busy = ui.busy /\ ui'.saving = ui.saving /\ ui'.token = ui.token
        /\ ui'.panel = ui.panel
    BY <1>1, <2>1 DEF AgentsScreen
  <2> QED
    BY <2>1, <2>2, AgentsTurn
<1>7. CASE AgentsPage!AcknowledgeToken
  <2>1. PICK saved : ui' = [ui EXCEPT !.saved = saved] /\ requests' = requests
    BY <1>7 DEF AgentsPage!AcknowledgeToken
  <2>2. /\ AgentsScreen \subseteq DOMAIN ui' /\ ui'.left = ui.left /\ ui'.lost = ui.lost
        /\ ui'.busy = ui.busy /\ ui'.saving = ui.saving /\ ui'.token = ui.token
        /\ ui'.panel = ui.panel
    BY <1>1, <2>1 DEF AgentsScreen
  <2> QED
    BY <2>1, <2>2, AgentsTurn
<1>8. PICK v, absent : v = AgentsPage!Closed(ui) /\
        v = [ui EXCEPT !.panel = "", !.agent = AgentsPage!Nobody, !.copy = absent,
                       !.conflict = FALSE]
  BY DEF AgentsPage!Closed
<1>9. /\ AgentsScreen \subseteq DOMAIN v /\ v.left = ui.left /\ v.lost = ui.lost
      /\ v.busy = ui.busy /\ v.saving = ui.saving /\ v.token = ui.token /\ v.panel = ""
  BY <1>1, <1>8 DEF AgentsScreen
<1>10. CASE AgentsPage!CancelAction
  <2>1. ui.panel \in {"revoke", "rotate"} /\ ~ui.busy /\ ui' = v /\ requests' = requests
    BY <1>8, <1>10 DEF AgentsPage!CancelAction
  <2>2. ASSUME ui.left # TRUE PROVE \A c \in requests : ~HoldsEditor(c) /\ ~HoldsPanel(c)
    BY <1>1, <2>1, <2>2 DEF AgentsLock, HoldsPanel, HoldsRows
  <2> QED
    BY <1>9, <2>1, <2>2, AgentsTurn
<1>11. CASE AgentsPage!CloseEditor
  <2>1. ui.panel = "editor" /\ ~ui.saving /\ ui' = v /\ requests' = requests
    BY <1>8, <1>11 DEF AgentsPage!CloseEditor
  <2>2. ASSUME ui.left # TRUE PROVE \A c \in requests : ~HoldsEditor(c) /\ ~HoldsPanel(c)
    BY <1>1, <2>1, <2>2 DEF AgentsLock, HoldsPanel
  <2> QED
    BY <1>9, <2>1, <2>2, AgentsTurn
<1>12. CASE AgentsPage!CloseConnection
  <2>1. /\ ui.panel = "connection" /\ requests' = requests
        /\ ui' = [v EXCEPT !.token = none, !.saved = FALSE]
    BY <1>2, <1>8, <1>12 DEF AgentsPage!CloseConnection
  <2>2. /\ AgentsScreen \subseteq DOMAIN ui' /\ ui'.left = ui.left /\ ui'.lost = ui.lost
        /\ ui'.busy = ui.busy /\ ui'.saving = ui.saving /\ ui'.token = none
    BY <1>9, <2>1 DEF AgentsScreen
  <2>3. ASSUME ui.left # TRUE PROVE \A c \in requests : ~HoldsEditor(c) /\ ~HoldsPanel(c)
    BY <1>1, <2>1, <2>3 DEF AgentsLock, HoldsPanel
  <2> QED
    BY <1>2, <2>1, <2>2, <2>3, AgentsTurn
<1> QED
  BY <1>3, <1>5, <1>6, <1>7, <1>10, <1>11, <1>12, <1>13, <1>14, <1>15

\* The buttons that ask for a change.
LEMMA AgentsPressed ==
  ASSUME AgentsInv,
         \/ AgentsPage!Pause \/ AgentsPage!ConfirmAction \/ AgentsPage!SubmitEditor
         \/ AgentsPage!ReloadAfterConflict
  PROVE  AgentsInv'
<1>1. AgentsScreen \subseteq DOMAIN ui
  BY DEF AgentsInv
<1>3. CASE AgentsPage!Pause
  <2>1. PICK q : q = AgentsPage!Request("write", "pause")
    OBVIOUS
  <2>5. PICK agent, copy :
          /\ ui' = [ui EXCEPT !.busy = TRUE] /\ ~ui.busy
          /\ requests' = requests \union
               {[q EXCEPT !.agent = agent, !.copy = copy, !.shown = ui.rows[agent].revision]}
    BY <1>3, <2>1 DEF AgentsPage!Pause, AgentsPage!Ask
  <2>6. PICK shown, r : /\ r = [q EXCEPT !.agent = agent, !.copy = copy, !.shown = shown]
                        /\ requests' = requests \union {r}
    BY <2>5
  <2>2. AgentsCall \subseteq DOMAIN r /\ r.op = "write" /\ r.of = "pause"
    <3>1. AgentsCall \subseteq DOMAIN q /\ q.op = "write" /\ q.of = "pause"
      BY <2>1, AgentsRequest
    <3> QED
      BY <2>6, <3>1 DEF AgentsCall
  <2>3. /\ AgentsScreen \subseteq DOMAIN ui' /\ ui'.left = ui.left /\ ui'.lost = ui.lost
        /\ ui'.busy = TRUE /\ ui'.saving = ui.saving /\ ui'.token = ui.token
        /\ ui'.panel = ui.panel
    BY <1>1, <2>5 DEF AgentsScreen
  <2>4. HoldsRows(r) /\ ~HoldsEditor(r) /\ ~HoldsPanel(r) /\ r.of \in AgentsPage!Writes
    BY <2>2 DEF HoldsRows, HoldsEditor, HoldsPanel, AgentsPage!Writes
  <2> QED
    BY <2>5, <2>6, <2>2, <2>3, <2>4, AgentsPress
<1>4. CASE AgentsPage!ConfirmAction
  <2>5. PICK q : q = AgentsPage!Request("write", ui.panel)
    OBVIOUS
  <2>1. PICK r :
          /\ ui' = [ui EXCEPT !.busy = TRUE] /\ ~ui.busy /\ requests' = requests \union {r}
          /\ ui.panel \in {"revoke", "rotate"}
          /\ r = [q EXCEPT !.agent = ui.agent, !.copy = ui.copy, !.shown = ui.copy.revision]
    BY <1>4, <2>5 DEF AgentsPage!ConfirmAction, AgentsPage!Ask, AgentsPage!Write
  <2>2. AgentsCall \subseteq DOMAIN r /\ r.op = "write" /\ r.of = ui.panel
    <3>1. AgentsCall \subseteq DOMAIN q /\ q.op = "write" /\ q.of = ui.panel
      BY <2>5, AgentsRequest
    <3> QED
      BY <2>1, <3>1 DEF AgentsCall
  <2>3. /\ AgentsScreen \subseteq DOMAIN ui' /\ ui'.left = ui.left /\ ui'.lost = ui.lost
        /\ ui'.busy = TRUE /\ ui'.saving = ui.saving /\ ui'.token = ui.token
        /\ ui'.panel = ui.panel
    BY <1>1, <2>1 DEF AgentsScreen
  <2>4. HoldsRows(r) /\ ~HoldsEditor(r) /\ r.of \in AgentsPage!Writes
    BY <2>1, <2>2 DEF HoldsRows, HoldsEditor, AgentsPage!Writes
  <2> QED
    BY <2>1, <2>2, <2>3, <2>4, AgentsPress
<1>5. CASE AgentsPage!SubmitEditor
  <2>1. PICK of \in {"create", "edit"} :
          /\ ui.panel = "editor" /\ ~ui.saving /\ ui' = [ui EXCEPT !.saving = TRUE]
          /\ AgentsPage!Ask(AgentsPage!Write(of))
    BY <1>5 DEF AgentsPage!SubmitEditor
  <2>6. PICK q : q = AgentsPage!Request("write", of)
    OBVIOUS
  <2>2. PICK r :
          /\ requests' = requests \union {r}
          /\ r = [q EXCEPT !.agent = ui.agent, !.copy = ui.copy, !.shown = ui.copy.revision]
    BY <2>1, <2>6 DEF AgentsPage!Ask, AgentsPage!Write
  <2>3. AgentsCall \subseteq DOMAIN r /\ r.op = "write" /\ r.of = of
    <3>1. AgentsCall \subseteq DOMAIN q /\ q.op = "write" /\ q.of = of
      BY <2>6, AgentsRequest
    <3> QED
      BY <2>2, <3>1 DEF AgentsCall
  <2>4. /\ AgentsScreen \subseteq DOMAIN ui' /\ ui'.left = ui.left /\ ui'.lost = ui.lost
        /\ ui'.busy = ui.busy /\ ui'.saving = TRUE /\ ui'.token = ui.token
        /\ ui'.panel = ui.panel
    BY <1>1, <2>1 DEF AgentsScreen
  <2>5. HoldsEditor(r) /\ ~HoldsRows(r) /\ ~HoldsPanel(r) /\ r.of \in AgentsPage!Writes
    BY <2>3 DEF HoldsRows, HoldsEditor, HoldsPanel, AgentsPage!Writes
  <2> QED
    BY <2>1, <2>2, <2>3, <2>4, <2>5, AgentsPress
<1>6. CASE AgentsPage!ReloadAfterConflict
  <2>1. PICK r : /\ ui.panel = "editor" /\ ~ui.saving /\ ui' = [ui EXCEPT !.saving = TRUE]
                 /\ r = AgentsPage!Request("load", "conflict")
                 /\ requests' = requests \union {r}
    BY <1>6 DEF AgentsPage!ReloadAfterConflict, AgentsPage!Ask
  <2>2. AgentsCall \subseteq DOMAIN r /\ r.op = "load" /\ r.of = "conflict"
    BY <2>1, AgentsRequest
  <2>3. /\ AgentsScreen \subseteq DOMAIN ui' /\ ui'.left = ui.left /\ ui'.lost = ui.lost
        /\ ui'.busy = ui.busy /\ ui'.saving = TRUE /\ ui'.token = ui.token
        /\ ui'.panel = ui.panel
    BY <1>1, <2>1 DEF AgentsScreen
  <2>4. HoldsEditor(r) /\ ~HoldsRows(r) /\ ~HoldsPanel(r)
    BY <2>2 DEF HoldsRows, HoldsEditor, HoldsPanel
  <2> QED
    BY <2>1, <2>2, <2>3, <2>4, AgentsPress
<1> QED
  BY <1>3, <1>4, <1>5, <1>6

\* A request that is answered is the request it was.
LEMMA AgentsServed ==
  ASSUME AgentsInv, AgentsPage!Serve \/ AgentsPage!SomeoneElseWrites
  PROVE  AgentsInv'
<1>1. AgentsScreen \subseteq DOMAIN ui /\ ui' = ui
  BY DEF AgentsInv, AgentsPage!Serve, AgentsPage!SomeoneElseWrites
<1>2. CASE AgentsPage!SomeoneElseWrites
  <2>1. requests' = requests
    BY <1>2 DEF AgentsPage!SomeoneElseWrites
  <2> QED
    BY <1>1, <2>1, AgentsStep DEF AgentsInv
<1>3. ASSUME NEW c \in requests, NEW d, AgentsCall \subseteq DOMAIN d, d.op = c.op,
             d.of = c.of, requests' = (requests \ {c}) \union {d}
      PROVE  AgentsInv'
  <2>1. \/ d.op = "load" /\ d.of \in AgentsPage!Loads
        \/ d.op = "write" /\ d.of \in AgentsPage!Writes
    BY <1>3 DEF AgentsInv
  <2>2. ASSUME ui.left # TRUE PROVE AgentsLock(ui, requests')
    <3>1. /\ HoldsRows(d) <=> HoldsRows(c)
          /\ HoldsEditor(d) <=> HoldsEditor(c)
          /\ HoldsPanel(d) <=> HoldsPanel(c)
      BY <1>3 DEF HoldsRows, HoldsEditor, HoldsPanel
    <3> QED
      BY <1>3, <2>2, <3>1 DEF AgentsInv, AgentsLock
  <2> QED
    BY <1>1, <1>3, <2>1, <2>2, AgentsStep DEF AgentsInv
<1>4. CASE AgentsPage!Serve
  <2>1. PICK c \in requests : AgentsPage!ServeWrite(c) \/ AgentsPage!ServeLoad(c)
    BY <1>4 DEF AgentsPage!Serve
  <2>2. AgentsCall \subseteq DOMAIN c
    BY DEF AgentsInv
  <2>3. CASE AgentsPage!ServeLoad(c)
    <3>1. PICK rows, d : /\ d = [c EXCEPT !.stage = "ok", !.rows = rows]
                         /\ requests' = (requests \ {c}) \union {d}
      BY <2>3 DEF AgentsPage!ServeLoad
    <3>2. AgentsCall \subseteq DOMAIN d /\ d.op = c.op /\ d.of = c.of
      BY <2>2, <3>1 DEF AgentsCall
    <3> QED
      BY <1>3, <3>1, <3>2
  <2>4. CASE AgentsPage!ServeWrite(c)
    <3>1. PICK agent, copy :
            \/ requests' = (requests \ {c}) \union
                           {[c EXCEPT !.stage = "conflict", !.copy = copy, !.shown = 0]}
            \/ requests' = (requests \ {c}) \union
                           {[c EXCEPT !.stage = "ok", !.agent = agent, !.shown = 0,
                                      !.copy = copy]}
      <4>1. PICK a \in AgentNames :
              LET stored == server.agents[a]
              IN  \/ requests' = (requests \ {c}) \union
                       {[c EXCEPT !.stage = "conflict", !.copy = AgentsPage!Absent, !.shown = 0]}
                  \/ requests' = (requests \ {c}) \union
                       {[c EXCEPT !.stage = "ok", !.agent = a, !.shown = 0,
                                  !.copy = AgentsPage!Outcome(c, stored)]}
        BY <2>4 DEF AgentsPage!ServeWrite
      <4> QED
        BY <4>1
    <3>2. PICK d :
            /\ \/ d = [c EXCEPT !.stage = "conflict", !.copy = copy, !.shown = 0]
               \/ d = [c EXCEPT !.stage = "ok", !.agent = agent, !.shown = 0, !.copy = copy]
            /\ requests' = (requests \ {c}) \union {d}
      BY <3>1
    <3>3. AgentsCall \subseteq DOMAIN d /\ d.op = c.op /\ d.of = c.of
      BY <2>2, <3>2 DEF AgentsCall
    <3> QED
      BY <1>3, <3>2, <3>3
  <2> QED
    BY <2>1, <2>3, <2>4
<1> QED
  BY <1>2, <1>4

\* A write that ends, and what then reloads the rows.
LEMMA AgentsFollowed ==
  ASSUME AgentsInv, ui.left # TRUE, NEW asked \in requests, asked.op = "write",
         AgentsScreen \subseteq DOMAIN ui', ui'.left = ui.left, ui'.lost = FALSE,
         ui'.token = AgentsPage!NoToken \/ ui'.panel = "connection",
         NEW of,
         requests' = (requests \ {asked}) \union {AgentsPage!Request("load", of)},
         \/ HoldsRows(asked) /\ of \in {"pause", "revoke", "issued"}
              /\ ui'.busy = ui.busy /\ ui'.saving = ui.saving
              /\ (HoldsPanel(asked) \/ ui'.panel = ui.panel)
         \/ HoldsEditor(asked) /\ of = "updated" /\ ui'.busy = ui.busy
  PROVE  AgentsInv'
<1>1. PICK q : q = AgentsPage!Request("load", of)
  OBVIOUS
<1>2. AgentsCall \subseteq DOMAIN q /\ q.op = "load" /\ q.of = of
  BY <1>1, AgentsRequest
<1>3. PICK others : others = requests \ {asked}
  OBVIOUS
<1>4. \A c \in others : c \in requests /\ c # asked
  BY <1>3
<1>5. requests' = others \union {q} /\ of \in AgentsPage!Loads
  BY <1>1, <1>3 DEF AgentsPage!Loads
<1>6. AgentsLock(ui, requests)
  BY DEF AgentsInv
<1>7. CASE /\ HoldsRows(asked) /\ of \in {"pause", "revoke", "issued"}
           /\ ui'.busy = ui.busy /\ ui'.saving = ui.saving
           /\ HoldsPanel(asked) \/ ui'.panel = ui.panel
  <2>1. /\ \A c \in others : ~HoldsRows(c) /\ ~HoldsPanel(c)
        /\ ui'.busy = TRUE
    BY <1>4, <1>6, <1>7 DEF AgentsLock, HoldsRows, HoldsPanel
  <2>2. \A c \in others : HoldsEditor(c) => ui'.panel = "editor" /\ ui'.saving = TRUE
    BY <1>4, <1>6, <1>7 DEF AgentsLock, HoldsPanel
  <2>3. ~HoldsEditor(q) /\ ~HoldsPanel(q)
    BY <1>2, <1>7 DEF HoldsEditor, HoldsPanel
  <2>4. AgentsLock(ui', requests')
    BY <1>4, <1>5, <1>6, <2>1, <2>2, <2>3 DEF AgentsLock
  <2> QED
    BY <1>2, <1>4, <1>5, <2>4, AgentsStep
<1>8. CASE HoldsEditor(asked) /\ of = "updated" /\ ui'.busy = ui.busy
  <2>1. \A c \in others : ~HoldsEditor(c) /\ ~HoldsPanel(c)
    BY <1>4, <1>6, <1>8 DEF AgentsLock, HoldsPanel
  <2>2. ~HoldsRows(q) /\ ~HoldsEditor(q) /\ ~HoldsPanel(q)
    BY <1>2, <1>8 DEF HoldsRows, HoldsEditor, HoldsPanel
  <2>3. AgentsLock(ui', requests')
    BY <1>4, <1>5, <1>6, <1>8, <2>1, <2>2 DEF AgentsLock
  <2> QED
    BY <1>2, <1>4, <1>5, <2>3, AgentsStep
<1> QED
  BY <1>7, <1>8

\* An operation that ends and frees what it held.
LEMMA AgentsFreed ==
  ASSUME AgentsInv, ui.left # TRUE, NEW asked \in requests, requests' = requests \ {asked},
         AgentsScreen \subseteq DOMAIN ui', ui'.left = ui.left, ui'.lost = ui.lost,
         ui'.token = ui.token,
         ui'.busy = ui.busy \/ HoldsRows(asked),
         ui'.saving = ui.saving \/ HoldsEditor(asked),
         ui'.panel = ui.panel \/ HoldsEditor(asked)
  PROVE  AgentsInv'
<1>1. \A c \in requests' : c \in requests /\ c # asked
  OBVIOUS
<1>2. AgentsLock(ui, requests) /\ ui.lost = FALSE
  BY DEF AgentsInv
<1>3. HoldsRows(asked) => \A c \in requests' : ~HoldsRows(c)
  BY <1>1, <1>2 DEF AgentsLock
<1>4. HoldsEditor(asked) => \A c \in requests' : ~HoldsEditor(c) /\ ~HoldsPanel(c)
  BY <1>1, <1>2 DEF AgentsLock, HoldsPanel
<1>5. HoldsEditor(asked) => ui.token = AgentsPage!NoToken
  BY <1>2 DEF AgentsLock
<1>6. AgentsLock(ui', requests')
  BY <1>1, <1>2, <1>3, <1>4, <1>5 DEF AgentsLock
<1> QED
  BY <1>1, <1>2, <1>6, AgentsStep

LEMMA AgentsHear ==
  ASSUME AgentsInv, AgentsPage!Deliver,
         ~\E asked \in requests : AgentsPage!SessionExpired(asked)
  PROVE  AgentsInv'
<1>0. PICK asked \in requests : \E c \in AgentsPage!Heard(asked) :
        \/ /\ ~ui.left
           /\ \/ AgentsPage!PauseEnds(c, requests \ {asked})
              \/ AgentsPage!ActionEnds(c, requests \ {asked})
              \/ AgentsPage!EditorEnds(c, requests \ {asked})
              \/ AgentsPage!LoadEnds(c, requests \ {asked})
        \/ AgentsPage!NobodyListens(c, requests \ {asked})
  BY DEF AgentsPage!Deliver
<1>1. PICK c \in AgentsPage!Heard(asked) :
        \/ /\ ~ui.left
           /\ \/ AgentsPage!PauseEnds(c, requests \ {asked})
              \/ AgentsPage!ActionEnds(c, requests \ {asked})
              \/ AgentsPage!EditorEnds(c, requests \ {asked})
              \/ AgentsPage!LoadEnds(c, requests \ {asked})
        \/ AgentsPage!NobodyListens(c, requests \ {asked})
  BY <1>0
<1>2. AgentsCall \subseteq DOMAIN c /\ c.of = asked.of /\ c.op = asked.op
  <2>1. AgentsCall \subseteq DOMAIN asked
    BY DEF AgentsInv
  <2>2. c = asked \/ c = [asked EXCEPT !.stage = "failed"]
    BY <1>1 DEF AgentsPage!Heard
  <2> QED
    BY <2>1, <2>2 DEF AgentsCall
<1>3. PICK others : others = requests \ {asked}
  OBVIOUS
<1>4. AgentsScreen \subseteq DOMAIN ui
  BY DEF AgentsInv
<1>5. \/ asked.op = "load" /\ asked.of \in AgentsPage!Loads
      \/ asked.op = "write" /\ asked.of \in AgentsPage!Writes
  BY DEF AgentsInv
<1>6. CASE AgentsPage!NobodyListens(c, others)
  <2>1. PICK lost : ui.left /\ requests' = others /\ ui' = [ui EXCEPT !.lost = lost]
    BY <1>6 DEF AgentsPage!NobodyListens
  <2>2. AgentsScreen \subseteq DOMAIN ui' /\ ui'.left = ui.left
    BY <1>4, <2>1 DEF AgentsScreen
  <2>3. \A d \in requests' : d \in requests
    BY <1>3, <2>1
  <2>4. CASE ui.left = TRUE
    BY <2>2, <2>3, <2>4, AgentsStep
  <2> QED
    BY <2>1, <2>4
<1>7. ASSUME ~ui.left
      PROVE  ui.left # TRUE /\ ui.lost = FALSE /\ AgentsLock(ui, requests)
  BY <1>7 DEF AgentsInv
<1>8. PICK v, absent : v = AgentsPage!Closed(ui) /\
        v = [ui EXCEPT !.panel = "", !.agent = AgentsPage!Nobody, !.copy = absent,
                       !.conflict = FALSE]
  BY DEF AgentsPage!Closed
<1>9. /\ AgentsScreen \subseteq DOMAIN v /\ v.left = ui.left /\ v.lost = ui.lost
      /\ v.busy = ui.busy /\ v.saving = ui.saving /\ v.token = ui.token /\ v.panel = ""
  BY <1>4, <1>8 DEF AgentsScreen
\* The token that is shown takes the place of none.
<1>10. ASSUME ~ui.left, ui.token = AgentsPage!NoToken, NEW t, t = AgentsPage!TokenShown(c)
       PROVE  /\ AgentsScreen \subseteq DOMAIN t /\ t.left = ui.left /\ t.lost = FALSE
              /\ t.busy = ui.busy /\ t.saving = ui.saving /\ t.panel = "connection"
  <2>1. PICK issued, lost :
          /\ t = [v EXCEPT !.panel = "connection", !.agent = c.agent, !.token = issued,
                           !.saved = FALSE, !.lost = lost]
          /\ lost = (v.lost \/ (ui.token # AgentsPage!NoToken /\ ~ui.saved))
    BY <1>8, <1>10 DEF AgentsPage!TokenShown
  <2>2. lost = FALSE
    BY <1>7, <1>9, <1>10, <2>1
  <2> QED
    BY <1>9, <2>1, <2>2 DEF AgentsScreen
<1>11. CASE ~ui.left /\ AgentsPage!PauseEnds(c, others)
  <2>1. c.of = "pause" /\ c.op = "write"
    BY <1>11 DEF AgentsPage!PauseEnds
  <2>2. HoldsRows(asked)
    BY <1>2, <2>1 DEF HoldsRows
  <2>3. CASE ui' = ui /\ AgentsPage!Then(others, "pause")
    <3>1. requests' = (requests \ {asked}) \union {AgentsPage!Request("load", "pause")}
      BY <1>3, <2>3 DEF AgentsPage!Then
    <3>2. ui.token = AgentsPage!NoToken \/ ui.panel = "connection"
      BY <1>7, <1>11 DEF AgentsLock
    <3>3. PICK of : of = "pause"
      OBVIOUS
    <3> QED
      BY <1>2, <1>4, <1>7, <1>11, <2>1, <2>2, <2>3, <3>1, <3>2, <3>3, AgentsFollowed
  <2>4. CASE ui' = AgentsPage!Freed /\ requests' = others
    <3>1. /\ AgentsScreen \subseteq DOMAIN ui' /\ ui'.left = ui.left /\ ui'.lost = ui.lost
          /\ ui'.token = ui.token /\ ui'.saving = ui.saving /\ ui'.panel = ui.panel
      BY <1>4, <2>4 DEF AgentsPage!Freed, AgentsScreen
    <3> QED
      BY <1>3, <1>7, <1>11, <2>2, <2>4, <3>1, AgentsFreed
  <2> QED
    BY <1>11, <2>3, <2>4 DEF AgentsPage!PauseEnds
<1>12. CASE ~ui.left /\ AgentsPage!ActionEnds(c, others)
  <2>1. c.of \in {"revoke", "rotate"} /\ c.op = "write"
    BY <1>12 DEF AgentsPage!ActionEnds
  <2>2. HoldsRows(asked) /\ HoldsPanel(asked)
    BY <1>2, <2>1 DEF HoldsRows, HoldsPanel
  <2>3. ui.token = AgentsPage!NoToken
    BY <1>2, <1>7, <1>12, <2>1, <2>2 DEF AgentsLock
  <2>4. CASE ui' = AgentsPage!Freed /\ requests' = others
    <3>1. /\ AgentsScreen \subseteq DOMAIN ui' /\ ui'.left = ui.left /\ ui'.lost = ui.lost
          /\ ui'.token = ui.token /\ ui'.saving = ui.saving /\ ui'.panel = ui.panel
      BY <1>4, <2>4 DEF AgentsPage!Freed, AgentsScreen
    <3> QED
      BY <1>3, <1>7, <1>12, <2>2, <2>4, <3>1, AgentsFreed
  <2>5. CASE c.of = "revoke" /\ ui' = v /\ AgentsPage!Then(others, "revoke")
    <3>1. requests' = (requests \ {asked}) \union {AgentsPage!Request("load", "revoke")}
      BY <1>3, <2>5 DEF AgentsPage!Then
    <3>2. PICK of : of = "revoke"
      OBVIOUS
    <3> QED
      BY <1>2, <1>7, <1>9, <1>12, <2>1, <2>2, <2>3, <2>5, <3>1, <3>2, AgentsFollowed
  <2>6. CASE c.of = "rotate" /\ ui' = AgentsPage!TokenShown(c)
             /\ AgentsPage!Then(others, "issued")
    <3>1. requests' = (requests \ {asked}) \union {AgentsPage!Request("load", "issued")}
      BY <1>3, <2>6 DEF AgentsPage!Then
    <3>2. PICK of : of = "issued"
      OBVIOUS
    <3>3. /\ AgentsScreen \subseteq DOMAIN ui' /\ ui'.left = ui.left /\ ui'.lost = FALSE
          /\ ui'.busy = ui.busy /\ ui'.saving = ui.saving /\ ui'.panel = "connection"
      BY <1>10, <1>12, <2>3, <2>6
    <3> QED
      BY <1>2, <1>7, <1>12, <2>1, <2>2, <3>1, <3>2, <3>3, AgentsFollowed
  <2> QED
    BY <1>8, <1>12, <2>4, <2>5, <2>6 DEF AgentsPage!ActionEnds
<1>13. CASE ~ui.left /\ AgentsPage!EditorEnds(c, others)
  <2>1. c.of \in {"edit", "create"} /\ c.op = "write"
    BY <1>2, <1>5, <1>13 DEF AgentsPage!EditorEnds, AgentsPage!Loads
  <2>2. HoldsEditor(asked)
    BY <1>2, <2>1 DEF HoldsEditor
  <2>3. ui.token = AgentsPage!NoToken
    BY <1>7, <1>13, <2>2 DEF AgentsLock
  <2>4. CASE c.stage # "ok" /\ requests' = others
    <3>1. PICK conflict : ui' = [ui EXCEPT !.saving = FALSE, !.conflict = conflict]
      BY <1>13, <2>4 DEF AgentsPage!EditorEnds
    <3>2. /\ AgentsScreen \subseteq DOMAIN ui' /\ ui'.left = ui.left /\ ui'.lost = ui.lost
          /\ ui'.token = ui.token /\ ui'.busy = ui.busy /\ ui'.panel = ui.panel
      BY <1>4, <3>1 DEF AgentsScreen
    <3> QED
      BY <1>3, <1>7, <1>13, <2>2, <2>4, <3>2, AgentsFreed
  <2>5. CASE c.stage = "ok" /\ AgentsPage!Then(others, "updated")
    <3>1. requests' = (requests \ {asked}) \union {AgentsPage!Request("load", "updated")}
      BY <1>3, <2>5 DEF AgentsPage!Then
    <3>2. PICK of : of = "updated"
      OBVIOUS
    <3>3. PICK t : t = AgentsPage!TokenShown(c)
      OBVIOUS
    <3>4. ui' = [t EXCEPT !.saving = FALSE] \/ ui' = [v EXCEPT !.saving = FALSE]
      BY <1>8, <1>13, <2>5, <3>3 DEF AgentsPage!EditorEnds
    <3>5. /\ AgentsScreen \subseteq DOMAIN t /\ t.left = ui.left /\ t.lost = FALSE
          /\ t.busy = ui.busy /\ t.panel = "connection"
      BY <1>10, <1>13, <2>3, <3>3
    <3>6. /\ AgentsScreen \subseteq DOMAIN ui' /\ ui'.left = ui.left /\ ui'.lost = FALSE
          /\ ui'.busy = ui.busy
          /\ ui'.token = AgentsPage!NoToken \/ ui'.panel = "connection"
      BY <1>7, <1>9, <1>13, <2>3, <3>4, <3>5 DEF AgentsScreen
    <3> QED
      BY <1>2, <1>7, <1>13, <2>1, <2>2, <3>1, <3>2, <3>6, AgentsFollowed
  <2> QED
    BY <1>13, <2>4, <2>5 DEF AgentsPage!EditorEnds
<1>14. CASE ~ui.left /\ AgentsPage!LoadEnds(c, others)
  <2>1. c.op = "load" /\ requests' = others
    BY <1>14 DEF AgentsPage!LoadEnds
  <2>2. PICK loaded : loaded = IF c.stage = "ok" THEN [ui EXCEPT !.rows = c.rows] ELSE ui
    OBVIOUS
  <2>3. PICK w : w = IF c.of \in {"pause", "revoke", "issued"}
                       THEN [loaded EXCEPT !.busy = FALSE] ELSE loaded
    OBVIOUS
  <2>4. /\ AgentsScreen \subseteq DOMAIN loaded /\ loaded.left = ui.left
        /\ loaded.lost = ui.lost /\ loaded.busy = ui.busy /\ loaded.saving = ui.saving
        /\ loaded.token = ui.token /\ loaded.panel = ui.panel
    BY <1>4, <2>2 DEF AgentsScreen
  <2>5. /\ AgentsScreen \subseteq DOMAIN w /\ w.left = ui.left
        /\ w.lost = ui.lost /\ w.saving = ui.saving
        /\ w.token = ui.token /\ w.panel = ui.panel
        /\ w.busy = ui.busy \/ HoldsRows(asked)
    BY <1>2, <2>1, <2>3, <2>4 DEF AgentsScreen, HoldsRows
  <2>6. CASE c.of # "conflict"
    <3>1. ui' = w
      BY <1>14, <2>2, <2>3, <2>6 DEF AgentsPage!LoadEnds
    <3> QED
      BY <1>3, <1>7, <1>14, <2>1, <2>5, <3>1, AgentsFreed
  <2>7. CASE c.of = "conflict"
    <3>1. HoldsEditor(asked)
      BY <1>2, <2>1, <2>7 DEF HoldsEditor
    <3>2. PICK x, blank : x = AgentsPage!Closed(w) /\
            x = [w EXCEPT !.panel = "", !.agent = AgentsPage!Nobody, !.copy = blank,
                          !.conflict = FALSE]
      BY DEF AgentsPage!Closed
    <3>3. ui' = [x EXCEPT !.saving = FALSE] \/ ui' = [w EXCEPT !.saving = FALSE]
      BY <1>14, <2>2, <2>3, <2>7, <3>2 DEF AgentsPage!LoadEnds
    <3>4. /\ AgentsScreen \subseteq DOMAIN x /\ x.left = ui.left /\ x.lost = ui.lost
          /\ x.token = ui.token /\ x.busy = w.busy
      BY <2>5, <3>2 DEF AgentsScreen
    <3>5. /\ AgentsScreen \subseteq DOMAIN ui' /\ ui'.left = ui.left /\ ui'.lost = ui.lost
          /\ ui'.token = ui.token /\ ui'.busy = w.busy
      BY <2>5, <3>3, <3>4 DEF AgentsScreen
    <3> QED
      BY <1>3, <1>7, <1>14, <2>1, <2>5, <3>1, <3>5, AgentsFreed
  <2> QED
    BY <2>6, <2>7
<1> QED
  BY <1>1, <1>3, <1>6, <1>11, <1>12, <1>13, <1>14

LEMMA AgentsStart == AgentsPage!Init => AgentsInv
<1> SUFFICES ASSUME AgentsPage!Init PROVE AgentsInv
  OBVIOUS
<1>1. PICK fresh, rows : /\ fresh = AgentsPage!Fresh
                         /\ ui = [fresh EXCEPT !.rows = rows] /\ requests = {}
  BY DEF AgentsPage!Init
<1>2. /\ AgentsScreen \subseteq DOMAIN fresh /\ fresh.lost = FALSE
      /\ fresh.token = AgentsPage!NoToken
  <2>1. ASSUME NEW absent, NEW none, NEW empty, NEW f,
               f = [rows |-> empty, busy |-> FALSE, saving |-> FALSE,
                    conflict |-> FALSE, panel |-> "", agent |-> AgentsPage!Nobody,
                    copy |-> absent, token |-> none, saved |-> FALSE, lost |-> FALSE,
                    left |-> FALSE]
        PROVE  AgentsScreen \subseteq DOMAIN f /\ f.lost = FALSE /\ f.token = none
    BY <2>1 DEF AgentsScreen
  <2> QED
    BY <1>1, <2>1 DEF AgentsPage!Fresh
<1>3. /\ AgentsScreen \subseteq DOMAIN ui /\ ui.lost = FALSE
      /\ ui.token = AgentsPage!NoToken
  BY <1>1, <1>2 DEF AgentsScreen
<1> QED
  BY <1>1, <1>3 DEF AgentsInv, AgentsLock

\* The end of the session takes the page away.
LEMMA AgentsExpire ==
  ASSUME AgentsInv, NEW asked \in requests, AgentsPage!SessionExpired(asked)
  PROVE  AgentsInv'
<1>1. PICK fresh, lost : /\ fresh = AgentsPage!Fresh
                         /\ ui' = [fresh EXCEPT !.left = TRUE, !.lost = lost]
                         /\ requests' \subseteq requests
  BY DEF AgentsPage!SessionExpired, AgentsPage!Unmounted
<1>2. AgentsScreen \subseteq DOMAIN fresh
  BY <1>1 DEF AgentsPage!Fresh, AgentsScreen
<1>3. AgentsScreen \subseteq DOMAIN ui' /\ ui'.left = TRUE
  BY <1>1, <1>2 DEF AgentsScreen
<1> QED
  BY <1>1, <1>3, AgentsStep

LEMMA AgentsKeep ==
  ASSUME AgentsInv, AgentsPage!Next
  PROVE  AgentsInv'
  BY AgentsOperated, AgentsPressed, AgentsServed, AgentsExpire, AgentsHear
     DEF AgentsPage!Next

(***************************************************************************)
(* The settings page                                                       *)
(***************************************************************************)
SettingsScreen == {"section", "visible", "mounted", "known", "failed", "busy", "panel", "picked",
                   "access", "person", "view", "form", "edited", "typed", "lost"}
SettingsCall == {"op", "shown", "record", "gone", "stage"}
MyPanels == {"issue", "revokeMine", "token", "tokenKept"}
TheirPanels == {"edit", "new", "reset", "revokeTheirs", "password", "passwordKept"}

\* The operations of the two sections, each with the list that is read again after it.
Mine(c) == c.op \in {"issue", "revokeMine", "accessAfter"}
Theirs(c) == c.op \in {"edit", "new", "reset", "revokeTheirs", "peopleAfter"}

\* What is unfinished on screen is of the section that is shown.
SettingsShown(u) ==
  /\ SettingsScreen \subseteq DOMAIN u
  /\ u.lost = FALSE /\ u.section \in Settings!Sections
  /\ \A s \in Settings!Sections : s \in u.busy => s = u.section
  /\ u.panel \in MyPanels => u.section = "configuration"
  /\ u.panel \in TheirPanels => u.section = "administrators"
  /\ u.edited = TRUE => u.section = "audit"
  /\ u.typed => u.section = "security"

\* One operation of a section at a time, and the section is busy until its list is read
\* again; no request outlives the page with a secret.
SettingsInv ==
  /\ SettingsShown(ui)
  /\ \A c \in requests :
       /\ SettingsCall \subseteq DOMAIN c /\ c.gone = FALSE
       /\ Mine(c) => "configuration" \in ui.busy
       /\ Theirs(c) => "administrators" \in ui.busy
  /\ \A c, d \in requests : Mine(c) /\ Mine(d) => c = d
  /\ \A c, d \in requests : Theirs(c) /\ Theirs(d) => c = d

\* The session is over: nothing on screen can be pressed, and nobody hears an answer.
SettingsOut ==
  /\ SettingsScreen \subseteq DOMAIN ui
  /\ ui.section = Settings!SignedOut /\ ui.visible = FALSE /\ ui.panel = ""
  /\ ui.busy = {} /\ ui.failed = {} /\ ui.edited = FALSE /\ ui.typed = FALSE
  /\ \A c \in requests : SettingsCall \subseteq DOMAIN c /\ c.gone = TRUE

LEMMA SettingsRequest ==
  ASSUME NEW op, NEW shown, NEW sent
  PROVE  /\ SettingsCall \subseteq DOMAIN Settings!Request(op, shown, sent)
         /\ Settings!Request(op, shown, sent).op = op
         /\ Settings!Request(op, shown, sent).gone = FALSE
<1>1. ASSUME NEW record, NEW r,
             r = [op |-> op, shown |-> shown, record |-> record, gone |-> FALSE,
                  stage |-> "sent"]
      PROVE  SettingsCall \subseteq DOMAIN r /\ r.op = op /\ r.gone = FALSE
  BY <1>1 DEF SettingsCall
<1> QED
  BY <1>1 DEF Settings!Request

LEMMA SettingsPlain ==
  ASSUME NEW op
  PROVE  /\ SettingsCall \subseteq DOMAIN Settings!Plain(op)
         /\ Settings!Plain(op).op = op /\ Settings!Plain(op).gone = FALSE
  BY SettingsRequest DEF Settings!Plain

\* A screen that adds nothing unfinished, or adds it to the section that is shown.
LEMMA SettingsShows ==
  ASSUME NEW u, SettingsShown(u), NEW v, SettingsScreen \subseteq DOMAIN v,
         v.section = u.section, v.lost = u.lost,
         v.panel = u.panel \/ v.panel = "",
         \A s \in v.busy : s \in u.busy \/ s = u.section,
         v.edited = u.edited \/ v.edited = FALSE \/ u.section = "audit",
         v.typed => u.typed \/ u.section = "security"
  PROVE  SettingsShown(v)
  BY DEF SettingsShown, MyPanels, TheirPanels

\* A step that starts no operation, and keeps the sections with one busy.
LEMMA SettingsStep ==
  ASSUME SettingsInv, SettingsShown(ui'),
         \A c \in requests' :
           \/ /\ c \in requests
              /\ Mine(c) => "configuration" \in ui'.busy
              /\ Theirs(c) => "administrators" \in ui'.busy
           \/ SettingsCall \subseteq DOMAIN c /\ c.gone = FALSE /\ ~Mine(c) /\ ~Theirs(c)
  PROVE  SettingsInv'
<1>1. \A c \in requests' :
        /\ SettingsCall \subseteq DOMAIN c /\ c.gone = FALSE
        /\ Mine(c) => "configuration" \in ui'.busy
        /\ Theirs(c) => "administrators" \in ui'.busy
  BY DEF SettingsInv
<1>2. /\ \A c, d \in requests' : Mine(c) /\ Mine(d) => c = d
      /\ \A c, d \in requests' : Theirs(c) /\ Theirs(d) => c = d
  BY DEF SettingsInv
<1> QED
  BY <1>1, <1>2 DEF SettingsInv, SettingsShown, Mine, Theirs, SettingsCall, SettingsScreen,
    MyPanels, TheirPanels, Settings!Sections

\* A step of the page that keeps what is busy, and asks at most for a list or a status.
LEMMA SettingsLook ==
  ASSUME SettingsInv, SettingsShown(ui'), ui'.busy = ui.busy, NEW op,
         op \notin {"issue", "revokeMine", "accessAfter"},
         op \notin {"edit", "new", "reset", "revokeTheirs", "peopleAfter"},
         \A c \in requests' : c \in requests \/ c = Settings!Plain(op)
  PROVE  SettingsInv'
<1>1. PICK q : q = Settings!Plain(op)
  OBVIOUS
<1>2. SettingsCall \subseteq DOMAIN q /\ q.gone = FALSE /\ ~Mine(q) /\ ~Theirs(q)
  <2>1. SettingsCall \subseteq DOMAIN q /\ q.op = op /\ q.gone = FALSE
    BY <1>1, SettingsPlain
  <2> QED
    BY <2>1 DEF Mine, Theirs
<1> QED
  BY <1>1, <1>2, SettingsStep DEF SettingsInv

\* The effects after a step: failures of the export may be forgotten, a load asked for.
LEMMA SettingsSettle ==
  ASSUME NEW u, NEW others, Settings!Settle(u, others), SettingsShown(u)
  PROVE  /\ SettingsShown(ui') /\ ui'.busy = u.busy
         /\ \A c \in requests' : c \in others \/ c = Settings!Plain("load")
<1>1. PICK failed : ui' = u \/ ui' = [u EXCEPT !.failed = failed]
  BY DEF Settings!Settle
<1>2. /\ SettingsScreen \subseteq DOMAIN ui' /\ ui'.busy = u.busy /\ ui'.section = u.section
      /\ ui'.lost = u.lost /\ ui'.panel = u.panel /\ ui'.edited = u.edited
      /\ ui'.typed = u.typed
  BY <1>1 DEF SettingsShown, SettingsScreen
<1>3. SettingsShown(ui')
  BY <1>2, SettingsShows
<1>4. \A c \in requests' : c \in others \/ c = Settings!Plain("load")
  BY DEF Settings!Settle
<1> QED
  BY <1>2, <1>3, <1>4

\* Nothing unfinished lets the page go.
LEMMA SettingsFree ==
  ASSUME SettingsInv, Settings!CanNavigate
  PROVE  /\ \A s \in Settings!Sections : s \notin ui.busy
         /\ ui.edited # TRUE /\ ~ui.typed
         /\ \A c \in requests : ~Mine(c) /\ ~Theirs(c)
<1>1. \A s \in Settings!Sections : s \notin ui.busy
  BY DEF Settings!CanNavigate, Settings!Work
<1>2. ui.edited # TRUE
  BY DEF Settings!CanNavigate, Settings!Work, Settings!Sections
<1>3. ~ui.typed
  BY DEF Settings!CanNavigate, Settings!Work, Settings!Sections
<1>4. \A c \in requests : ~Mine(c) /\ ~Theirs(c)
  BY <1>1 DEF SettingsInv, Settings!Sections
<1> QED
  BY <1>1, <1>2, <1>3, <1>4

\* The sections and leaving the page.
LEMMA SettingsTurned ==
  ASSUME SettingsInv, Settings!SelectSection \/ Settings!Hide \/ Settings!Leave
  PROVE  SettingsInv'
<1>1. SettingsShown(ui) /\ SettingsScreen \subseteq DOMAIN ui
  BY DEF SettingsInv, SettingsShown
<1>2. CASE Settings!Hide
  <2>1. PICK visible, u : /\ u = [ui EXCEPT !.visible = visible]
                          /\ Settings!Settle(u, requests)
    BY <1>2 DEF Settings!Hide
  <2>2. /\ SettingsScreen \subseteq DOMAIN u /\ u.section = ui.section /\ u.lost = ui.lost
        /\ u.panel = ui.panel /\ u.busy = ui.busy /\ u.edited = ui.edited
        /\ u.typed = ui.typed
    BY <1>1, <2>1 DEF SettingsScreen
  <2>3. SettingsShown(u)
    BY <1>1, <2>2, SettingsShows
  <2>4. /\ SettingsShown(ui') /\ ui'.busy = ui.busy
        /\ \A c \in requests' : c \in requests \/ c = Settings!Plain("load")
    BY <2>1, <2>2, <2>3, SettingsSettle
  <2> QED
    BY <2>4, SettingsLook
<1>3. CASE Settings!SelectSection
  <2>10. PICK s \in Settings!Sections :
           Settings!Settle([ui EXCEPT !.section = s,
                               !.mounted = ui.mounted \union ({s} \intersect Settings!Loaded)],
                            requests \union
                              (IF s \in ui.mounted THEN {}
                               ELSE CASE s = "configuration" -> {Settings!Plain("access")}
                                      [] s = "administrators" -> {Settings!Plain("people")}
                                      [] OTHER -> {}))
    BY <1>3 DEF Settings!SelectSection
  <2>11. PICK more : more = IF s \in ui.mounted THEN {}
                            ELSE CASE s = "configuration" -> {Settings!Plain("access")}
                                   [] s = "administrators" -> {Settings!Plain("people")}
                                   [] OTHER -> {}
    OBVIOUS
  <2>1. /\ ui.panel = "" /\ Settings!CanNavigate
        /\ more \in {{}, {Settings!Plain("access")}, {Settings!Plain("people")}}
        /\ Settings!Settle([ui EXCEPT !.section = s,
                              !.mounted = ui.mounted \union ({s} \intersect Settings!Loaded)],
                           requests \union more)
    <3>1. more \in {{}, {Settings!Plain("access")}, {Settings!Plain("people")}}
      <4>1. CASE s = "configuration"
        BY <2>11, <4>1
      <4>2. CASE s = "administrators"
        BY <2>11, <4>2
      <4>3. CASE s # "configuration" /\ s # "administrators"
        BY <2>11, <4>3
      <4> QED
        BY <4>1, <4>2, <4>3
    <3> QED
      BY <1>3, <2>10, <2>11, <3>1 DEF Settings!SelectSection
  <2>2. PICK mounted, u : /\ u = [ui EXCEPT !.section = s, !.mounted = mounted]
                          /\ Settings!Settle(u, requests \union more)
    BY <2>1
  <2>3. /\ \A x \in Settings!Sections : x \notin ui.busy
        /\ ui.edited # TRUE /\ ~ui.typed
        /\ \A c \in requests : ~Mine(c) /\ ~Theirs(c)
    BY <2>1, SettingsFree
  <2>4. /\ SettingsScreen \subseteq DOMAIN u /\ u.section = s /\ u.lost = ui.lost
        /\ u.panel = ui.panel /\ u.busy = ui.busy /\ u.edited = ui.edited
        /\ u.typed = ui.typed
    BY <1>1, <2>2 DEF SettingsScreen
  <2>5. SettingsShown(u)
    BY <1>1, <2>1, <2>3, <2>4 DEF SettingsShown, MyPanels, TheirPanels
  <2>6. /\ SettingsShown(ui')
        /\ \A c \in requests' : c \in requests \union more \/ c = Settings!Plain("load")
    BY <2>2, <2>5, SettingsSettle
  <2>7. PICK a, p, l : /\ a = Settings!Plain("access") /\ p = Settings!Plain("people")
                       /\ l = Settings!Plain("load")
    OBVIOUS
  <2>8. \A q \in {a, p, l} : /\ SettingsCall \subseteq DOMAIN q /\ q.gone = FALSE
                            /\ ~Mine(q) /\ ~Theirs(q)
    <3>1. /\ SettingsCall \subseteq DOMAIN a /\ a.gone = FALSE /\ a.op = "access"
      BY <2>7, SettingsPlain
    <3>2. /\ SettingsCall \subseteq DOMAIN p /\ p.gone = FALSE /\ p.op = "people"
      BY <2>7, SettingsPlain
    <3>3. /\ SettingsCall \subseteq DOMAIN l /\ l.gone = FALSE /\ l.op = "load"
      BY <2>7, SettingsPlain
    <3> QED
      BY <3>1, <3>2, <3>3 DEF Mine, Theirs
  <2>9. \A c \in requests' : c \in requests \/ c \in {a, p, l}
    BY <2>1, <2>6, <2>7
  <2> QED
    BY <2>3, <2>6, <2>8, <2>9, SettingsStep
<1>4. CASE Settings!Leave
  <2>1. /\ ui' = Settings!Fresh
        /\ \A c \in requests' : \E d \in requests : d.op \in Settings!Secret
    BY <1>4 DEF Settings!Leave
  <2>2. \A c \in requests : ~Mine(c) /\ ~Theirs(c)
    BY <1>4, SettingsFree DEF Settings!Leave
  <2>3. requests' = {}
    BY <2>1, <2>2 DEF Settings!Secret, Mine, Theirs
  <2>4. ASSUME NEW none, NEW u,
               u = [section |-> "other", visible |-> TRUE, mounted |-> {}, known |-> {},
                    failed |-> {}, busy |-> {}, panel |-> "", picked |-> 0, access |-> none,
                    person |-> none, view |-> none, form |-> 0, edited |-> FALSE,
                    typed |-> FALSE, lost |-> FALSE]
        PROVE  SettingsShown(u)
    <3>1. /\ SettingsScreen \subseteq DOMAIN u
          /\ u.section = "other" /\ u.busy = {} /\ u.panel = "" /\ u.lost = FALSE
          /\ u.edited = FALSE /\ u.typed = FALSE
      BY <2>4 DEF SettingsScreen
    <3> QED
      BY <3>1 DEF SettingsShown, MyPanels, TheirPanels, Settings!Sections
  <2>5. SettingsShown(ui')
    BY <2>1, <2>4 DEF Settings!Fresh
  <2> QED
    BY <2>3, <2>5, SettingsStep
<1> QED
  BY <1>2, <1>3, <1>4

\* The panels, and the requests that belong to no panel.
LEMMA SettingsOperated ==
  ASSUME SettingsInv,
         \/ Settings!Retry \/ Settings!OpenIssue \/ Settings!OpenRevoke
         \/ Settings!AddAdministrator \/ Settings!OpenPerson \/ Settings!ConfirmSaved
         \/ Settings!ClosePanel \/ Settings!EditExport \/ Settings!SendTest
         \/ Settings!SaveExport \/ Settings!ReloadExport \/ Settings!Poll
         \/ Settings!TypePassword \/ Settings!ChangePassword
  PROVE  SettingsInv'
<1>1. SettingsShown(ui) /\ SettingsScreen \subseteq DOMAIN ui
  BY DEF SettingsInv, SettingsShown
<1>2. CASE Settings!Retry
  <2>1. PICK op \in {"access", "people"} :
          \A c \in requests' : c \in requests \/ c = Settings!Plain(op)
    BY <1>2 DEF Settings!Retry, Settings!Ask
  <2>2. PICK failed : ui' = ui \/ ui' = [ui EXCEPT !.failed = failed]
    BY <1>2 DEF Settings!Retry
  <2>3. /\ SettingsScreen \subseteq DOMAIN ui' /\ ui'.section = ui.section /\ ui'.lost = ui.lost
        /\ ui'.panel = ui.panel /\ ui'.busy = ui.busy /\ ui'.edited = ui.edited
        /\ ui'.typed = ui.typed
    BY <1>1, <2>2 DEF SettingsScreen
  <2>4. SettingsShown(ui')
    BY <1>1, <2>3, SettingsShows
  <2>5. op \notin {"issue", "revokeMine", "accessAfter"}
        /\ op \notin {"edit", "new", "reset", "revokeTheirs", "peopleAfter"}
    OBVIOUS
  <2> QED
    BY <2>1, <2>3, <2>4, <2>5, SettingsLook
\* A panel that opens, turns or closes in its own section.
<1>3. ASSUME NEW panel, requests' = requests, SettingsScreen \subseteq DOMAIN ui',
             ui'.panel = panel, ui'.section = ui.section, ui'.lost = ui.lost,
             ui'.busy = ui.busy, ui'.edited = ui.edited, ui'.typed = ui.typed,
             \/ panel = ""
             \/ ui.section = "configuration" /\ panel \in MyPanels
             \/ ui.section = "administrators" /\ panel \in TheirPanels
      PROVE  SettingsInv'
  <2>1. SettingsShown(ui')
    BY <1>1, <1>3 DEF SettingsShown, MyPanels, TheirPanels
  <2> QED
    BY <1>3, <2>1, SettingsStep DEF SettingsInv
<1>4. ASSUME NEW panel, NEW picked, Settings!Open(panel, picked),
             \/ ui.section = "configuration" /\ panel \in MyPanels
             \/ ui.section = "administrators" /\ panel \in TheirPanels
      PROVE  SettingsInv'
  <2>1. /\ ui' = [ui EXCEPT !.panel = panel, !.picked = picked] /\ requests' = requests
    BY <1>4 DEF Settings!Open
  <2>2. /\ SettingsScreen \subseteq DOMAIN ui' /\ ui'.section = ui.section /\ ui'.lost = ui.lost
        /\ ui'.panel = panel /\ ui'.busy = ui.busy /\ ui'.edited = ui.edited
        /\ ui'.typed = ui.typed
    BY <1>1, <2>1 DEF SettingsScreen
  <2> QED
    BY <1>3, <1>4, <2>1, <2>2
<1>5. CASE Settings!OpenIssue
  BY <1>4, <1>5 DEF Settings!OpenIssue, Settings!In, MyPanels
<1>6. CASE Settings!OpenRevoke
  BY <1>4, <1>6 DEF Settings!OpenRevoke, Settings!In, MyPanels
<1>7. CASE Settings!AddAdministrator
  BY <1>4, <1>7 DEF Settings!AddAdministrator, Settings!In, TheirPanels
<1>8. CASE Settings!OpenPerson
  <2>1. PICK panel \in {"edit", "reset", "revokeTheirs"} :
          Settings!Open(panel, ui.person.revision)
    BY <1>8 DEF Settings!OpenPerson
  <2>2. ui.section = "administrators"
    BY <1>8 DEF Settings!OpenPerson, Settings!In
  <2> QED
    BY <1>4, <2>1, <2>2 DEF TheirPanels
<1>9. CASE Settings!ConfirmSaved
  <2>1. PICK panel : /\ ui' = [ui EXCEPT !.panel = panel] /\ requests' = requests
                     /\ \/ ui.panel \in MyPanels /\ panel \in MyPanels
                        \/ ui.panel \in TheirPanels /\ panel \in TheirPanels
    <3>1. PICK panel : /\ ui' = [ui EXCEPT !.panel = panel] /\ requests' = requests
                       /\ \/ ui.panel = "token" /\ panel = "tokenKept"
                          \/ ui.panel = "password" /\ panel = "passwordKept"
                          \/ ui.panel = "tokenKept" /\ panel = "token"
                          \/ ui.panel = "passwordKept" /\ panel = "password"
      BY <1>9 DEF Settings!ConfirmSaved
    <3>2. \/ ui.panel \in MyPanels /\ panel \in MyPanels
          \/ ui.panel \in TheirPanels /\ panel \in TheirPanels
      BY <3>1 DEF MyPanels, TheirPanels
    <3> QED
      BY <3>1, <3>2
  <2>2. /\ SettingsScreen \subseteq DOMAIN ui' /\ ui'.section = ui.section /\ ui'.lost = ui.lost
        /\ ui'.panel = panel /\ ui'.busy = ui.busy /\ ui'.edited = ui.edited
        /\ ui'.typed = ui.typed
    BY <1>1, <2>1 DEF SettingsScreen
  <2>3. \/ ui.section = "configuration" /\ panel \in MyPanels
        \/ ui.section = "administrators" /\ panel \in TheirPanels
    BY <1>1, <2>1 DEF SettingsShown
  <2> QED
    BY <1>3, <2>1, <2>2, <2>3
<1>10. CASE Settings!ClosePanel
  <2>1. ui' = [ui EXCEPT !.panel = "", !.picked = 0] /\ requests' = requests
    BY <1>10 DEF Settings!ClosePanel
  <2>2. /\ SettingsScreen \subseteq DOMAIN ui' /\ ui'.section = ui.section /\ ui'.lost = ui.lost
        /\ ui'.panel = "" /\ ui'.busy = ui.busy /\ ui'.edited = ui.edited
        /\ ui'.typed = ui.typed
    BY <1>1, <2>1 DEF SettingsScreen
  <2>3. PICK panel : panel = ""
    OBVIOUS
  <2> QED
    BY <1>3, <2>1, <2>2, <2>3
<1>11. CASE Settings!EditExport
  <2>1. PICK edited : /\ ui' = [ui EXCEPT !.edited = edited] /\ requests' = requests
                      /\ ui.section = "audit"
    BY <1>11 DEF Settings!EditExport, Settings!Editable, Settings!In
  <2>2. /\ SettingsScreen \subseteq DOMAIN ui' /\ ui'.section = ui.section /\ ui'.lost = ui.lost
        /\ ui'.panel = ui.panel /\ ui'.busy = ui.busy /\ ui'.typed = ui.typed
    BY <1>1, <2>1 DEF SettingsScreen
  <2>3. SettingsShown(ui')
    BY <1>1, <2>1, <2>2, SettingsShows
  <2> QED
    BY <2>1, <2>2, <2>3, SettingsStep DEF SettingsInv
<1>12. CASE Settings!TypePassword
  <2>1. PICK typed : /\ ui' = [ui EXCEPT !.typed = typed] /\ requests' = requests
                     /\ ui.section = "security"
    BY <1>12 DEF Settings!TypePassword, Settings!In
  <2>2. /\ SettingsScreen \subseteq DOMAIN ui' /\ ui'.section = ui.section /\ ui'.lost = ui.lost
        /\ ui'.panel = ui.panel /\ ui'.busy = ui.busy /\ ui'.edited = ui.edited
    BY <1>1, <2>1 DEF SettingsScreen
  <2>3. SettingsShown(ui')
    BY <1>1, <2>1, <2>2, SettingsShows
  <2> QED
    BY <2>1, <2>2, <2>3, SettingsStep DEF SettingsInv
\* An operation of a section that has no list.
<1>13. ASSUME NEW s \in {"audit", "security"}, ui.section = s, NEW u, NEW q,
              u = Settings!Busy(ui, s), NEW failed,
              ui' = u \/ ui' = [u EXCEPT !.failed = failed],
              requests' = requests \union {q}, SettingsCall \subseteq DOMAIN q, q.gone = FALSE,
              ~Mine(q), ~Theirs(q)
       PROVE  SettingsInv'
  <2>1. u = [ui EXCEPT !.busy = ui.busy \union {s}]
    BY <1>13 DEF Settings!Busy
  <2>2. /\ SettingsScreen \subseteq DOMAIN u /\ u.section = ui.section /\ u.lost = ui.lost
        /\ u.panel = ui.panel /\ u.busy = ui.busy \union {s} /\ u.edited = ui.edited
        /\ u.typed = ui.typed
    BY <1>1, <2>1 DEF SettingsScreen
  <2>3. /\ SettingsScreen \subseteq DOMAIN ui' /\ ui'.section = ui.section /\ ui'.lost = ui.lost
        /\ ui'.panel = ui.panel /\ ui'.busy = ui.busy \union {s} /\ ui'.edited = ui.edited
        /\ ui'.typed = ui.typed
    BY <1>13, <2>2 DEF SettingsScreen
  <2>4. SettingsShown(ui')
    BY <1>1, <1>13, <2>3, SettingsShows
  <2>5. \A c \in requests' :
           \/ /\ c \in requests
              /\ Mine(c) => "configuration" \in ui'.busy
              /\ Theirs(c) => "administrators" \in ui'.busy
           \/ SettingsCall \subseteq DOMAIN c /\ c.gone = FALSE /\ ~Mine(c) /\ ~Theirs(c)
    BY <1>13, <2>3 DEF SettingsInv
  <2> QED
    BY <2>4, <2>5, SettingsStep
<1>14. CASE Settings!SendTest \/ Settings!SaveExport
  <2>1. PICK op \in {"test", "save"} :
          /\ ui' = Settings!Busy(ui, "audit") /\ ui.section = "audit"
          /\ requests' = requests \union {Settings!Request(op, ui.form, ui.form)}
    BY <1>14 DEF Settings!SendTest, Settings!SaveExport, Settings!Editable, Settings!In,
      Settings!Ask
  <2>2. PICK q, u : q = Settings!Request(op, ui.form, ui.form) /\ u = Settings!Busy(ui, "audit")
    OBVIOUS
  <2>3. SettingsCall \subseteq DOMAIN q /\ q.gone = FALSE /\ ~Mine(q) /\ ~Theirs(q)
    <3>1. SettingsCall \subseteq DOMAIN q /\ q.op = op /\ q.gone = FALSE
      BY <2>2, SettingsRequest
    <3> QED
      BY <3>1 DEF Mine, Theirs
  <2>4. PICK failed : failed = {}
    OBVIOUS
  <2>5. PICK s \in {"audit", "security"} : s = "audit"
    OBVIOUS
  <2> QED
    BY <1>13, <2>1, <2>2, <2>3, <2>4, <2>5
<1>15. CASE Settings!ReloadExport
  <2>1. PICK q, u : q = Settings!Plain("reload") /\ u = Settings!Busy(ui, "audit")
    OBVIOUS
  <2>2. PICK failed : /\ ui' = [u EXCEPT !.failed = failed] /\ ui.section = "audit"
                      /\ requests' = requests \union {q}
    BY <1>15, <2>1 DEF Settings!ReloadExport, Settings!In, Settings!Ask
  <2>3. SettingsCall \subseteq DOMAIN q /\ q.gone = FALSE /\ ~Mine(q) /\ ~Theirs(q)
    <3>1. SettingsCall \subseteq DOMAIN q /\ q.op = "reload" /\ q.gone = FALSE
      BY <2>1, SettingsPlain
    <3> QED
      BY <3>1 DEF Mine, Theirs
  <2>5. PICK s \in {"audit", "security"} : s = "audit"
    OBVIOUS
  <2> QED
    BY <1>13, <2>1, <2>2, <2>3, <2>5
<1>16. CASE Settings!ChangePassword
  <2>1. PICK q, u : q = Settings!Plain("password") /\ u = Settings!Busy(ui, "security")
    OBVIOUS
  <2>2. /\ ui' = u /\ ui.section = "security" /\ requests' = requests \union {q}
    BY <1>16, <2>1 DEF Settings!ChangePassword, Settings!In, Settings!Ask
  <2>3. SettingsCall \subseteq DOMAIN q /\ q.gone = FALSE /\ ~Mine(q) /\ ~Theirs(q)
    <3>1. SettingsCall \subseteq DOMAIN q /\ q.op = "password" /\ q.gone = FALSE
      BY <2>1, SettingsPlain
    <3> QED
      BY <3>1 DEF Mine, Theirs
  <2>4. PICK failed : failed = {}
    OBVIOUS
  <2>5. PICK s \in {"audit", "security"} : s = "security"
    OBVIOUS
  <2> QED
    BY <1>13, <2>1, <2>2, <2>3, <2>4, <2>5
<1>17. CASE Settings!Poll
  <2>1. PICK op : op = "poll"
    OBVIOUS
  <2>2. ui' = ui /\ \A c \in requests' : c \in requests \/ c = Settings!Plain(op)
    BY <1>17, <2>1 DEF Settings!Poll, Settings!Ask
  <2> QED
    BY <1>1, <2>1, <2>2, SettingsLook
<1> QED
  BY <1>2, <1>5, <1>6, <1>7, <1>8, <1>9, <1>10, <1>11, <1>12, <1>14, <1>15, <1>16, <1>17

\* The buttons of the panels.
LEMMA SettingsSubmitted ==
  ASSUME SettingsInv, Settings!SubmitIssue \/ Settings!ConfirmRevoke \/ Settings!SubmitPerson
  PROVE  SettingsInv'
<1>1. SettingsShown(ui) /\ SettingsScreen \subseteq DOMAIN ui
  BY DEF SettingsInv, SettingsShown
<1>2. ASSUME NEW s \in {"configuration", "administrators"}, s \notin ui.busy, ui.section = s,
             ui' = Settings!Busy(ui, s), NEW q, requests' = requests \union {q},
             SettingsCall \subseteq DOMAIN q, q.gone = FALSE,
             \/ s = "configuration" /\ Mine(q) /\ ~Theirs(q)
             \/ s = "administrators" /\ Theirs(q) /\ ~Mine(q)
      PROVE  SettingsInv'
  <2>1. ui' = [ui EXCEPT !.busy = ui.busy \union {s}]
    BY <1>2 DEF Settings!Busy
  <2>2. /\ SettingsScreen \subseteq DOMAIN ui' /\ ui'.section = ui.section /\ ui'.lost = ui.lost
        /\ ui'.panel = ui.panel /\ ui'.busy = ui.busy \union {s} /\ ui'.edited = ui.edited
        /\ ui'.typed = ui.typed
    BY <1>1, <2>1 DEF SettingsScreen
  <2>3. SettingsShown(ui')
    BY <1>1, <1>2, <2>2, SettingsShows
  <2>4. /\ s = "configuration" => \A c \in requests : ~Mine(c)
        /\ s = "administrators" => \A c \in requests : ~Theirs(c)
    BY <1>2 DEF SettingsInv
  <2>5. \A c \in requests' :
          /\ SettingsCall \subseteq DOMAIN c /\ c.gone = FALSE
          /\ Mine(c) => "configuration" \in ui'.busy
          /\ Theirs(c) => "administrators" \in ui'.busy
    BY <1>2, <2>2 DEF SettingsInv
  <2>6. \A c, d \in requests' : Mine(c) /\ Mine(d) => c = d
    BY <1>2, <2>4 DEF SettingsInv
  <2>7. \A c, d \in requests' : Theirs(c) /\ Theirs(d) => c = d
    BY <1>2, <2>4 DEF SettingsInv
  <2> QED
    BY <2>3, <2>5, <2>6, <2>7
    DEF SettingsInv, SettingsShown, Mine, Theirs, SettingsCall, SettingsScreen,
        MyPanels, TheirPanels, Settings!Sections
<1>3. CASE Settings!SubmitIssue \/ Settings!ConfirmRevoke
  <2>1. PICK op \in {"issue", "revokeMine"} :
          /\ ui.panel = op /\ "configuration" \notin ui.busy
          /\ ui' = Settings!Busy(ui, "configuration")
          /\ \E n : requests' = requests \union {Settings!Request(op, n, n)}
    <3>1. CASE Settings!SubmitIssue
      BY <3>1 DEF Settings!SubmitIssue, Settings!Idle, Settings!Ask
    <3>2. CASE Settings!ConfirmRevoke
      BY <3>2 DEF Settings!ConfirmRevoke, Settings!Idle, Settings!Ask, Settings!Plain
    <3> QED
      BY <1>3, <3>1, <3>2
  <2>6. PICK n : requests' = requests \union {Settings!Request(op, n, n)}
    BY <2>1
  <2>2. PICK q : q = Settings!Request(op, n, n)
    OBVIOUS
  <2>3. SettingsCall \subseteq DOMAIN q /\ q.gone = FALSE /\ Mine(q) /\ ~Theirs(q)
    <3>1. SettingsCall \subseteq DOMAIN q /\ q.op = op /\ q.gone = FALSE
      BY <2>2, SettingsRequest
    <3> QED
      BY <3>1 DEF Mine, Theirs
  <2>4. ui.section = "configuration"
    BY <1>1, <2>1 DEF SettingsShown, MyPanels
  <2>5. PICK s \in {"configuration", "administrators"} : s = "configuration"
    OBVIOUS
  <2> QED
    BY <1>2, <2>1, <2>2, <2>3, <2>4, <2>5, <2>6
<1>4. CASE Settings!SubmitPerson
  <2>1. PICK q : requests' = requests \union {q} /\
          q = IF ui.panel \in {"edit", "reset"}
                THEN Settings!Request(ui.panel, ui.picked, ui.picked)
                ELSE Settings!Plain(ui.panel)
    BY <1>4 DEF Settings!SubmitPerson, Settings!Ask
  <2>2. /\ ui.panel \in {"edit", "new", "reset", "revokeTheirs"}
        /\ "administrators" \notin ui.busy /\ ui' = Settings!Busy(ui, "administrators")
    BY <1>4 DEF Settings!SubmitPerson, Settings!Idle
  <2>3. SettingsCall \subseteq DOMAIN q /\ q.gone = FALSE /\ q.op = ui.panel
    <3>1. CASE ui.panel \in {"edit", "reset"}
      <4>1. PICK op, n : op = ui.panel /\ n = ui.picked
        OBVIOUS
      <4>2. q = Settings!Request(op, n, n)
        BY <2>1, <3>1, <4>1
      <4>3. SettingsCall \subseteq DOMAIN q /\ q.op = op /\ q.gone = FALSE
        BY <4>2, SettingsRequest
      <4> QED
        BY <4>1, <4>3
    <3>2. CASE ui.panel \notin {"edit", "reset"}
      BY <2>1, <3>2, SettingsPlain
    <3> QED
      BY <3>1, <3>2
  <2>4. Theirs(q) /\ ~Mine(q)
    BY <2>2, <2>3 DEF Mine, Theirs
  <2>5. ui.section = "administrators"
    BY <1>1, <2>2 DEF SettingsShown, TheirPanels
  <2>6. PICK s \in {"configuration", "administrators"} : s = "administrators"
    OBVIOUS
  <2> QED
    BY <1>2, <2>1, <2>2, <2>3, <2>4, <2>5, <2>6
<1> QED
  BY <1>3, <1>4

\* A request that is answered is the request it was.
LEMMA SettingsServed ==
  ASSUME SettingsInv, Settings!Serve \/ Settings!SomeoneElseWrites
  PROVE  SettingsInv'
<1>1. SettingsShown(ui) /\ ui' = ui
  BY DEF SettingsInv, Settings!Serve, Settings!SomeoneElseWrites
<1>2. CASE Settings!SomeoneElseWrites
  <2>1. requests' = requests
    BY <1>2 DEF Settings!SomeoneElseWrites
  <2> QED
    BY <1>1, <2>1, SettingsStep DEF SettingsInv
<1>3. CASE Settings!Serve
  <2>1. PICK c \in requests :
          \/ Settings!ServeRead(c) \/ Settings!ServeIdentity(c) \/ Settings!ServePerson(c)
          \/ Settings!ServeExport(c) \/ Settings!Answer(c, "ok", server.export)
    BY <1>3 DEF Settings!Serve
  <2>2. PICK stage, record : Settings!Answer(c, stage, record)
    BY <2>1 DEF Settings!ServeRead, Settings!ServeIdentity, Settings!ServePerson,
      Settings!ServeExport
  <2>3. PICK d : /\ d = [c EXCEPT !.stage = stage, !.record = record, !.shown = 0]
                 /\ requests' = (requests \ {c}) \union {d}
    BY <2>2 DEF Settings!Answer
  <2>4. SettingsCall \subseteq DOMAIN c /\ c.gone = FALSE
    BY DEF SettingsInv
  <2>5. SettingsCall \subseteq DOMAIN d /\ d.gone = FALSE /\ d.op = c.op
    BY <2>3, <2>4 DEF SettingsCall
  <2>6. (Mine(d) <=> Mine(c)) /\ (Theirs(d) <=> Theirs(c))
    BY <2>5 DEF Mine, Theirs
  <2>7. \A e \in requests' :
          /\ SettingsCall \subseteq DOMAIN e /\ e.gone = FALSE
          /\ Mine(e) => "configuration" \in ui'.busy
          /\ Theirs(e) => "administrators" \in ui'.busy
    BY <1>1, <2>3, <2>5, <2>6 DEF SettingsInv
  <2>8. \A e, f \in requests' : Mine(e) /\ Mine(f) => e = f
    BY <2>3, <2>6 DEF SettingsInv
  <2>9. \A e, f \in requests' : Theirs(e) /\ Theirs(f) => e = f
    BY <2>3, <2>6 DEF SettingsInv
  <2>10. SettingsShown(ui')
    BY <1>1
  <2> QED
    BY <2>7, <2>8, <2>9, <2>10
    DEF SettingsInv, SettingsShown, Mine, Theirs, SettingsCall, SettingsScreen,
        MyPanels, TheirPanels, Settings!Sections
<1> QED
  BY <1>2, <1>3

\* An operation that succeeded, and the list that is read again for it.
LEMMA SettingsFollowed ==
  ASSUME SettingsInv, NEW asked \in requests, SettingsShown(ui'), ui'.busy = ui.busy,
         NEW q, SettingsCall \subseteq DOMAIN q, q.gone = FALSE,
         requests' = (requests \ {asked}) \union {q},
         \/ Mine(asked) /\ Mine(q) /\ ~Theirs(q)
         \/ Theirs(asked) /\ Theirs(q) /\ ~Mine(q)
  PROVE  SettingsInv'
<1>1. PICK others : others = requests \ {asked}
  OBVIOUS
<1>2. requests' = others \union {q} /\ \A c \in others : c \in requests /\ c # asked
  BY <1>1
<1>3. /\ Mine(asked) => "configuration" \in ui.busy /\ \A c \in others : ~Mine(c)
      /\ Theirs(asked) => "administrators" \in ui.busy /\ \A c \in others : ~Theirs(c)
  BY <1>2 DEF SettingsInv
<1>4. \A e \in requests' :
        /\ SettingsCall \subseteq DOMAIN e /\ e.gone = FALSE
        /\ Mine(e) => "configuration" \in ui'.busy
        /\ Theirs(e) => "administrators" \in ui'.busy
  BY <1>2, <1>3 DEF SettingsInv
<1>5. \A e, f \in requests' : Mine(e) /\ Mine(f) => e = f
  BY <1>2, <1>3 DEF SettingsInv
<1>6. \A e, f \in requests' : Theirs(e) /\ Theirs(f) => e = f
  BY <1>2, <1>3 DEF SettingsInv
<1> QED
  BY <1>4, <1>5, <1>6
  DEF SettingsInv, SettingsShown, Mine, Theirs, SettingsCall, SettingsScreen,
      MyPanels, TheirPanels, Settings!Sections

\* A request that ends, and the section it may free.
LEMMA SettingsFreed ==
  ASSUME SettingsInv, NEW asked \in requests, SettingsShown(ui'),
         \A c \in requests' : (c \in requests /\ c # asked) \/ c = Settings!Plain("load"),
         "configuration" \in ui.busy => "configuration" \in ui'.busy \/ Mine(asked),
         "administrators" \in ui.busy => "administrators" \in ui'.busy \/ Theirs(asked)
  PROVE  SettingsInv'
<1>1. PICK l : l = Settings!Plain("load")
  OBVIOUS
<1>2. SettingsCall \subseteq DOMAIN l /\ l.gone = FALSE /\ ~Mine(l) /\ ~Theirs(l)
  <2>1. SettingsCall \subseteq DOMAIN l /\ l.op = "load" /\ l.gone = FALSE
    BY <1>1, SettingsPlain
  <2> QED
    BY <2>1 DEF Mine, Theirs
<1>3. ASSUME NEW c \in requests, c # asked
      PROVE  /\ Mine(c) => "configuration" \in ui'.busy
             /\ Theirs(c) => "administrators" \in ui'.busy
  <2>1. ASSUME Mine(c) PROVE "configuration" \in ui'.busy
    <3>1. "configuration" \in ui.busy /\ ~Mine(asked)
      BY <1>3, <2>1 DEF SettingsInv
    <3> QED
      BY <3>1
  <2>2. ASSUME Theirs(c) PROVE "administrators" \in ui'.busy
    <3>1. "administrators" \in ui.busy /\ ~Theirs(asked)
      BY <1>3, <2>2 DEF SettingsInv
    <3> QED
      BY <3>1
  <2> QED
    BY <2>1, <2>2
<1> QED
  BY <1>1, <1>2, <1>3, SettingsStep

\* What a continuation makes of the screen.
LEMMA SettingsDone ==
  ASSUME NEW u, SettingsShown(u), NEW s, NEW v, v = Settings!Done(u, s)
  PROVE  SettingsShown(v) /\ v.busy = u.busy \ {s} /\ v.section = u.section
<1>1. v = [u EXCEPT !.busy = u.busy \ {s}]
  BY DEF Settings!Done
<1>2. /\ SettingsScreen \subseteq DOMAIN v /\ v.section = u.section /\ v.lost = u.lost
      /\ v.panel = u.panel /\ v.busy = u.busy \ {s} /\ v.edited = u.edited
      /\ v.typed = u.typed
  BY <1>1 DEF SettingsShown, SettingsScreen
<1> QED
  BY <1>2, SettingsShows

LEMMA SettingsNotes ==
  ASSUME NEW u, SettingsShown(u), NEW s, NEW record, NEW v,
         \/ v = Settings!Failed(u, s) \/ v = Settings!Known(u, s)
         \/ v = [u EXCEPT !.access = record, !.known = u.known \union {"configuration"}]
         \/ v = [u EXCEPT !.view = record]
         \/ v = Settings!Adopt(u, record)
  PROVE  SettingsShown(v) /\ v.busy = u.busy
<1>1. SettingsScreen \subseteq DOMAIN u
  BY DEF SettingsShown
<1>2. ASSUME NEW k, NEW f, NEW n,
             \/ v = [u EXCEPT !.failed = f] \/ v = [u EXCEPT !.known = k, !.failed = f]
             \/ v = [u EXCEPT !.access = record, !.known = k]
             \/ v = [u EXCEPT !.view = record]
             \/ v = [u EXCEPT !.known = k, !.failed = f, !.view = record, !.form = n,
                              !.edited = FALSE]
      PROVE  SettingsShown(v) /\ v.busy = u.busy
  <2>1. /\ SettingsScreen \subseteq DOMAIN v /\ v.section = u.section /\ v.lost = u.lost
        /\ v.panel = u.panel /\ v.busy = u.busy
        /\ v.edited = u.edited \/ v.edited = FALSE
        /\ v.typed = u.typed
    BY <1>1, <1>2 DEF SettingsScreen
  <2> QED
    BY <2>1, SettingsShows
<1>3. PICK w, k, f : w = Settings!Known(u, s) /\ w = [u EXCEPT !.known = k, !.failed = f]
  BY DEF Settings!Known
<1>4. CASE v = Settings!Failed(u, s)
  BY <1>2, <1>4 DEF Settings!Failed
<1>5. CASE v = w
  BY <1>2, <1>3, <1>5
<1>7. CASE v = [u EXCEPT !.access = record, !.known = u.known \union {"configuration"}]
  <2>1. PICK more : v = [u EXCEPT !.access = record, !.known = more]
    BY <1>7
  <2> QED
    BY <1>2, <2>1
<1>8. CASE v = [u EXCEPT !.view = record]
  BY <1>2, <1>8
<1>9. CASE v = Settings!Adopt(u, record)
  <2>1. PICK more, less, n :
          v = [u EXCEPT !.known = more, !.failed = less, !.view = record, !.form = n,
                        !.edited = FALSE]
    BY <1>9 DEF Settings!Adopt, Settings!Known
  <2> QED
    BY <1>2, <2>1
<1> QED
  BY <1>3, <1>4, <1>5, <1>7, <1>8, <1>9

\* What the browser does with an answer, or with the news that there will be none.
LEMMA SettingsHear ==
  ASSUME SettingsInv, Settings!Deliver,
         ~\E asked \in requests : Settings!SessionExpired(asked)
  PROVE  SettingsInv'
<1>0. PICK asked \in requests : \E c \in Settings!Heard(asked) :
        \/ c.gone /\ Settings!NobodyListens(c, requests \ {asked})
        \/ /\ ~c.gone
           /\ \/ Settings!AccessArrives(c, requests \ {asked})
              \/ Settings!PeopleArrive(c, requests \ {asked})
              \/ Settings!TokenEnds(c, requests \ {asked})
              \/ Settings!PersonEnds(c, requests \ {asked})
              \/ Settings!ExportArrives(c, requests \ {asked})
              \/ Settings!TestArrives(c, requests \ {asked})
              \/ Settings!PollArrives(c, requests \ {asked})
              \/ Settings!PasswordChanged(c, requests \ {asked})
  BY DEF Settings!Deliver
<1>1. PICK c \in Settings!Heard(asked) :
        \/ c.gone /\ Settings!NobodyListens(c, requests \ {asked})
        \/ /\ ~c.gone
           /\ \/ Settings!AccessArrives(c, requests \ {asked})
              \/ Settings!PeopleArrive(c, requests \ {asked})
              \/ Settings!TokenEnds(c, requests \ {asked})
              \/ Settings!PersonEnds(c, requests \ {asked})
              \/ Settings!ExportArrives(c, requests \ {asked})
              \/ Settings!TestArrives(c, requests \ {asked})
              \/ Settings!PollArrives(c, requests \ {asked})
              \/ Settings!PasswordChanged(c, requests \ {asked})
  BY <1>0
<1>2. SettingsCall \subseteq DOMAIN c /\ c.op = asked.op /\ c.gone = FALSE
  <2>1. SettingsCall \subseteq DOMAIN asked /\ asked.gone = FALSE
    BY DEF SettingsInv
  <2>2. c = asked \/ c = [asked EXCEPT !.stage = "failed"]
    BY <1>1 DEF Settings!Heard
  <2> QED
    BY <2>1, <2>2 DEF SettingsCall
<1>3. PICK others : others = requests \ {asked}
  OBVIOUS
<1>4. \A d \in others : d \in requests /\ d # asked
  BY <1>3
<1>5. SettingsShown(ui) /\ SettingsScreen \subseteq DOMAIN ui
  BY DEF SettingsInv, SettingsShown
<1>6. PICK mine, theirs, audit :
        /\ mine = Settings!Done(ui, "configuration")
        /\ theirs = Settings!Done(ui, "administrators")
        /\ audit = Settings!Done(ui, "audit")
  OBVIOUS
<1>7. /\ SettingsShown(mine) /\ mine.busy = ui.busy \ {"configuration"}
      /\ SettingsShown(theirs) /\ theirs.busy = ui.busy \ {"administrators"}
      /\ SettingsShown(audit) /\ audit.busy = ui.busy \ {"audit"}
  BY <1>5, <1>6, SettingsDone
<1>8. CASE Settings!AccessArrives(c, others)
  <2>1. c.op \in {"access", "accessAfter"} /\ requests' = others
    BY <1>8 DEF Settings!AccessArrives
  <2>2. PICK u : u = IF c.op = "accessAfter" THEN mine ELSE ui
    OBVIOUS
  <2>3. \/ ui' = [u EXCEPT !.access = c.record, !.known = u.known \union {"configuration"}]
        \/ ui' = Settings!Failed(u, "configuration")
    BY <1>6, <1>8, <2>2 DEF Settings!AccessArrives
  <2>4. SettingsShown(u) /\ (u.busy = ui.busy \/ (u.busy = ui.busy \ {"configuration"} /\ Mine(asked)))
    BY <1>2, <1>5, <1>7, <2>2 DEF Mine
  <2>5. SettingsShown(ui') /\ ui'.busy = u.busy
    <3>1. PICK v, record : v = ui' /\ record = c.record
      OBVIOUS
    <3> QED
      BY <2>3, <2>4, <3>1, SettingsNotes
  <2> QED
    BY <1>4, <2>1, <2>4, <2>5, SettingsFreed
<1>9. CASE Settings!PeopleArrive(c, others)
  <2>1. c.op \in {"people", "peopleAfter"} /\ requests' = others
    BY <1>9 DEF Settings!PeopleArrive
  <2>2. PICK u : u = IF c.op = "peopleAfter" THEN theirs ELSE ui
    OBVIOUS
  <2>3. \/ ui' = [Settings!Known(u, "administrators") EXCEPT !.person = c.record]
        \/ ui' = Settings!Failed(u, "administrators")
    BY <1>6, <1>9, <2>2 DEF Settings!PeopleArrive
  <2>4. SettingsShown(u)
        /\ (u.busy = ui.busy \/ (u.busy = ui.busy \ {"administrators"} /\ Theirs(asked)))
    BY <1>2, <1>5, <1>7, <2>2 DEF Theirs
  <2>5. SettingsShown(ui') /\ ui'.busy = u.busy
    <3>1. PICK s, w : s = "administrators" /\ w = Settings!Known(u, s)
      OBVIOUS
    <3>2. SettingsShown(w) /\ w.busy = u.busy
      BY <2>4, <3>1, SettingsNotes
    <3>3. CASE ui' = [w EXCEPT !.person = c.record]
      <4>1. /\ SettingsScreen \subseteq DOMAIN ui' /\ ui'.section = w.section
            /\ ui'.lost = w.lost /\ ui'.panel = w.panel /\ ui'.busy = w.busy
            /\ ui'.edited = w.edited /\ ui'.typed = w.typed
        BY <3>2, <3>3 DEF SettingsShown, SettingsScreen
      <4>2. SettingsShown(ui')
        BY <3>2, <4>1, SettingsShows
      <4> QED
        BY <3>2, <4>1, <4>2
    <3>4. CASE ui' = Settings!Failed(u, s)
      <4>1. PICK v : v = ui'
        OBVIOUS
      <4> QED
        BY <2>4, <3>4, <4>1, SettingsNotes
    <3> QED
      BY <2>3, <3>1, <3>3, <3>4
  <2> QED
    BY <1>4, <2>1, <2>4, <2>5, SettingsFreed
<1>10. CASE Settings!TokenEnds(c, others)
  <2>1. Mine(asked) /\ "configuration" \in ui.busy /\ ui.section = "configuration"
    <3>1. Mine(asked)
      BY <1>2, <1>10 DEF Settings!TokenEnds, Mine
    <3>2. "configuration" \in ui.busy
      BY <3>1 DEF SettingsInv
    <3> QED
      BY <1>5, <3>1, <3>2 DEF SettingsShown, Settings!Sections
  <2>2. CASE ui' = mine /\ requests' = others
    BY <1>4, <1>7, <2>1, <2>2, SettingsFreed
  <2>3. CASE requests' = others \union {Settings!Plain("accessAfter")} /\ c.stage = "ok"
    <3>1. PICK q : q = Settings!Plain("accessAfter")
      OBVIOUS
    <3>2. SettingsCall \subseteq DOMAIN q /\ q.gone = FALSE /\ Mine(q) /\ ~Theirs(q)
      <4>1. SettingsCall \subseteq DOMAIN q /\ q.op = "accessAfter" /\ q.gone = FALSE
        BY <3>1, SettingsPlain
      <4> QED
        BY <4>1 DEF Mine, Theirs
    <3>3. PICK panel, failed : /\ ui' = [ui EXCEPT !.panel = panel, !.failed = failed]
                               /\ panel \in {"token", ""}
      BY <1>10, <2>3 DEF Settings!TokenEnds
    <3>4. /\ SettingsScreen \subseteq DOMAIN ui' /\ ui'.section = ui.section
          /\ ui'.lost = ui.lost /\ ui'.panel = panel /\ ui'.busy = ui.busy
          /\ ui'.edited = ui.edited /\ ui'.typed = ui.typed
      BY <1>5, <3>3 DEF SettingsScreen
    <3>5. SettingsShown(ui')
      BY <1>5, <2>1, <3>3, <3>4 DEF SettingsShown, MyPanels, TheirPanels
    <3> QED
      BY <1>3, <2>1, <2>3, <3>1, <3>2, <3>4, <3>5, SettingsFollowed
  <2> QED
    BY <1>6, <1>10, <2>2, <2>3 DEF Settings!TokenEnds
<1>11. CASE Settings!PersonEnds(c, others)
  <2>1. Theirs(asked) /\ "administrators" \in ui.busy /\ ui.section = "administrators"
    <3>1. Theirs(asked)
      BY <1>2, <1>11 DEF Settings!PersonEnds, Theirs
    <3>2. "administrators" \in ui.busy
      BY <3>1 DEF SettingsInv
    <3> QED
      BY <1>5, <3>1, <3>2 DEF SettingsShown, Settings!Sections
  <2>2. CASE ui' = theirs /\ requests' = others
    BY <1>4, <1>7, <2>1, <2>2, SettingsFreed
  <2>3. CASE requests' = others \union {Settings!Plain("peopleAfter")} /\ c.stage = "ok"
    <3>1. PICK q : q = Settings!Plain("peopleAfter")
      OBVIOUS
    <3>2. SettingsCall \subseteq DOMAIN q /\ q.gone = FALSE /\ Theirs(q) /\ ~Mine(q)
      <4>1. SettingsCall \subseteq DOMAIN q /\ q.op = "peopleAfter" /\ q.gone = FALSE
        BY <3>1, SettingsPlain
      <4> QED
        BY <4>1 DEF Mine, Theirs
    <3>3. PICK panel : /\ ui' = [ui EXCEPT !.panel = panel, !.picked = 0]
                       /\ panel \in {"password", ""}
      BY <1>11, <2>3 DEF Settings!PersonEnds
    <3>4. /\ SettingsScreen \subseteq DOMAIN ui' /\ ui'.section = ui.section
          /\ ui'.lost = ui.lost /\ ui'.panel = panel /\ ui'.busy = ui.busy
          /\ ui'.edited = ui.edited /\ ui'.typed = ui.typed
      BY <1>5, <3>3 DEF SettingsScreen
    <3>5. SettingsShown(ui')
      BY <1>5, <2>1, <3>3, <3>4 DEF SettingsShown, MyPanels, TheirPanels
    <3> QED
      BY <1>3, <2>1, <2>3, <3>1, <3>2, <3>4, <3>5, SettingsFollowed
  <2> QED
    BY <1>6, <1>11, <2>2, <2>3 DEF Settings!PersonEnds
<1>12. ASSUME NEW u, SettingsShown(u), u.busy = ui.busy \/ u.busy = ui.busy \ {"audit"},
              Settings!Settle(u, others)
       PROVE  SettingsInv'
  <2>1. /\ SettingsShown(ui') /\ ui'.busy = u.busy
        /\ \A d \in requests' : d \in others \/ d = Settings!Plain("load")
    BY <1>12, SettingsSettle
  <2>2. /\ "configuration" \in ui.busy => "configuration" \in ui'.busy
        /\ "administrators" \in ui.busy => "administrators" \in ui'.busy
    BY <1>12, <2>1
  <2> QED
    BY <1>4, <2>1, <2>2, SettingsFreed
<1>13. CASE Settings!ExportArrives(c, others)
  <2>1. PICK u : u = IF c.op = "load" THEN ui ELSE audit
    OBVIOUS
  <2>2. SettingsShown(u) /\ (u.busy = ui.busy \/ u.busy = ui.busy \ {"audit"})
    BY <1>5, <1>7, <2>1
  <2>3. PICK v : /\ Settings!Settle(v, others)
                 /\ \/ v = Settings!Adopt(u, c.record)
                    \/ v = u \/ v = Settings!Failed(u, "audit")
    BY <1>6, <1>13, <2>1 DEF Settings!ExportArrives
  <2>4. SettingsShown(v) /\ v.busy = u.busy
    <3>1. PICK record : record = c.record
      OBVIOUS
    <3> QED
      BY <2>2, <2>3, <3>1, SettingsNotes
  <2> QED
    BY <1>12, <2>2, <2>3, <2>4
<1>14. CASE Settings!TestArrives(c, others)
  <2>1. ui' = audit /\ requests' = others
    BY <1>6, <1>14 DEF Settings!TestArrives
  <2> QED
    BY <1>4, <1>7, <2>1, SettingsFreed
<1>15. CASE Settings!PollArrives(c, others)
  <2>1. PICK record, v : /\ Settings!Settle(v, others)
                         /\ v = ui \/ v = [ui EXCEPT !.view = record]
    BY <1>15 DEF Settings!PollArrives
  <2>2. SettingsShown(v) /\ v.busy = ui.busy
    BY <1>5, <2>1, SettingsNotes
  <2> QED
    BY <1>12, <2>1, <2>2
<1>16. CASE Settings!PasswordChanged(c, others)
  <2>1. PICK v : v = Settings!Done(ui, "security")
    OBVIOUS
  <2>2. SettingsShown(v) /\ v.busy = ui.busy \ {"security"}
    BY <1>5, <2>1, SettingsDone
  <2>3. PICK typed : /\ ui' = [v EXCEPT !.typed = typed] /\ requests' = others
                     /\ typed = (v.typed /\ c.stage # "ok")
    BY <1>16, <2>1 DEF Settings!PasswordChanged
  <2>4. typed => v.typed
    BY <2>3
  <2>5. /\ SettingsScreen \subseteq DOMAIN ui' /\ ui'.section = v.section
        /\ ui'.lost = v.lost /\ ui'.panel = v.panel /\ ui'.busy = v.busy
        /\ ui'.edited = v.edited /\ ui'.typed = typed
    BY <2>2, <2>3 DEF SettingsShown, SettingsScreen
  <2>6. SettingsShown(ui')
    BY <2>2, <2>4, <2>5, SettingsShows
  <2> QED
    BY <1>4, <2>2, <2>3, <2>5, <2>6, SettingsFreed
<1> QED
  BY <1>1, <1>2, <1>3, <1>8, <1>9, <1>10, <1>11, <1>13, <1>14, <1>15, <1>16

LEMMA SettingsStarts == Settings!Init => SettingsInv
<1> SUFFICES ASSUME Settings!Init PROVE SettingsInv
  OBVIOUS
<1>1. ASSUME NEW none, NEW u,
             u = [section |-> "other", visible |-> TRUE, mounted |-> {}, known |-> {},
                  failed |-> {}, busy |-> {}, panel |-> "", picked |-> 0, access |-> none,
                  person |-> none, view |-> none, form |-> 0, edited |-> FALSE,
                  typed |-> FALSE, lost |-> FALSE]
      PROVE  SettingsShown(u)
  <2>1. /\ SettingsScreen \subseteq DOMAIN u
        /\ u.section = "other" /\ u.busy = {} /\ u.panel = "" /\ u.lost = FALSE
        /\ u.edited = FALSE /\ u.typed = FALSE
    BY <1>1 DEF SettingsScreen
  <2> QED
    BY <2>1 DEF SettingsShown, MyPanels, TheirPanels, Settings!Sections
<1>2. SettingsShown(ui) /\ requests = {}
  BY <1>1 DEF Settings!Init, Settings!Fresh
<1> QED
  BY <1>2 DEF SettingsInv

\* The end of the session takes the page away.
LEMMA SettingsExpire ==
  ASSUME SettingsInv, NEW asked \in requests, Settings!SessionExpired(asked)
  PROVE  SettingsOut'
<1>1. PICK fresh, closed : fresh = Settings!Fresh /\ closed = ""
  OBVIOUS
<1>2. /\ SettingsScreen \subseteq DOMAIN fresh /\ fresh.panel = closed /\ fresh.busy = {}
      /\ fresh.failed = {} /\ fresh.edited = FALSE /\ fresh.typed = FALSE
  <2>1. ASSUME NEW none, NEW u,
               u = [section |-> "other", visible |-> TRUE, mounted |-> {}, known |-> {},
                    failed |-> {}, busy |-> {}, panel |-> closed, picked |-> 0,
                    access |-> none, person |-> none, view |-> none, form |-> 0,
                    edited |-> FALSE, typed |-> FALSE, lost |-> FALSE]
        PROVE  /\ SettingsScreen \subseteq DOMAIN u /\ u.panel = closed /\ u.busy = {}
               /\ u.failed = {} /\ u.edited = FALSE /\ u.typed = FALSE
    BY <2>1 DEF SettingsScreen
  <2> QED
    BY <1>1, <2>1 DEF Settings!Fresh
<1>3. PICK out, lost : /\ out = Settings!SignedOut
                       /\ lost = (ui.lost \/ ui.panel \in {"token", "password"})
  OBVIOUS
<1>4. ui' = [fresh EXCEPT !.section = out, !.visible = FALSE, !.lost = lost]
  BY <1>1, <1>3 DEF Settings!SessionExpired
<1>5. /\ SettingsScreen \subseteq DOMAIN ui' /\ ui'.section = out /\ ui'.visible = FALSE
      /\ ui'.panel = closed /\ ui'.busy = {} /\ ui'.failed = {} /\ ui'.edited = FALSE
      /\ ui'.typed = FALSE
  BY <1>2, <1>4 DEF SettingsScreen
<1>6. ASSUME NEW c \in requests' PROVE SettingsCall \subseteq DOMAIN c /\ c.gone = TRUE
  <2>1. PICK d \in requests : c = [d EXCEPT !.gone = TRUE]
    BY DEF Settings!SessionExpired
  <2>2. SettingsCall \subseteq DOMAIN d
    BY DEF SettingsInv
  <2> QED
    BY <2>1, <2>2 DEF SettingsCall
<1> QED
  BY <1>1, <1>3, <1>5, <1>6 DEF SettingsOut

\* Of a page that is gone only the answers of its requests are still to come.
LEMMA SettingsStayOut ==
  ASSUME SettingsOut, Settings!Next
  PROVE  SettingsOut'
<1>1. \A s \in Settings!Sections : ui.section # s
  BY DEF SettingsOut, Settings!Sections, Settings!SignedOut
<1>2. ~(Settings!SelectSection \/ Settings!Hide \/ Settings!Leave \/ Settings!Retry)
  BY <1>1 DEF SettingsOut, Settings!SelectSection, Settings!Hide, Settings!Leave,
     Settings!Retry, Settings!In, Settings!Sections
<1>3. ~(Settings!OpenIssue \/ Settings!OpenRevoke \/ Settings!AddAdministrator
          \/ Settings!OpenPerson \/ Settings!ConfirmSaved \/ Settings!ClosePanel)
  BY <1>1 DEF SettingsOut, Settings!OpenIssue, Settings!OpenRevoke, Settings!AddAdministrator,
     Settings!OpenPerson, Settings!ConfirmSaved, Settings!ClosePanel, Settings!In,
     Settings!Sections
<1>4. ~(Settings!SubmitIssue \/ Settings!ConfirmRevoke \/ Settings!SubmitPerson)
  BY DEF SettingsOut, Settings!SubmitIssue, Settings!ConfirmRevoke, Settings!SubmitPerson
<1>5. ~(Settings!EditExport \/ Settings!SendTest \/ Settings!SaveExport
          \/ Settings!ReloadExport \/ Settings!Poll \/ Settings!TypePassword
          \/ Settings!ChangePassword)
  BY <1>1 DEF Settings!EditExport, Settings!SendTest, Settings!SaveExport,
     Settings!ReloadExport, Settings!Poll, Settings!TypePassword, Settings!ChangePassword,
     Settings!Editable, Settings!In, Settings!Polling, Settings!Seen, Settings!Sections
<1>6. CASE Settings!SomeoneElseWrites
  <2>1. ui' = ui /\ requests' = requests
    BY <1>6 DEF Settings!SomeoneElseWrites
  <2> QED
    BY <2>1 DEF SettingsOut, SettingsScreen, SettingsCall, Settings!SignedOut
<1>7. CASE Settings!Serve
  <2>1. PICK c \in requests :
          \/ Settings!ServeRead(c) \/ Settings!ServeIdentity(c) \/ Settings!ServePerson(c)
          \/ Settings!ServeExport(c) \/ Settings!Answer(c, "ok", server.export)
    BY <1>7 DEF Settings!Serve
  <2>2. PICK stage, record : Settings!Answer(c, stage, record)
    BY <2>1 DEF Settings!ServeRead, Settings!ServeIdentity, Settings!ServePerson,
      Settings!ServeExport
  <2>3. PICK d : /\ d = [c EXCEPT !.stage = stage, !.record = record, !.shown = 0]
                 /\ requests' = (requests \ {c}) \union {d}
    BY <2>2 DEF Settings!Answer
  <2>4. SettingsCall \subseteq DOMAIN d /\ d.gone = TRUE
    BY <2>3 DEF SettingsOut, SettingsCall
  <2>5. ui' = ui
    BY <1>7 DEF Settings!Serve
  <2> QED
    BY <2>3, <2>4, <2>5 DEF SettingsOut, SettingsScreen, SettingsCall, Settings!SignedOut
<1>8. CASE Settings!Deliver
  <2>0. PICK asked \in requests :
          \E c \in Settings!Heard(asked) :
            c.gone = TRUE => Settings!NobodyListens(c, requests \ {asked})
    BY <1>8 DEF Settings!Deliver, Settings!SessionExpired, Settings!In, SettingsOut
  <2>1. PICK c \in Settings!Heard(asked) :
          c.gone = TRUE => Settings!NobodyListens(c, requests \ {asked})
    BY <2>0
  <2>2. c.gone = TRUE
    <3>1. SettingsCall \subseteq DOMAIN asked /\ asked.gone = TRUE
      BY DEF SettingsOut
    <3>2. c = asked \/ c = [asked EXCEPT !.stage = "failed"]
      BY <2>1 DEF Settings!Heard
    <3> QED
      BY <3>1, <3>2 DEF SettingsCall
  <2>3. PICK lost : ui' = [ui EXCEPT !.lost = lost] /\ requests' \subseteq requests
    BY <2>1, <2>2 DEF Settings!NobodyListens
  <2>4. /\ SettingsScreen \subseteq DOMAIN ui' /\ ui'.section = ui.section
        /\ ui'.visible = ui.visible /\ ui'.panel = ui.panel /\ ui'.busy = ui.busy
        /\ ui'.failed = ui.failed /\ ui'.edited = ui.edited /\ ui'.typed = ui.typed
    BY <2>3 DEF SettingsOut, SettingsScreen
  <2> QED
    BY <2>3, <2>4 DEF SettingsOut, Settings!SignedOut
<1> QED
  BY <1>2, <1>3, <1>4, <1>5, <1>6, <1>7, <1>8 DEF Settings!Next

LEMMA SettingsKeep ==
  ASSUME SettingsInv \/ SettingsOut, Settings!Next
  PROVE  SettingsInv' \/ SettingsOut'
  BY SettingsTurned, SettingsOperated, SettingsSubmitted, SettingsServed, SettingsExpire,
     SettingsHear, SettingsStayOut DEF Settings!Next

-----------------------------------------------------------------------------
(* A token, a secret or a temporary password is on screen until it is      *)
(* confirmed or given up, the pages of Agents or OAuth clients are left by *)
(* Back, or a 401 ends the session and takes the page away (api.ts:59-64), *)
(* and no hidden section of the settings holds unfinished work             *)
(* (useNavigationGuard.ts, ConfigurationMCP.tsx, Administrators.tsx,       *)
(* Agents.tsx, OAuthClient.tsx): an operation keeps its section, its rows  *)
(* or its panel until the reload after it ends, so nothing else that could *)
(* leave or replace the screen is allowed meanwhile.                       *)
THEOREM CredentialsStayOnScreen == PagesSpec => []CredentialsAreNotLost
<1> DEFINE Inv == /\ page = "settings" => SettingsInv \/ SettingsOut
                  /\ page = "agents"   => AgentsInv
                  /\ page = "oauth"    => PanelInv
<1>1. PagesInit => Inv
  BY SettingsStarts, AgentsStart, PanelStarts DEF PagesInit
<1>2. Inv /\ [PagesNext]_pagesVars => Inv'
  <2> SUFFICES ASSUME Inv, [PagesNext]_pagesVars PROVE Inv'
    OBVIOUS
  <2>1. CASE PagesNext
    <3>1. page' = page
      BY <2>1 DEF PagesNext
    <3>2. ASSUME page = "settings" PROVE SettingsInv' \/ SettingsOut'
      <4>1. Settings!Next
        BY <2>1, <3>2 DEF PagesNext
      <4> QED
        BY <3>2, <4>1, SettingsKeep
    <3>3. ASSUME page = "agents" PROVE AgentsInv'
      <4>1. AgentsPage!Next
        BY <2>1, <3>3 DEF PagesNext
      <4> QED
        BY <3>3, <4>1, AgentsKeep
    <3>4. ASSUME page = "oauth" PROVE PanelInv'
      <4>1. OAuth!Next
        BY <2>1, <3>4 DEF PagesNext
      <4> QED
        BY <3>4, <4>1, PanelKeeps
    <3> QED
      BY <3>1, <3>2, <3>3, <3>4
  <2>2. CASE UNCHANGED pagesVars
    <3>1. page' = page /\ ui' = ui /\ requests' = requests
      BY <2>2 DEF pagesVars
    <3>2. SettingsInv => SettingsInv'
      BY <3>1 DEF SettingsInv, SettingsShown, Mine, Theirs, SettingsCall, SettingsScreen,
        MyPanels, TheirPanels, Settings!Sections
    <3>5. SettingsOut => SettingsOut'
      BY <3>1 DEF SettingsOut, SettingsCall, SettingsScreen, Settings!SignedOut
    <3>3. AgentsInv => AgentsInv'
      BY <3>1 DEF AgentsInv, AgentsScreen, AgentsCall, AgentsLock, HoldsRows, HoldsEditor,
        HoldsPanel, AgentsPage!Loads, AgentsPage!Writes, AgentsPage!NoToken, AgentsPage!Nobody
    <3>4. PanelInv => PanelInv'
      BY <3>1 DEF PanelInv, Pressed, OAuth!Writes, OAuth!NoSecret, OAuth!Nobody
    <3> QED
      BY <3>1, <3>2, <3>3, <3>4, <3>5
  <2> QED
    BY <2>1, <2>2
<1>3. Inv => CredentialsAreNotLost
  <2>1. ASSUME SettingsInv
        PROVE  Settings!CredentialsAreNotLost /\ Settings!HiddenSectionsHoldNoWork
    <3>1. Settings!CredentialsAreNotLost
      BY <2>1 DEF SettingsInv, SettingsShown, Settings!CredentialsAreNotLost
    <3>2. ASSUME NEW s \in Settings!Sections, s # ui.section
          PROVE  ~Settings!Work(s)
      BY <2>1, <3>2 DEF SettingsInv, SettingsShown, Settings!Work, MyPanels, TheirPanels
    <3> QED
      BY <3>1, <3>2 DEF Settings!HiddenSectionsHoldNoWork
  <2>4. ASSUME SettingsOut
        PROVE  Settings!CredentialsAreNotLost /\ Settings!HiddenSectionsHoldNoWork
    BY <2>4 DEF SettingsOut, Settings!CredentialsAreNotLost, Settings!HiddenSectionsHoldNoWork,
       Settings!Work
  <2>2. AgentsInv => AgentsPage!CredentialsAreNotLost
    BY DEF AgentsInv, AgentsPage!CredentialsAreNotLost
  <2>3. PanelInv => OAuth!CredentialsAreNotLost
    BY DEF PanelInv, OAuth!CredentialsAreNotLost
  <2> QED
    BY <2>1, <2>2, <2>3, <2>4 DEF CredentialsAreNotLost
<1> QED
  BY <1>1, <1>2, <1>3, PTL DEF PagesSpec

(***************************************************************************)
(* The health page                                                         *)
(***************************************************************************)
HealthRequests == [op : Health!Ops, page : Health!Pages, evidence : Health!Copies,
                   schedule : Health!Changes, stage : {"sent", "checking", "ok", "failed"}]

\* What the page does not wait for: the load of a page, and a load that its
\* check has abandoned.
HealthUnheld == {"", "stray"}

\* Unless Retry doubled it: one operation at a time holds the page, alone or as the
\* two reads after a check, and nothing that is awaited but a save finds an edit.
HealthLock ==
  /\ \A c \in requests : c.op \notin HealthUnheld => ui.busy
  /\ \A c, d \in requests :
       c.op \notin HealthUnheld /\ d.op \notin HealthUnheld =>
         c = d \/ (c.op # d.op /\ c.op \in Health!Paired /\ d.op \in Health!Paired)
  /\ ui.edited => \A c \in requests : c.op \in {"save", "stray"}

HealthInv ==
  /\ Health!TypeOK /\ ~server.careless /\ ~ui.overwritten
  /\ \A c \in requests : c.op = "" => ui.loading
  /\ \A c, d \in requests : c.op = "" /\ d.op = "" => c = d
  /\ ui.edited => ui.known
  /\ ui.doubled \/ HealthLock

LEMMA HealthBounds ==
  /\ 0 \in Health!Checks /\ 0 \in Health!Changes
  /\ Health!NoCopy \in Health!Copies
  /\ \A op \in Health!Ops : Health!Request(op) \in HealthRequests
<1>1. MaxChecks \in Nat /\ MaxChanges \in Nat
  BY PagesAssumption
<1>2. 0 \in Health!Checks /\ 0 \in Health!Changes
  BY <1>1 DEF Health!Checks, Health!Changes
<1>3. Health!NoCopy \in Health!Copies
  BY <1>2 DEF Health!NoCopy, Health!Copies
<1>4. ASSUME NEW op \in Health!Ops PROVE Health!Request(op) \in HealthRequests
  <2>1. PICK copy \in Health!Copies : copy = Health!NoCopy
    BY <1>3
  <2> QED
    BY <1>2, <2>1 DEF Health!Request, HealthRequests, Health!Pages
<1> QED
  BY <1>2, <1>3, <1>4

\* An operation is started by a page that is free, or is Retry, and by no edit but a save.
LEMMA HealthAsks ==
  ASSUME HealthInv, server' = server, NEW r \in HealthRequests, r.op # "",
         Health!Ask(r), NEW doubled \in BOOLEAN,
         ui' = [ui EXCEPT !.doubled = doubled, !.busy = TRUE],
         doubled = FALSE => ui.busy = FALSE /\ ui.doubled = FALSE,
         ui.edited = TRUE => r.op = "save"
  PROVE  HealthInv'
<1>1. ui \in [page : Health!Pages, shown : Health!Copies, known : BOOLEAN, loading : BOOLEAN,
              schedule : Health!Changes, edited : BOOLEAN, busy : BOOLEAN, confirm : BOOLEAN,
              doubled : BOOLEAN, overwritten : BOOLEAN]
  BY DEF HealthInv, Health!TypeOK
<1>2. requests' = requests \union {r}
  BY DEF Health!Ask
<1>3. Health!TypeOK'
  BY <1>1, <1>2 DEF HealthInv, Health!TypeOK, HealthRequests
<1>4. /\ ui'.loading = ui.loading /\ ui'.edited = ui.edited /\ ui'.known = ui.known
      /\ ui'.overwritten = ui.overwritten /\ ui'.busy = TRUE /\ ui'.doubled = doubled
  BY <1>1
<1>5. doubled = FALSE => HealthLock'
  <2> SUFFICES ASSUME doubled = FALSE PROVE HealthLock'
    OBVIOUS
  <2>1. ~ui.doubled /\ ~ui.busy
    BY <1>1
  <2>2. \A c \in requests : c.op \in HealthUnheld
    BY <2>1 DEF HealthInv, HealthLock
  <2>3. \A c \in requests' : c.op \notin HealthUnheld => c = r
    BY <1>2, <2>2
  <2>4. ui.edited => \A c \in requests : c.op \in {"save", "stray"}
    BY <2>1 DEF HealthInv, HealthLock
  <2>5. ui'.edited => \A c \in requests' : c.op \in {"save", "stray"}
    BY <1>1, <1>2, <1>4, <2>4
  <2> QED
    BY <1>4, <2>3, <2>5 DEF HealthLock
<1>6. ui'.doubled \/ HealthLock'
  BY <1>4, <1>5
<1> QED
  BY <1>2, <1>3, <1>4, <1>6 DEF HealthInv

\* What the administrator does on the page.
LEMMA HealthOperated ==
  ASSUME HealthInv,
         \/ Health!Refresh \/ Health!Retry \/ Health!TurnPage \/ Health!EditSchedule
         \/ Health!DiscardSchedule \/ Health!SaveSchedule \/ Health!CheckNow
         \/ Health!AskBaseline \/ Health!CancelBaseline \/ Health!AcceptBaseline
  PROVE  HealthInv'
<1>1. /\ ui \in [page : Health!Pages, shown : Health!Copies, known : BOOLEAN, loading : BOOLEAN,
                 schedule : Health!Changes, edited : BOOLEAN, busy : BOOLEAN, confirm : BOOLEAN,
                 doubled : BOOLEAN, overwritten : BOOLEAN]
      /\ ui.page \in Health!Pages /\ ui.shown \in Health!Copies
      /\ ui.schedule \in Health!Changes
  BY DEF HealthInv, Health!TypeOK
<1>2. ASSUME NEW op \in {"refresh", "retry", "save", "check", "accept"}
      PROVE  /\ Health!Request(op) \in HealthRequests /\ Health!Request(op).op = op
             /\ Health!LoadOf(op) \in HealthRequests /\ Health!LoadOf(op).op = op
             /\ [Health!Request(op) EXCEPT !.schedule = ui.schedule] \in HealthRequests
             /\ [Health!Request(op) EXCEPT !.schedule = ui.schedule].op = op
             /\ [Health!Request(op) EXCEPT !.evidence = ui.shown] \in HealthRequests
             /\ [Health!Request(op) EXCEPT !.evidence = ui.shown].op = op
  <2>1. op \in Health!Ops
    BY DEF Health!Ops, Health!Loads
  <2>2. PICK r \in HealthRequests : r = Health!Request(op) /\ r.op = op
    BY <2>1, HealthBounds DEF Health!Request
  <2> QED
    BY <1>1, <2>2 DEF Health!LoadOf, HealthRequests
<1>3. ASSUME NEW r \in HealthRequests, r.op # "", ~ui.busy, Health!Start(r),
             ui.edited = TRUE => r.op = "save"
      PROVE  HealthInv'
  <2>1. ui' = [ui EXCEPT !.doubled = ui.doubled, !.busy = TRUE] /\ ui.doubled \in BOOLEAN
    BY <1>1, <1>3 DEF Health!Start
  <2> QED
    BY <1>1, <1>3, <2>1, HealthAsks DEF Health!Start
<1>4. CASE Health!Refresh \/ Health!SaveSchedule \/ Health!CheckNow \/ Health!AcceptBaseline
  <2>1. PICK r \in {Health!LoadOf("refresh"), Health!Request("check"),
                    [Health!Request("save") EXCEPT !.schedule = ui.schedule],
                    [Health!Request("accept") EXCEPT !.evidence = ui.shown]} :
          /\ Health!Start(r) /\ ~ui.busy
          /\ ~ui.edited \/ r = [Health!Request("save") EXCEPT !.schedule = ui.schedule]
    BY <1>4 DEF Health!Refresh, Health!SaveSchedule, Health!CheckNow, Health!AcceptBaseline,
       Health!Free
  <2>2. r \in HealthRequests /\ r.op # ""
    BY <1>2, <2>1
  <2>3. ui.edited = TRUE => r.op = "save"
    BY <1>2, <2>1
  <2> QED
    BY <1>3, <2>1, <2>2, <2>3
<1>5. CASE Health!Retry
  <2>1. PICK doubled \in BOOLEAN :
          doubled = (ui.doubled \/ ui.busy)
    BY <1>1
  <2>2. /\ ~ui.known /\ ui' = [ui EXCEPT !.doubled = doubled, !.busy = TRUE]
        /\ Health!Ask(Health!LoadOf("retry")) /\ server' = server
    BY <1>5, <2>1 DEF Health!Retry
  <2>3. ~ui.edited
    BY <2>2 DEF HealthInv
  <2>4. doubled = FALSE => ui.busy = FALSE /\ ui.doubled = FALSE
    BY <1>1, <2>1
  <2> QED
    BY <1>2, <2>2, <2>3, <2>4, HealthAsks
<1>6. CASE Health!TurnPage
  <2>1. PICK p \in Health!Pages : p = 1 - ui.page
    BY <1>1 DEF Health!Pages
  <2>2. PICK r : r = [Health!Request("") EXCEPT !.page = p]
    OBVIOUS
  <2>3. r \in HealthRequests /\ r.op = ""
    <3>1. "" \in Health!Ops
      BY DEF Health!Ops, Health!Loads
    <3>2. PICK q \in HealthRequests : q = Health!Request("") /\ q.op = ""
      BY <3>1, HealthBounds DEF Health!Request
    <3> QED
      BY <2>2, <3>2 DEF HealthRequests
  <2>4. /\ ui' = [ui EXCEPT !.page = p, !.loading = TRUE] /\ server' = server
        /\ requests' = requests \union {r} /\ ~ui.edited /\ ~ui.loading /\ ~ui.busy
    BY <1>6, <2>1, <2>2 DEF Health!TurnPage, Health!Free, Health!Ask
  <2>5. /\ ui'.loading = TRUE /\ ui'.edited = ui.edited /\ ui'.known = ui.known
        /\ ui'.overwritten = ui.overwritten /\ ui'.busy = ui.busy /\ ui'.doubled = ui.doubled
    BY <1>1, <2>4
  <2>6. Health!TypeOK'
    BY <1>1, <2>3, <2>4 DEF HealthInv, Health!TypeOK, HealthRequests
  <2>7. \A c \in requests' : c.op = "" => c = r
    BY <2>4 DEF HealthInv
  <2>8. ui.doubled \/ HealthLock'
    <3>1. HealthLock => HealthLock'
      BY <2>3, <2>4, <2>5 DEF HealthLock, HealthUnheld
    <3> QED
      BY <3>1 DEF HealthInv
  <2> QED
    BY <2>4, <2>5, <2>6, <2>7, <2>8 DEF HealthInv
<1>7. CASE Health!EditSchedule \/ Health!DiscardSchedule
  <2>1. PICK edited \in BOOLEAN :
          /\ ui' = [ui EXCEPT !.edited = edited] /\ server' = server /\ requests' = requests
          /\ ui.known /\ ~ui.loading /\ ~ui.busy
    BY <1>7 DEF Health!EditSchedule, Health!DiscardSchedule, Health!Free
  <2>2. /\ ui'.loading = ui.loading /\ ui'.known = ui.known
        /\ ui'.overwritten = ui.overwritten /\ ui'.busy = ui.busy /\ ui'.doubled = ui.doubled
    BY <1>1, <2>1
  <2>3. Health!TypeOK'
    BY <1>1, <2>1 DEF HealthInv, Health!TypeOK
  <2>4. ui.doubled \/ HealthLock'
    <3>1. ASSUME HealthLock PROVE HealthLock'
      <4>1. \A c \in requests : c.op = "stray"
        BY <2>1, <3>1 DEF HealthInv, HealthLock, HealthUnheld
      <4> QED
        BY <2>1, <4>1 DEF HealthLock, HealthUnheld
    <3> QED
      BY <3>1 DEF HealthInv
  <2> QED
    BY <2>1, <2>2, <2>3, <2>4 DEF HealthInv
<1>8. CASE Health!AskBaseline \/ Health!CancelBaseline
  <2>1. PICK confirm \in BOOLEAN :
          ui' = [ui EXCEPT !.confirm = confirm] /\ server' = server /\ requests' = requests
    BY <1>8 DEF Health!AskBaseline, Health!CancelBaseline
  <2>2. /\ ui'.loading = ui.loading /\ ui'.known = ui.known /\ ui'.edited = ui.edited
        /\ ui'.overwritten = ui.overwritten /\ ui'.busy = ui.busy /\ ui'.doubled = ui.doubled
    BY <1>1, <2>1
  <2>3. Health!TypeOK'
    BY <1>1, <2>1 DEF HealthInv, Health!TypeOK
  <2> QED
    BY <2>1, <2>2, <2>3 DEF HealthInv, HealthLock
<1> QED
  BY <1>4, <1>5, <1>6, <1>7, <1>8

\* The server answers; a request stays of its operation.
LEMMA HealthAnswers ==
  ASSUME HealthInv, ui' = ui, ~server'.careless, NEW c \in requests, NEW a \in HealthRequests,
         a.op = c.op,
         server' \in [connection : Health!Changes, schedule : Health!Changes,
                      evidence : Health!Evidence, checking : {"no", "asked", "scheduled"},
                      began : Health!Changes, careless : BOOLEAN],
         requests' = (requests \ {c}) \union {a} \/ requests' = requests
  PROVE  HealthInv'
<1>1. Health!TypeOK'
  BY DEF HealthInv, Health!TypeOK, HealthRequests
<1>2. \A d \in requests' : \E e \in requests : d.op = e.op
  OBVIOUS
<1>3. /\ \A d \in requests' : d.op = "" => ui.loading
      /\ HealthLock => /\ \A d \in requests' : d.op \notin HealthUnheld => ui.busy
                       /\ ui.edited => \A d \in requests' : d.op \in {"save", "stray"}
  BY <1>2 DEF HealthInv, HealthLock
<1>4. /\ \A d, e \in requests' : d.op = "" /\ e.op = "" => d = e
      /\ HealthLock =>
           \A d, e \in requests' :
             d.op \notin HealthUnheld /\ e.op \notin HealthUnheld =>
               d = e \/ (d.op # e.op /\ d.op \in Health!Paired /\ e.op \in Health!Paired)
  BY DEF HealthInv, HealthLock
<1>5. HealthLock => HealthLock'
  BY <1>3, <1>4 DEF HealthLock
<1> QED
  BY <1>1, <1>3, <1>4, <1>5 DEF HealthInv

\* Checks that run on the server store what they find, or give up.
LEMMA HealthStores ==
  ASSUME HealthInv,
         \/ \E by \in {"asked", "scheduled"} : Health!BeginCheck(by)
         \/ Health!StoreEvidence \/ Health!GiveUp
         \/ Health!Changeable /\ server' = [server EXCEPT !.connection = server.connection + 1]
         \/ Health!Changeable /\ server' = [server EXCEPT !.schedule = server.schedule + 1]
         \/ server' = [server EXCEPT !.evidence.changed = FALSE]
  PROVE  /\ ~server'.careless
         /\ server' \in [connection : Health!Changes, schedule : Health!Changes,
                         evidence : Health!Evidence, checking : {"no", "asked", "scheduled"},
                         began : Health!Changes, careless : BOOLEAN]
<1>1. /\ server \in [connection : Health!Changes, schedule : Health!Changes,
                     evidence : Health!Evidence, checking : {"no", "asked", "scheduled"},
                     began : Health!Changes, careless : BOOLEAN]
      /\ ~server.careless
  BY DEF HealthInv, Health!TypeOK
<1>2. MaxChecks \in Nat /\ MaxChanges \in Nat
  BY PagesAssumption
<1>3. /\ server.evidence \in Health!Evidence /\ server.evidence.check \in 0 .. MaxChecks
      /\ server.connection \in 0 .. MaxChanges /\ server.schedule \in 0 .. MaxChanges
      /\ server.began \in 0 .. MaxChanges /\ 0 \in Health!Changes
  BY <1>1, HealthBounds DEF Health!Evidence, Health!Checks, Health!Changes
<1>4. CASE \E by \in {"asked", "scheduled"} : Health!BeginCheck(by)
  BY <1>1, <1>4 DEF Health!BeginCheck
<1>5. CASE Health!StoreEvidence
  <2>1. PICK changed \in BOOLEAN :
          server' = [server EXCEPT
            !.checking = "no", !.began = 0,
            !.evidence = [check |-> server.evidence.check + 1, connection |-> server.began,
                          changed |-> changed]]
    BY <1>5 DEF Health!StoreEvidence
  <2>2. PICK e \in Health!Evidence :
          e = [check |-> server.evidence.check + 1, connection |-> server.began,
               changed |-> changed]
    <3>1. server.evidence.check + 1 \in Health!Checks
      <4>1. server.evidence.check < MaxChecks
        BY <1>5 DEF Health!StoreEvidence
      <4>2. PICK n \in 0 .. MaxChecks : n = server.evidence.check
        BY <1>3
      <4>3. n + 1 \in 0 .. MaxChecks
        BY <1>2, <4>1, <4>2
      <4> QED
        BY <4>2, <4>3 DEF Health!Checks
    <3>2. server.began \in Health!Changes
      BY <1>1
    <3> QED
      BY <3>1, <3>2 DEF Health!Evidence
  <2> QED
    BY <1>1, <1>3, <2>1, <2>2
<1>6. CASE Health!GiveUp
  BY <1>1, <1>3, <1>6 DEF Health!GiveUp
<1>7. CASE \/ Health!Changeable /\ server' = [server EXCEPT !.connection = server.connection + 1]
           \/ Health!Changeable /\ server' = [server EXCEPT !.schedule = server.schedule + 1]
  <2>1. server.connection + 1 \in Health!Changes /\ server.schedule + 1 \in Health!Changes
    BY <1>2, <1>3, <1>7 DEF Health!Changeable, Health!Changes
  <2> QED
    BY <1>1, <1>7, <2>1
<1>8. CASE server' = [server EXCEPT !.evidence.changed = FALSE]
  <2>1. PICK e \in Health!Evidence : e = [server.evidence EXCEPT !.changed = FALSE]
    BY <1>3 DEF Health!Evidence
  <2>2. server' = [server EXCEPT !.evidence = e]
    BY <1>8, <2>1
  <2> QED
    BY <1>1, <2>1, <2>2
<1> QED
  BY <1>4, <1>5, <1>6, <1>7, <1>8

\* The server loads, saves, checks and accepts; the scheduler and others act too.
LEMMA HealthServed ==
  ASSUME HealthInv, Health!Serve \/ Health!Scheduler \/ Health!SomeoneElseWrites
  PROVE  HealthInv'
<1>1. /\ server \in [connection : Health!Changes, schedule : Health!Changes,
                     evidence : Health!Evidence, checking : {"no", "asked", "scheduled"},
                     began : Health!Changes, careless : BOOLEAN]
      /\ ~server.careless /\ requests \subseteq HealthRequests
      /\ server.schedule \in Health!Changes /\ server.evidence \in Health!Evidence
  BY DEF HealthInv, Health!TypeOK, HealthRequests
<1>2. ui' = ui
  BY DEF Health!Serve, Health!Scheduler, Health!SomeoneElseWrites
<1>3. ASSUME NEW c \in requests, NEW stage \in {"sent", "checking", "ok", "failed"}
      PROVE  [Health!Request(c.op) EXCEPT !.stage = stage] \in HealthRequests
             /\ [Health!Request(c.op) EXCEPT !.stage = stage].op = c.op
  <2>1. c.op \in Health!Ops
    BY <1>1 DEF HealthRequests
  <2>2. PICK r \in HealthRequests : r = Health!Request(c.op) /\ r.op = c.op
    BY <2>1, HealthBounds DEF Health!Request
  <2> QED
    BY <2>2 DEF HealthRequests
<1>4. CASE Health!Serve
  <2>1. PICK c \in requests :
          \/ Health!ServeLoad(c) \/ Health!ServeSources(c) \/ Health!ServeSchedule(c)
          \/ Health!ServeBaseline(c) \/ Health!ServeCheck(c)
    BY <1>4 DEF Health!Serve
  <2>2. ASSUME NEW stage \in {"sent", "checking", "ok", "failed"}, Health!Answer(c, stage),
               ~server'.careless,
               server' \in [connection : Health!Changes, schedule : Health!Changes,
                            evidence : Health!Evidence, checking : {"no", "asked", "scheduled"},
                            began : Health!Changes, careless : BOOLEAN]
        PROVE  HealthInv'
    <3>1. PICK a \in HealthRequests :
            a = [Health!Request(c.op) EXCEPT !.stage = stage] /\ a.op = c.op
      BY <1>3
    <3>2. requests' = (requests \ {c}) \union {a}
      BY <2>2, <3>1 DEF Health!Answer
    <3> QED
      BY <1>2, <2>2, <3>1, <3>2, HealthAnswers
  <2>3. CASE Health!ServeLoad(c)
    <3>1. PICK e \in Health!Copies :
            e = IF c.page = 0 THEN Health!CopyOf(server.evidence) ELSE Health!NoCopy
      <4>1. Health!CopyOf(server.evidence) \in Health!Copies
        BY <1>1 DEF Health!CopyOf, Health!Copies, Health!Evidence
      <4> QED
        BY <4>1, HealthBounds
    <3>2. PICK a : a = [c EXCEPT !.stage = "ok", !.schedule = server.schedule, !.evidence = e]
      OBVIOUS
    <3>3. a \in HealthRequests /\ a.op = c.op
      BY <1>1, <3>2 DEF HealthRequests
    <3>4. requests' = (requests \ {c}) \union {a} /\ server' = server
      BY <2>3, <3>1, <3>2 DEF Health!ServeLoad
    <3> QED
      BY <1>1, <1>2, <3>3, <3>4, HealthAnswers
  <2>4. CASE Health!ServeSchedule(c)
    <3>1. /\ Health!Changeable /\ server' = [server EXCEPT !.schedule = server.schedule + 1]
          /\ requests' = (requests \ {c}) \union
                           {[c EXCEPT !.stage = "ok", !.schedule = server.schedule + 1]}
      BY <2>4 DEF Health!ServeSchedule
    <3>2. /\ ~server'.careless
          /\ server' \in [connection : Health!Changes, schedule : Health!Changes,
                          evidence : Health!Evidence, checking : {"no", "asked", "scheduled"},
                          began : Health!Changes, careless : BOOLEAN]
      BY <3>1, HealthStores
    <3>3. server.schedule + 1 \in Health!Changes
      <4>1. server'.schedule = server.schedule + 1
        BY <1>1, <3>1
      <4> QED
        BY <3>2, <4>1
    <3>4. PICK a : a = [c EXCEPT !.stage = "ok", !.schedule = server.schedule + 1]
      OBVIOUS
    <3>5. a \in HealthRequests /\ a.op = c.op
      BY <1>1, <3>3, <3>4 DEF HealthRequests
    <3> QED
      BY <1>2, <3>1, <3>2, <3>4, <3>5, HealthAnswers
  <2>5. CASE Health!ServeBaseline(c)
    <3>1. /\ c.evidence.check = server.evidence.check
          /\ server.evidence.connection = server.connection
          /\ server' = [server EXCEPT
               !.evidence.changed = FALSE,
               !.careless = server.careless \/ c.evidence.check # server.evidence.check
                              \/ server.evidence.connection # server.connection]
          /\ Health!Answer(c, "ok")
      BY <2>5 DEF Health!ServeBaseline
    <3>2. PICK next : next = [server EXCEPT !.evidence.changed = FALSE]
      OBVIOUS
    <3>3. server' = next
      <4>1. server.careless = FALSE
        BY <1>1
      <4>2. (server.careless \/ c.evidence.check # server.evidence.check
               \/ server.evidence.connection # server.connection) = server.careless
        BY <3>1, <4>1
      <4>3. server' = [server EXCEPT !.evidence.changed = FALSE, !.careless = server.careless]
        BY <3>1, <4>2
      <4> QED
        BY <1>1, <3>2, <4>3
    <3>4. server' = [server EXCEPT !.evidence.changed = FALSE]
      BY <3>2, <3>3
    <3> QED
      BY <2>2, <3>1, <3>4, HealthStores
  <2>6. CASE Health!ServeCheck(c)
    <3>1. PICK stage \in {"checking", "ok", "failed"} :
            /\ Health!Answer(c, stage)
            /\ Health!BeginCheck("asked") \/ Health!StoreEvidence \/ Health!GiveUp
      BY <2>6 DEF Health!ServeCheck
    <3>2. /\ ~server'.careless
          /\ server' \in [connection : Health!Changes, schedule : Health!Changes,
                          evidence : Health!Evidence, checking : {"no", "asked", "scheduled"},
                          began : Health!Changes, careless : BOOLEAN]
      BY <3>1, HealthStores
    <3> QED
      BY <2>2, <3>1, <3>2
  <2>7. CASE Health!ServeSources(c)
    BY <1>1, <2>2, <2>7 DEF Health!ServeSources
  <2> QED
    BY <2>1, <2>3, <2>4, <2>5, <2>6, <2>7
<1>5. CASE Health!Scheduler \/ Health!SomeoneElseWrites
  <2>1. requests' = requests
    BY <1>5 DEF Health!Scheduler, Health!SomeoneElseWrites
  <2>2. /\ ~server'.careless
        /\ server' \in [connection : Health!Changes, schedule : Health!Changes,
                        evidence : Health!Evidence, checking : {"no", "asked", "scheduled"},
                        began : Health!Changes, careless : BOOLEAN]
    <3>1. CASE Health!Scheduler
      BY <3>1, HealthStores DEF Health!Scheduler
    <3>2. CASE Health!SomeoneElseWrites
      BY <3>2, HealthStores DEF Health!SomeoneElseWrites
    <3> QED
      BY <1>5, <3>1, <3>2
  <2> QED
    BY <1>2, <2>1, <2>2 DEF HealthInv, HealthLock, Health!TypeOK
<1> QED
  BY <1>4, <1>5

\* One request less: what it alone held is free again.
LEMMA HealthFrees ==
  ASSUME HealthInv, server' = server, NEW asked \in requests,
         \A c \in requests' : (c \in requests /\ c # asked) \/ c.op = "stray",
         Health!TypeOK', ~ui'.overwritten,
         ui'.doubled = FALSE => ui.doubled = FALSE \/ requests' = {},
         asked.op = "" \/ ui'.loading = ui.loading,
         ui'.busy = ui.busy \/ (HealthLock => \A c \in requests' : c.op \in HealthUnheld),
         ui'.edited = ui.edited \/ ui'.edited = FALSE, ui'.known = ui.known \/ ui'.known = TRUE
  PROVE  HealthInv'
<1>1. /\ ui'.doubled \in BOOLEAN /\ ui.doubled \in BOOLEAN /\ ui.edited \in BOOLEAN
      /\ ui.known \in BOOLEAN
  BY DEF HealthInv, Health!TypeOK
<1>2. \A c \in requests' : c.op # "stray" => c \in requests /\ c # asked
  OBVIOUS
<1>3. \A c \in requests' : c.op = "" => asked.op # "" /\ ui.loading
  BY <1>2 DEF HealthInv
<1>4. \A c \in requests' : c.op = "" => ui'.loading
  BY <1>3
<1>5. \A c, d \in requests' : c.op = "" /\ d.op = "" => c = d
  BY <1>2 DEF HealthInv
<1>6. ui'.edited => ui'.known
  BY <1>1 DEF HealthInv
<1>7. ASSUME ui'.doubled = FALSE PROVE HealthLock'
  <2>1. CASE requests' = {}
    BY <2>1 DEF HealthLock
  <2>2. CASE ui.doubled = FALSE
    <3>1. HealthLock
      BY <2>2 DEF HealthInv
    <3>2. \A c \in requests' : c.op \notin HealthUnheld => c \in requests /\ ui'.busy
      BY <1>2, <3>1 DEF HealthLock, HealthUnheld
    <3>3. ui'.edited => \A c \in requests' : c.op \in {"save", "stray"}
      BY <1>1, <1>2, <3>1 DEF HealthLock
    <3> QED
      BY <3>1, <3>2, <3>3 DEF HealthLock
  <2> QED
    BY <1>7, <2>1, <2>2
<1> QED
  BY <1>1, <1>4, <1>5, <1>6, <1>7 DEF HealthInv

\* A check that ends well is followed by two reads, an accepted baseline by a load.
LEMMA HealthThen ==
  ASSUME HealthInv, server' = server, NEW asked \in requests,
         \/ /\ asked.op = "check" /\ ui' = ui
            /\ requests' = (requests \ {asked}) \union
                           {Health!LoadOf("checked"), Health!Request("sources")}
         \/ /\ asked.op = "accept" /\ ui' = [ui EXCEPT !.confirm = FALSE]
            /\ Health!Then(requests \ {asked}, "accepted")
  PROVE  HealthInv'
<1>1. /\ ui \in [page : Health!Pages, shown : Health!Copies, known : BOOLEAN, loading : BOOLEAN,
                 schedule : Health!Changes, edited : BOOLEAN, busy : BOOLEAN, confirm : BOOLEAN,
                 doubled : BOOLEAN, overwritten : BOOLEAN]
      /\ ui.page \in Health!Pages
  BY DEF HealthInv, Health!TypeOK
<1>2. ASSUME NEW op \in {"checked", "accepted"}
      PROVE  \E r \in HealthRequests : r = Health!LoadOf(op) /\ r.op = op
  <2>1. op \in Health!Ops
    BY DEF Health!Ops, Health!Loads
  <2>2. PICK q \in HealthRequests : q = Health!Request(op) /\ q.op = op
    BY <2>1, HealthBounds DEF Health!Request
  <2>3. [q EXCEPT !.page = ui.page] \in HealthRequests /\ [q EXCEPT !.page = ui.page].op = op
    BY <1>1, <2>2 DEF HealthRequests
  <2> QED
    BY <2>2, <2>3 DEF Health!LoadOf
<1>3. PICK checked \in HealthRequests : checked = Health!LoadOf("checked") /\ checked.op = "checked"
  BY <1>2
<1>4. PICK accepted \in HealthRequests :
        accepted = Health!LoadOf("accepted") /\ accepted.op = "accepted"
  BY <1>2
<1>5. PICK lists \in HealthRequests : lists = Health!Request("sources") /\ lists.op = "sources"
  <2>1. "sources" \in Health!Ops
    BY DEF Health!Ops
  <2> QED
    BY <2>1, HealthBounds DEF Health!Request
<1>6. PICK more : /\ more = {checked, lists} \/ more = {accepted}
                  /\ requests' = (requests \ {asked}) \union more
  BY <1>3, <1>4, <1>5 DEF Health!Then
<1>7. /\ more \subseteq HealthRequests
      /\ \A c \in more : c.op \notin HealthUnheld
      /\ \A c, d \in more :
           c = d \/ (c.op # d.op /\ c.op \in Health!Paired /\ d.op \in Health!Paired)
  BY <1>3, <1>4, <1>5, <1>6 DEF HealthUnheld, Health!Paired
<1>8. /\ ui'.loading = ui.loading /\ ui'.edited = ui.edited /\ ui'.known = ui.known
      /\ ui'.overwritten = ui.overwritten /\ ui'.busy = ui.busy /\ ui'.doubled = ui.doubled
  BY <1>1
<1>9. Health!TypeOK'
  <2>1. requests' \subseteq HealthRequests
    BY <1>6, <1>7 DEF HealthInv, Health!TypeOK, HealthRequests
  <2>2. ui' \in [page : Health!Pages, shown : Health!Copies, known : BOOLEAN, loading : BOOLEAN,
                 schedule : Health!Changes, edited : BOOLEAN, busy : BOOLEAN, confirm : BOOLEAN,
                 doubled : BOOLEAN, overwritten : BOOLEAN]
    BY <1>1
  <2> QED
    BY <2>1, <2>2 DEF HealthInv, Health!TypeOK, HealthRequests
<1>10. HealthLock => HealthLock'
  <2> SUFFICES ASSUME HealthLock PROVE HealthLock'
    OBVIOUS
  <2>1. asked.op \notin HealthUnheld /\ asked.op \notin Health!Paired /\ asked.op # "save"
    BY DEF HealthUnheld, Health!Paired
  <2>2. ui.busy /\ ~ui.edited
    BY <2>1 DEF HealthLock, HealthUnheld
  <2>3. \A c \in requests' : c.op \notin HealthUnheld => c \in more
    BY <1>6, <2>1 DEF HealthLock
  <2> QED
    BY <1>7, <1>8, <2>2, <2>3 DEF HealthLock
<1>11. \A c \in requests' : c.op = "" => c \in requests
  BY <1>6, <1>7 DEF HealthUnheld
<1> QED
  BY <1>8, <1>9, <1>10, <1>11 DEF HealthInv

\* What is left of the others: of a pair that failed nothing is awaited any more.
LEMMA HealthLeaves ==
  ASSUME requests \subseteq HealthRequests, NEW asked \in requests, NEW c \in HealthRequests
  PROVE  /\ Health!Abandoned(c, requests \ {asked}) \subseteq HealthRequests
         /\ \A d \in Health!Abandoned(c, requests \ {asked}) :
              (d \in requests /\ d # asked) \/ d.op = "stray"
         /\ requests \ {asked} = {} => Health!Abandoned(c, requests \ {asked}) = {}
         /\ c.op \in Health!Paired /\ c.stage = "failed" =>
              \A d \in Health!Abandoned(c, requests \ {asked}) : d.op \notin Health!Paired
         /\ ~(c.op \in Health!Paired /\ c.stage = "failed") =>
              Health!Abandoned(c, requests \ {asked}) = requests \ {asked}
<1> DEFINE rest == Health!Abandoned(c, requests \ {asked})
<1>1. CASE c.op \in Health!Paired /\ c.stage = "failed"
  <2>1. ASSUME NEW d \in rest
        PROVE  /\ d \in HealthRequests /\ d.op \notin Health!Paired
               /\ requests \ {asked} # {}
               /\ (d \in requests /\ d # asked) \/ d.op = "stray"
    <3>1. PICK e \in requests \ {asked} :
            /\ e.op # "sources"
            /\ d = IF e.op = "checked" THEN [e EXCEPT !.op = "stray"] ELSE e
      BY <1>1 DEF Health!Abandoned
    <3>2. CASE e.op = "checked"
      <4>1. "stray" \in Health!Ops
        BY DEF Health!Ops, Health!Loads
      <4>2. d \in HealthRequests /\ d.op = "stray"
        BY <3>1, <3>2, <4>1 DEF HealthRequests
      <4> QED
        BY <4>2 DEF Health!Paired
    <3>3. CASE e.op # "checked"
      BY <3>1, <3>3 DEF Health!Paired
    <3> QED
      BY <3>2, <3>3
  <2> QED
    BY <1>1, <2>1
<1>2. CASE ~(c.op \in Health!Paired /\ c.stage = "failed")
  BY <1>2 DEF Health!Abandoned
<1> QED
  BY <1>1, <1>2

\* An answer, or that there is none, reaches the page.
LEMMA HealthHears ==
  ASSUME HealthInv, Health!Deliver
  PROVE  HealthInv'
<1>1. /\ ui \in [page : Health!Pages, shown : Health!Copies, known : BOOLEAN, loading : BOOLEAN,
                 schedule : Health!Changes, edited : BOOLEAN, busy : BOOLEAN, confirm : BOOLEAN,
                 doubled : BOOLEAN, overwritten : BOOLEAN]
      /\ requests \subseteq HealthRequests /\ server' = server
  BY DEF HealthInv, Health!TypeOK, HealthRequests, Health!Deliver
<1>2. PICK asked \in requests : \E c \in Health!Heard(asked) :
        LET others == requests \ {asked} IN
          \/ Health!LoadArrives(c, others) \/ Health!SourcesArrive(c, others)
          \/ Health!SaveEnds(c, others)
          \/ Health!CheckEnds(c, others) \/ Health!AcceptEnds(c, others)
  BY DEF Health!Deliver
<1> DEFINE others == requests \ {asked}
<1>3. PICK c \in Health!Heard(asked) :
          \/ Health!LoadArrives(c, others) \/ Health!SourcesArrive(c, others)
          \/ Health!SaveEnds(c, others)
          \/ Health!CheckEnds(c, others) \/ Health!AcceptEnds(c, others)
  BY <1>2
<1>4. c \in HealthRequests /\ c.op = asked.op
  <2>1. asked \in HealthRequests
    BY <1>1
  <2>2. c = asked \/ c = [asked EXCEPT !.stage = "failed"]
    BY DEF Health!Heard
  <2> QED
    BY <2>1, <2>2 DEF HealthRequests
<1>5. c.evidence \in Health!Copies /\ c.schedule \in Health!Changes
  BY <1>4 DEF HealthRequests
<1>6. PICK doubled \in BOOLEAN : doubled = (ui.doubled /\ others # {})
  BY <1>1
<1>7. PICK freed : /\ freed = Health!Freed(c, others)
                   /\ \/ asked.op = "" /\ freed = [ui EXCEPT !.doubled = doubled, !.loading = FALSE]
                      \/ Health!Unawaited(c, others) /\ freed = [ui EXCEPT !.doubled = doubled]
                      \/ /\ asked.op # "" /\ ~Health!Unawaited(c, others)
                         /\ freed = [ui EXCEPT !.doubled = doubled, !.busy = FALSE]
  <2>1. PICK u : u = [ui EXCEPT !.doubled = doubled]
    OBVIOUS
  <2>2. PICK unawaited \in BOOLEAN : unawaited = Health!Unawaited(c, others)
    BY DEF Health!Unawaited
  <2>3. PICK freed : freed = Health!Freed(c, others)
    OBVIOUS
  <2>4. freed = CASE c.op = "" -> [u EXCEPT !.loading = FALSE]
                  [] unawaited -> u
                  [] OTHER -> [u EXCEPT !.busy = FALSE]
    BY <1>6, <2>1, <2>2, <2>3, Zenon DEF Health!Freed
  <2>5. unawaited => c.op # ""
    BY <2>2 DEF Health!Unawaited, Health!Paired
  <2>6. \/ c.op = "" /\ freed = [u EXCEPT !.loading = FALSE]
        \/ unawaited /\ freed = u
        \/ c.op # "" /\ ~unawaited /\ freed = [u EXCEPT !.busy = FALSE]
    BY <2>4, <2>5
  <2>7. /\ [u EXCEPT !.loading = FALSE] = [ui EXCEPT !.doubled = doubled, !.loading = FALSE]
        /\ [u EXCEPT !.busy = FALSE] = [ui EXCEPT !.doubled = doubled, !.busy = FALSE]
    BY <1>1, <2>1
  <2> QED
    BY <1>4, <2>1, <2>2, <2>3, <2>6, <2>7
<1>8. /\ freed \in [page : Health!Pages, shown : Health!Copies, known : BOOLEAN,
                    loading : BOOLEAN, schedule : Health!Changes, edited : BOOLEAN,
                    busy : BOOLEAN, confirm : BOOLEAN, doubled : BOOLEAN, overwritten : BOOLEAN]
      /\ freed.doubled = doubled /\ freed.edited = ui.edited /\ freed.known = ui.known
      /\ freed.overwritten = ui.overwritten
      /\ asked.op = "" \/ freed.loading = ui.loading
      /\ freed.busy = ui.busy \/ (asked.op # "" /\ ~Health!Unawaited(c, others))
  BY <1>1, <1>7
<1>9. ~ui.overwritten
  BY DEF HealthInv
<1>10. PICK rest : rest = Health!Abandoned(c, others)
  OBVIOUS
<1>11. /\ rest \subseteq HealthRequests
       /\ \A d \in rest : (d \in requests /\ d # asked) \/ d.op = "stray"
       /\ others = {} => rest = {}
       /\ c.op \in Health!Paired /\ c.stage = "failed" => \A d \in rest : d.op \notin Health!Paired
       /\ ~(c.op \in Health!Paired /\ c.stage = "failed") => rest = others
  BY <1>1, <1>4, <1>10, HealthLeaves
<1>12. ASSUME HealthLock, asked.op # "", ~Health!Unawaited(c, others), NEW d \in rest,
              d.op \notin HealthUnheld
       PROVE  FALSE
  <2>1. asked.op \notin HealthUnheld
    BY <1>4, <1>12 DEF Health!Unawaited, HealthUnheld
  <2>2. d \in requests /\ d # asked
    BY <1>11, <1>12 DEF HealthUnheld
  <2>3. asked.op \in Health!Paired /\ d.op \in Health!Paired
    BY <1>12, <2>1, <2>2 DEF HealthLock
  <2>4. c.stage # "failed" => \A e \in others : e.op \notin Health!Paired
    BY <1>4, <1>12, <2>3 DEF Health!Unawaited
  <2> QED
    BY <1>4, <1>11, <2>2, <2>3, <2>4
<1>13. ASSUME requests' = rest,
              ui' \in [page : Health!Pages, shown : Health!Copies, known : BOOLEAN,
                       loading : BOOLEAN, schedule : Health!Changes, edited : BOOLEAN,
                       busy : BOOLEAN, confirm : BOOLEAN, doubled : BOOLEAN,
                       overwritten : BOOLEAN],
              ui'.doubled = doubled, ~ui'.overwritten,
              ui'.busy = freed.busy, ui'.loading = freed.loading,
              ui'.edited = ui.edited \/ ui'.edited = FALSE,
              ui'.known = ui.known \/ ui'.known = TRUE
       PROVE  HealthInv'
  <2>1. Health!TypeOK'
    BY <1>1, <1>11, <1>13 DEF HealthInv, Health!TypeOK, HealthRequests
  <2>2. ui'.doubled = FALSE => ui.doubled = FALSE \/ requests' = {}
    BY <1>1, <1>6, <1>11, <1>13
  <2>3. ui'.busy = ui.busy \/ (HealthLock => \A d \in requests' : d.op \in HealthUnheld)
    BY <1>8, <1>12, <1>13
  <2>4. asked.op = "" \/ ui'.loading = ui.loading
    BY <1>8, <1>13
  <2>5. \A d \in requests' : (d \in requests /\ d # asked) \/ d.op = "stray"
    BY <1>11, <1>13
  <2> QED
    BY <1>1, <1>13, <2>1, <2>2, <2>3, <2>4, <2>5, HealthFrees
<1>14. CASE ui' = freed /\ requests' = rest
  BY <1>8, <1>9, <1>13, <1>14
<1>15. CASE Health!LoadArrives(c, others)
  <2>1. CASE c.stage = "ok"
    <3>1. PICK overwritten \in BOOLEAN :
            overwritten = (ui.edited /\ ~ui.doubled /\ c.op # "stray")
      BY <1>1
    <3>2. overwritten = FALSE
      <4>1. asked.op # "save"
        BY <1>4, <1>15 DEF Health!LoadArrives, Health!Loads
      <4>2. asked.op # "stray" => ~(ui.edited /\ ~ui.doubled)
        BY <4>1 DEF HealthInv, HealthLock
      <4> QED
        BY <1>4, <3>1, <4>2
    <3>3. /\ requests' = rest
          /\ ui' = [freed EXCEPT !.known = TRUE, !.shown = c.evidence, !.schedule = c.schedule,
                                 !.edited = FALSE, !.overwritten = FALSE]
      BY <1>7, <1>10, <1>15, <2>1, <3>1, <3>2 DEF Health!LoadArrives
    <3> QED
      BY <1>5, <1>8, <1>13, <3>3
  <2>2. CASE c.stage # "ok"
    BY <1>7, <1>10, <1>14, <1>15, <2>2 DEF Health!LoadArrives
  <2> QED
    BY <2>1, <2>2
<1>16. CASE Health!SourcesArrive(c, others)
  BY <1>7, <1>10, <1>14, <1>16 DEF Health!SourcesArrive
<1>17. CASE Health!SaveEnds(c, others)
  <2>1. rest = others
    BY <1>11, <1>17 DEF Health!SaveEnds, Health!Paired
  <2>2. CASE c.stage = "ok"
    <3>1. /\ requests' = rest
          /\ ui' = [freed EXCEPT !.schedule = c.schedule, !.edited = FALSE]
      BY <1>7, <1>17, <2>1, <2>2 DEF Health!SaveEnds
    <3> QED
      BY <1>5, <1>8, <1>9, <1>13, <3>1
  <2>3. CASE c.stage # "ok"
    BY <1>7, <1>14, <1>17, <2>1, <2>3 DEF Health!SaveEnds
  <2> QED
    BY <2>2, <2>3
<1>18. CASE Health!CheckEnds(c, others) \/ Health!AcceptEnds(c, others)
  <2>1. rest = others
    BY <1>11, <1>18 DEF Health!CheckEnds, Health!AcceptEnds, Health!Paired
  <2>2. CASE c.stage = "ok"
    BY <1>1, <1>4, <1>18, <2>2, HealthThen DEF Health!CheckEnds, Health!AcceptEnds
  <2>3. CASE c.stage # "ok"
    BY <1>7, <1>14, <1>18, <2>1, <2>3 DEF Health!CheckEnds, Health!AcceptEnds
  <2> QED
    BY <2>2, <2>3
<1> QED
  BY <1>3, <1>15, <1>16, <1>17, <1>18

\* The page starts with the load of its first page.
LEMMA HealthStarts == Health!Init => HealthInv
<1> SUFFICES ASSUME Health!Init PROVE HealthInv
  OBVIOUS
<1>1. PICK copy \in Health!Copies : copy = Health!NoCopy
  BY HealthBounds
<1>2. PICK r \in HealthRequests : r = Health!Request("") /\ r.op = ""
  <2>1. "" \in Health!Ops
    BY DEF Health!Ops, Health!Loads
  <2> QED
    BY <2>1, HealthBounds DEF Health!Request
<1>3. PICK e \in Health!Evidence : e = [check |-> 0, connection |-> 0, changed |-> FALSE]
  BY HealthBounds DEF Health!Evidence
<1>4. /\ server = [connection |-> 0, schedule |-> 0, evidence |-> e, checking |-> "no",
                   began |-> 0, careless |-> FALSE]
      /\ ui = [page |-> 0, shown |-> copy, known |-> FALSE, loading |-> TRUE, schedule |-> 0,
               edited |-> FALSE, busy |-> FALSE, confirm |-> FALSE, doubled |-> FALSE,
               overwritten |-> FALSE]
      /\ requests = {r}
  BY <1>1, <1>2, <1>3 DEF Health!Init
<1>5. Health!TypeOK
  BY <1>2, <1>4, HealthBounds DEF Health!TypeOK, HealthRequests, Health!Pages
<1>6. ~server.careless /\ ~ui.overwritten /\ ui.loading /\ ~ui.edited
  BY <1>4
<1>7. \A c \in requests : c = r /\ c.op = ""
  BY <1>2, <1>4
<1> QED
  BY <1>5, <1>6, <1>7 DEF HealthInv, HealthLock, HealthUnheld

\* Every step of the page keeps its invariant.
LEMMA HealthKeeps ==
  ASSUME HealthInv, Health!Next
  PROVE  HealthInv'
  BY HealthOperated, HealthServed, HealthHears DEF Health!Next

(***************************************************************************)
(* The evaluation page                                                     *)
(***************************************************************************)
EvalItems == [revision : Nat, text : Evaluation!Texts, review : Evaluation!Texts,
              runs : [Evaluation!Kinds -> {"none", "capturing", "completed", "abandoned"}]]
EvalScreen == {"tab", "form", "dirty", "question", "saved", "record", "edited", "busy",
               "confirm", "places", "rows", "of", "loading", "failed", "deleting", "target",
               "overwritten"}
EvalCall == {"op", "do", "place", "question", "case", "kind", "item", "stage"}

\* What is not stored has no runs; nothing that was typed has been replaced.
EvalShown(u) ==
  /\ EvalScreen \subseteq DOMAIN u
  /\ u.form \in Evaluation!Texts
  /\ u.saved \in EvalItems /\ u.record \in EvalItems
  /\ u.rows \in EvalItems /\ u.deleting \in EvalItems
  /\ u.record.revision = 0 => \A kind \in Evaluation!Kinds : u.record.runs[kind] = "none"
  /\ ~u.overwritten

\* While the one operation of the page is answered, the texts it was asked with stay on
\* screen: a question and a first capture hold the form, a review the verdicts.
EvalAsked(c, u) ==
  /\ c.op # "list" => u.busy = TRUE
  /\ c.op = "question" => c.item.text = u.form
  /\ c.op = "capture" =>
       /\ ~u.edited
       /\ u.record.revision = 0 => c.item.text = u.form
       /\ c.stage = "sent" => (c.item.revision = 0 <=> u.record.revision = 0)
  /\ c.op = "review" => c.item.review = u.record.review
  /\ c.op \in {"open", "capture", "review"} /\ c.stage = "ok" => c.item.revision # 0

EvalServer(s) ==
  /\ {"questions", "gone", "evaluation", "deleted", "others", "careless"} \subseteq DOMAIN s
  /\ s.questions \in [LibraryQuestions -> EvalItems] /\ s.evaluation \in EvalItems

EvalInv ==
  /\ EvalServer(server)
  /\ EvalShown(ui)
  /\ \A c \in requests : /\ EvalCall \subseteq DOMAIN c /\ c.item \in EvalItems
                         /\ EvalAsked(c, ui)
  /\ \A c, d \in requests : c.op # "list" /\ d.op # "list" => c = d

LEMMA EvalNothing ==
  /\ Evaluation!Nothing \in EvalItems /\ Evaluation!Nothing.revision = 0
  /\ \A kind \in Evaluation!Kinds : Evaluation!Nothing.runs[kind] = "none"
<1> DEFINE none == [kind \in Evaluation!Kinds |-> "none"]
<1>0. /\ none \in [Evaluation!Kinds -> {"none", "capturing", "completed", "abandoned"}]
      /\ none = Evaluation!NoRuns /\ \A kind \in Evaluation!Kinds : none[kind] = "none"
  BY DEF Evaluation!NoRuns
<1>1. PICK runs \in [Evaluation!Kinds -> {"none", "capturing", "completed", "abandoned"}] :
        runs = Evaluation!NoRuns /\ \A kind \in Evaluation!Kinds : runs[kind] = "none"
  <2> HIDE DEF none
  <2> QED
    BY <1>0
<1>2. PICK item : /\ item = [revision |-> 0, text |-> "a", review |-> "a", runs |-> runs]
                  /\ item = Evaluation!Nothing
  BY <1>1 DEF Evaluation!Nothing
<1>3. item \in EvalItems /\ item.revision = 0 /\ item.runs = runs
  BY <1>2 DEF EvalItems, Evaluation!Texts
<1> QED
  BY <1>1, <1>2, <1>3

\* The items that requests are made with.
LEMMA EvalMade ==
  ASSUME NEW item \in EvalItems, NEW text \in Evaluation!Texts, NEW revision \in Nat
  PROVE  /\ Evaluation!Named(item) \in EvalItems
         /\ Evaluation!Named(item).revision = item.revision
         /\ [Evaluation!Nothing EXCEPT !.text = text] \in EvalItems
         /\ [Evaluation!Nothing EXCEPT !.text = text].text = text
         /\ [Evaluation!Nothing EXCEPT !.text = text].revision = 0
         /\ [Evaluation!Nothing EXCEPT !.text = text, !.revision = revision] \in EvalItems
         /\ [Evaluation!Nothing EXCEPT !.text = text, !.revision = revision].text = text
<1>1. PICK none \in EvalItems : none = Evaluation!Nothing /\ none.revision = 0
  BY EvalNothing
<1>2. item.revision \in Nat
  BY DEF EvalItems
<1>3. /\ [none EXCEPT !.revision = item.revision] \in EvalItems
      /\ [none EXCEPT !.revision = item.revision].revision = item.revision
  BY <1>2 DEF EvalItems
<1>4. /\ [none EXCEPT !.text = text] \in EvalItems
      /\ [none EXCEPT !.text = text].text = text
      /\ [none EXCEPT !.text = text].revision = 0
  BY <1>1 DEF EvalItems
<1>5. /\ [none EXCEPT !.text = text, !.revision = revision] \in EvalItems
      /\ [none EXCEPT !.text = text, !.revision = revision].text = text
  BY DEF EvalItems
<1> QED
  BY <1>1, <1>3, <1>4, <1>5 DEF Evaluation!Named

LEMMA EvalRequest ==
  ASSUME NEW op
  PROVE  /\ EvalCall \subseteq DOMAIN Evaluation!Request(op)
         /\ Evaluation!Request(op).op = op /\ Evaluation!Request(op).stage = "sent"
         /\ Evaluation!Request(op).item = Evaluation!Nothing
<1>1. PICK none : none = Evaluation!Nothing
  OBVIOUS
<1>2. PICK at : at = Evaluation!FirstPlace("history")
  OBVIOUS
<1>3. PICK r : /\ r = Evaluation!Request(op)
               /\ r = [op |-> op, do |-> "", place |-> at, question |-> 0,
                       case |-> 0, kind |-> "guided", item |-> none, stage |-> "sent"]
  BY <1>1, <1>2 DEF Evaluation!Request
<1>4. ASSUME NEW q, q = [op |-> op, do |-> "", place |-> at, question |-> 0,
                         case |-> 0, kind |-> "guided", item |-> none, stage |-> "sent"]
      PROVE  EvalCall \subseteq DOMAIN q /\ q.op = op /\ q.stage = "sent" /\ q.item = none
  BY <1>4 DEF EvalCall
<1> QED
  BY <1>1, <1>3, <1>4

\* A button that sends the one request of the page.
LEMMA EvalSubmits ==
  ASSUME EvalInv, NEW r, Evaluation!Submit(r), EvalCall \subseteq DOMAIN r,
         r.item \in EvalItems, r.stage = "sent",
         r.op = "question" => r.item.text = ui.form,
         r.op = "capture" =>
           /\ ~ui.edited
           /\ ui.record.revision = 0 => r.item.text = ui.form
           /\ r.item.revision = 0 <=> ui.record.revision = 0,
         r.op = "review" => r.item.review = ui.record.review
  PROVE  EvalInv'
<1>1. /\ ~ui.busy /\ ui' = [ui EXCEPT !.busy = TRUE] /\ requests' = requests \union {r}
      /\ server' = server
  BY DEF Evaluation!Submit
<1>2. /\ EvalScreen \subseteq DOMAIN ui' /\ ui'.form = ui.form /\ ui'.saved = ui.saved
      /\ ui'.record = ui.record /\ ui'.rows = ui.rows /\ ui'.deleting = ui.deleting
      /\ ui'.overwritten = ui.overwritten /\ ui'.edited = ui.edited /\ ui'.busy = TRUE
  BY <1>1 DEF EvalInv, EvalShown, EvalScreen
<1>3. EvalShown(ui')
  BY <1>2 DEF EvalInv, EvalShown
<1>4. \A c \in requests : c.op = "list"
  BY <1>1 DEF EvalInv, EvalAsked
<1>5. EvalAsked(r, ui')
  BY <1>2 DEF EvalAsked
<1>6. \A c \in requests : EvalAsked(c, ui')
  BY <1>4 DEF EvalAsked
<1>7. \A c \in requests' : /\ EvalCall \subseteq DOMAIN c /\ c.item \in EvalItems
                           /\ EvalAsked(c, ui')
  BY <1>1, <1>5, <1>6 DEF EvalInv
<1>8. \A c, d \in requests' : c.op # "list" /\ d.op # "list" => c = d
  BY <1>1, <1>4
<1>9. EvalServer(server')
  BY <1>1 DEF EvalInv
<1> QED
  BY <1>3, <1>7, <1>8, <1>9 DEF EvalInv

\* A page that is not busy changes its screen, and asks at most for a list.
LEMMA EvalFree ==
  ASSUME EvalInv, ~ui.busy, EvalShown(ui'), server' = server,
         \A c \in requests' :
           c \in requests \/ (EvalCall \subseteq DOMAIN c /\ c.op = "list" /\ c.item \in EvalItems)
  PROVE  EvalInv'
<1>1. \A c \in requests' : c.op = "list"
  BY DEF EvalInv, EvalAsked
<1>2. \A c \in requests' : EvalCall \subseteq DOMAIN c /\ c.item \in EvalItems
  BY DEF EvalInv
<1>3. \A c \in requests' : EvalAsked(c, ui')
  BY <1>1 DEF EvalAsked
<1> QED
  BY <1>1, <1>2, <1>3 DEF EvalInv

\* What leaving the library and emptying the page leave on screen.
LEMMA EvalCleared ==
  ASSUME EvalShown(ui)
  PROVE  /\ EvalShown(Evaluation!Cleared(ui))
         /\ Evaluation!Cleared(ui).deleting = Evaluation!Nothing
         /\ Evaluation!Cleared(ui).form = ui.form
<1>1. PICK none \in EvalItems : none = Evaluation!Nothing
  BY EvalNothing
<1>2. PICK at : at = Evaluation!FirstPlace("history")
  OBVIOUS
<1>3. PICK first : first = Evaluation!First
  OBVIOUS
<1>4. PICK v : /\ v = Evaluation!Cleared(ui)
               /\ v = [ui EXCEPT !.rows = none, !.of = at, !.deleting = none, !.target = first,
                                 !.loading = FALSE, !.failed = FALSE]
  BY <1>1, <1>2, <1>3 DEF Evaluation!Cleared
<1>5. /\ EvalScreen \subseteq DOMAIN v /\ v.form = ui.form /\ v.saved = ui.saved
      /\ v.record = ui.record /\ v.rows = none /\ v.deleting = none
      /\ v.overwritten = ui.overwritten
  BY <1>4 DEF EvalShown, EvalScreen
<1>6. EvalShown(v)
  BY <1>1, <1>5 DEF EvalShown
<1> QED
  BY <1>1, <1>4, <1>5, <1>6

LEMMA EvalEmptied ==
  ASSUME EvalShown(ui)
  PROVE  EvalShown(Evaluation!Emptied) /\ Evaluation!Emptied.confirm = ""
<1>1. PICK none \in EvalItems :
        /\ none = Evaluation!Nothing
        /\ \A kind \in Evaluation!Kinds : none.runs[kind] = "none"
  BY EvalNothing
<1>2. PICK u : u = Evaluation!Cleared(ui) /\ EvalShown(u)
  BY EvalCleared
<1>3. PICK first : first = Evaluation!First
  OBVIOUS
<1>4. PICK v : /\ v = Evaluation!Emptied
               /\ v = [u EXCEPT !.tab = "evaluation", !.form = "a", !.dirty = FALSE,
                                !.record = none, !.saved = none, !.question = first,
                                !.edited = FALSE, !.confirm = ""]
  BY <1>1, <1>2, <1>3 DEF Evaluation!Emptied
<1>5. /\ EvalScreen \subseteq DOMAIN v /\ v.form = "a" /\ v.saved = none
      /\ v.record = none /\ v.rows = u.rows /\ v.deleting = u.deleting
      /\ v.overwritten = u.overwritten /\ v.confirm = ""
  BY <1>2, <1>4 DEF EvalShown, EvalScreen
<1>6. EvalShown(v)
  BY <1>1, <1>2, <1>5 DEF EvalShown, Evaluation!Texts
<1> QED
  BY <1>4, <1>5, <1>6

\* The lists that are loaded and left by a page that is not busy.
LEMMA EvalLeaves ==
  ASSUME EvalInv, ~ui.busy, NEW next, EvalShown(next), Evaluation!Leave(next)
  PROVE  EvalInv'
<1>1. EvalShown(ui')
  BY DEF Evaluation!Leave
<1> QED
  BY <1>1, EvalFree DEF Evaluation!Leave

LEMMA EvalLists ==
  ASSUME NEW at
  PROVE  /\ EvalCall \subseteq DOMAIN [Evaluation!Request("list") EXCEPT !.place = at]
         /\ [Evaluation!Request("list") EXCEPT !.place = at].op = "list"
         /\ [Evaluation!Request("list") EXCEPT !.place = at].item \in EvalItems
<1>1. PICK r : /\ r = Evaluation!Request("list") /\ EvalCall \subseteq DOMAIN r
               /\ r.op = "list" /\ r.item \in EvalItems
  BY EvalRequest, EvalNothing
<1>2. /\ EvalCall \subseteq DOMAIN [r EXCEPT !.place = at]
      /\ [r EXCEPT !.place = at].op = "list" /\ [r EXCEPT !.place = at].item = r.item
  BY <1>1 DEF EvalCall
<1> QED
  BY <1>1, <1>2

LEMMA EvalLoads ==
  ASSUME EvalInv, ~ui.busy, NEW next, EvalShown(next), NEW at, Evaluation!Load(at, next)
  PROVE  EvalInv'
<1>1. PICK none \in EvalItems : none = Evaluation!Nothing
  BY EvalNothing
<1>2. PICK first : first = Evaluation!FirstPlace("history")
  OBVIOUS
<1>3. PICK r : /\ r = [Evaluation!Request("list") EXCEPT !.place = at]
               /\ EvalCall \subseteq DOMAIN r /\ r.op = "list" /\ r.item \in EvalItems
  BY EvalLists
<1>4. PICK places : places = [next.places EXCEPT ![at.tab] = at]
  OBVIOUS
<1>5. /\ ui' = [next EXCEPT !.places = places, !.loading = TRUE, !.failed = FALSE,
                            !.rows = none, !.of = first]
      /\ requests' = (requests \ Evaluation!Lists) \union {r} /\ server' = server
  BY <1>1, <1>2, <1>3, <1>4 DEF Evaluation!Load
<1>6. /\ EvalScreen \subseteq DOMAIN ui' /\ ui'.form = next.form /\ ui'.saved = next.saved
      /\ ui'.record = next.record /\ ui'.rows = none /\ ui'.deleting = next.deleting
      /\ ui'.overwritten = next.overwritten
  BY <1>5 DEF EvalShown, EvalScreen
<1>7. EvalShown(ui')
  BY <1>1, <1>6 DEF EvalShown
<1> QED
  BY <1>3, <1>5, <1>7, EvalFree

\* The steps of the user that send nothing but a list.
LEMMA EvalTypes ==
  ASSUME EvalInv,
         \/ Evaluation!Change \/ Evaluation!EditReview \/ Evaluation!AskDiscard
         \/ Evaluation!KeepEditing \/ Evaluation!AskRemove \/ Evaluation!KeepRecord
  PROVE  EvalInv'
<1> USE DEF EvalInv
<1>1. ~ui.busy /\ server' = server /\ requests' = requests
  BY DEF Evaluation!Change, Evaluation!EditReview, Evaluation!AskDiscard,
    Evaluation!KeepEditing, Evaluation!AskRemove, Evaluation!KeepRecord
<1>2. PICK none \in EvalItems : none = Evaluation!Nothing
  BY EvalNothing
<1>3. PICK first : first = Evaluation!First
  OBVIOUS
<1>4. CASE Evaluation!Change
  <2>1. PICK text \in Evaluation!Texts : ui' = [ui EXCEPT !.form = text, !.dirty = TRUE]
    BY <1>4 DEF Evaluation!Change
  <2>2. /\ EvalScreen \subseteq DOMAIN ui' /\ ui'.form = text /\ ui'.saved = ui.saved
        /\ ui'.record = ui.record /\ ui'.rows = ui.rows /\ ui'.deleting = ui.deleting
        /\ ui'.overwritten = ui.overwritten
    BY <2>1 DEF EvalShown, EvalScreen
  <2>3. EvalShown(ui')
    BY <2>2 DEF EvalShown
  <2> QED
    BY <1>1, <2>3, EvalFree
<1>5. CASE Evaluation!EditReview
  <2>1. PICK text \in Evaluation!Texts : ui' = [ui EXCEPT !.record.review = text, !.edited = TRUE]
    BY <1>5 DEF Evaluation!EditReview
  <2>2. PICK record : record = [ui.record EXCEPT !.review = text]
    OBVIOUS
  <2>3. record \in EvalItems /\ record.revision = ui.record.revision /\ record.runs = ui.record.runs
    BY <2>2 DEF EvalShown, EvalItems
  <2>4. ui' = [ui EXCEPT !.record = record, !.edited = TRUE]
    BY <2>1, <2>2
  <2>5. /\ EvalScreen \subseteq DOMAIN ui' /\ ui'.form = ui.form /\ ui'.saved = ui.saved
        /\ ui'.record = record /\ ui'.rows = ui.rows /\ ui'.deleting = ui.deleting
        /\ ui'.overwritten = ui.overwritten
    BY <2>4 DEF EvalShown, EvalScreen
  <2>6. EvalShown(ui')
    BY <2>3, <2>5 DEF EvalShown
  <2> QED
    BY <1>1, <2>6, EvalFree
<1>6. CASE Evaluation!AskDiscard \/ Evaluation!KeepEditing
  <2>1. PICK confirm : ui' = [ui EXCEPT !.confirm = confirm]
    BY <1>6 DEF Evaluation!AskDiscard, Evaluation!KeepEditing
  <2>2. /\ EvalScreen \subseteq DOMAIN ui' /\ ui'.form = ui.form /\ ui'.saved = ui.saved
        /\ ui'.record = ui.record /\ ui'.rows = ui.rows /\ ui'.deleting = ui.deleting
        /\ ui'.overwritten = ui.overwritten
    BY <2>1 DEF EvalShown, EvalScreen
  <2>3. EvalShown(ui')
    BY <2>2 DEF EvalShown
  <2> QED
    BY <1>1, <2>3, EvalFree
<1>7. CASE Evaluation!AskRemove \/ Evaluation!KeepRecord
  <2>1. PICK item \in EvalItems :
          \E target : ui' = [ui EXCEPT !.deleting = item, !.target = target]
    <3>1. "a" \in Evaluation!Texts /\ 0 \in Nat
      BY DEF Evaluation!Texts
    <3>2. Evaluation!Named(ui.rows) \in EvalItems
      BY <3>1, EvalMade DEF EvalShown
    <3> QED
      BY <1>2, <1>7, <3>2 DEF Evaluation!AskRemove, Evaluation!KeepRecord
  <2>2. PICK target : ui' = [ui EXCEPT !.deleting = item, !.target = target]
    BY <2>1
  <2>3. /\ EvalScreen \subseteq DOMAIN ui' /\ ui'.form = ui.form /\ ui'.saved = ui.saved
        /\ ui'.record = ui.record /\ ui'.rows = ui.rows /\ ui'.deleting = item
        /\ ui'.overwritten = ui.overwritten
    BY <2>2 DEF EvalShown, EvalScreen
  <2>4. EvalShown(ui')
    BY <2>3 DEF EvalShown
  <2> QED
    BY <1>1, <2>4, EvalFree
<1> QED
  BY <1>4, <1>5, <1>6, <1>7

LEMMA EvalTurns ==
  ASSUME EvalInv,
         \/ Evaluation!SelectTab \/ Evaluation!Reset \/ Evaluation!RefreshList
         \/ Evaluation!ApplyFilters \/ Evaluation!TurnPage \/ Evaluation!UseQuestion
  PROVE  EvalInv'
<1>1. ~ui.busy
  BY DEF Evaluation!SelectTab, Evaluation!Reset, Evaluation!RefreshList,
    Evaluation!ApplyFilters, Evaluation!TurnPage, Evaluation!Turned, Evaluation!UseQuestion
<1>2. EvalShown(ui)
  BY DEF EvalInv
<1>3. PICK none \in EvalItems : none = Evaluation!Nothing
  BY EvalNothing
<1>4. PICK first : first = Evaluation!First
  OBVIOUS
<1>5. PICK emptied : emptied = Evaluation!Emptied /\ EvalShown(emptied)
  BY <1>2, EvalEmptied
<1>6. CASE Evaluation!SelectTab
  <2>1. PICK u : u = Evaluation!Cleared(ui) /\ EvalShown(u)
    BY <1>2, EvalCleared
  <2>2. PICK tab : IF tab = "evaluation" THEN Evaluation!Leave([u EXCEPT !.tab = tab])
                   ELSE Evaluation!Load(ui.places[tab], [u EXCEPT !.tab = tab])
    BY <1>6, <2>1 DEF Evaluation!SelectTab
  <2>3. PICK v : v = [u EXCEPT !.tab = tab]
    OBVIOUS
  <2>4. /\ EvalScreen \subseteq DOMAIN v /\ v.form = u.form /\ v.saved = u.saved
        /\ v.record = u.record /\ v.rows = u.rows /\ v.deleting = u.deleting
        /\ v.overwritten = u.overwritten
    BY <2>1, <2>3 DEF EvalShown, EvalScreen
  <2>5. EvalShown(v)
    BY <2>1, <2>4 DEF EvalShown
  <2>6. PICK at : Evaluation!Leave(v) \/ Evaluation!Load(at, v)
    BY <2>2, <2>3
  <2> QED
    BY <1>1, <2>5, <2>6, EvalLeaves, EvalLoads
<1>7. CASE Evaluation!Reset
  <2>1. CASE Evaluation!Leave(emptied)
    BY <1>1, <1>5, <2>1, EvalLeaves
  <2>2. CASE Evaluation!Leave([emptied EXCEPT !.form = ui.record.text, !.dirty = TRUE])
    <3>1. PICK text \in Evaluation!Texts : text = ui.record.text
      BY <1>2 DEF EvalShown, EvalItems
    <3>2. PICK v : v = [emptied EXCEPT !.form = text, !.dirty = TRUE]
      OBVIOUS
    <3>3. /\ EvalScreen \subseteq DOMAIN v /\ v.form = text /\ v.saved = emptied.saved
          /\ v.record = emptied.record /\ v.rows = emptied.rows
          /\ v.deleting = emptied.deleting /\ v.overwritten = emptied.overwritten
      BY <1>5, <3>2 DEF EvalShown, EvalScreen
    <3>4. EvalShown(v)
      BY <1>5, <3>3 DEF EvalShown
    <3> QED
      BY <1>1, <2>2, <3>1, <3>2, <3>4, EvalLeaves
  <2> QED
    BY <1>5, <1>7, <2>1, <2>2 DEF Evaluation!Reset
<1>8. CASE Evaluation!RefreshList \/ Evaluation!TurnPage
  <2>1. PICK at : Evaluation!Load(at, ui)
    BY <1>8 DEF Evaluation!RefreshList, Evaluation!TurnPage
  <2> QED
    BY <1>1, <1>2, <2>1, EvalLoads
<1>9. CASE Evaluation!ApplyFilters
  <2>1. PICK v : v = [ui EXCEPT !.deleting = none, !.target = first]
    OBVIOUS
  <2>2. PICK at : Evaluation!Load(at, v)
    BY <1>3, <1>4, <1>9, <2>1 DEF Evaluation!ApplyFilters
  <2>3. /\ EvalScreen \subseteq DOMAIN v /\ v.form = ui.form /\ v.saved = ui.saved
        /\ v.record = ui.record /\ v.rows = ui.rows /\ v.deleting = none
        /\ v.overwritten = ui.overwritten
    BY <1>2, <2>1 DEF EvalShown, EvalScreen
  <2>4. EvalShown(v)
    BY <1>2, <2>3 DEF EvalShown
  <2> QED
    BY <1>1, <2>2, <2>4, EvalLoads
<1>10. CASE Evaluation!UseQuestion
  <2>1. PICK row \in EvalItems : row = ui.rows
    BY <1>2 DEF EvalShown
  <2>2. PICK text \in Evaluation!Texts : text = row.text
    BY <2>1 DEF EvalItems
  <2>3. PICK page0, confirm : page0 = ui.of.page /\ confirm = ui.confirm
    OBVIOUS
  <2>4. PICK v : /\ v = [emptied EXCEPT !.form = text, !.saved = row, !.question = page0,
                                        !.confirm = confirm]
                 /\ Evaluation!Leave(v)
    BY <1>5, <1>10, <2>1, <2>2, <2>3 DEF Evaluation!UseQuestion
  <2>5. /\ EvalScreen \subseteq DOMAIN v /\ v.form = text /\ v.saved = row
        /\ v.record = emptied.record /\ v.rows = emptied.rows
        /\ v.deleting = emptied.deleting /\ v.overwritten = emptied.overwritten
    BY <1>5, <2>4 DEF EvalShown, EvalScreen
  <2>6. EvalShown(v)
    BY <1>5, <2>5 DEF EvalShown
  <2> QED
    BY <1>1, <2>4, <2>6, EvalLeaves
<1> QED
  BY <1>6, <1>7, <1>8, <1>9, <1>10

\* The steps of the user that send the one request of the page.
LEMMA EvalSends ==
  ASSUME EvalInv,
         \/ Evaluation!SaveQuestion \/ Evaluation!StartCapture \/ Evaluation!EndCapture
         \/ Evaluation!SaveReview \/ Evaluation!OpenEvaluation \/ Evaluation!OpenRow
         \/ Evaluation!Remove
  PROVE  EvalInv'
<1>1. /\ EvalShown(ui) /\ ui.form \in Evaluation!Texts /\ ui.record \in EvalItems
      /\ ui.saved \in EvalItems /\ ui.deleting \in EvalItems
  BY DEF EvalInv, EvalShown
<1>2. PICK revision \in Nat : revision = ui.saved.revision
  BY <1>1 DEF EvalItems
<1>3. PICK form \in Evaluation!Texts : form = ui.form
  BY <1>1
<1>4. PICK new \in EvalItems :
        new = [Evaluation!Nothing EXCEPT !.text = form] /\ new.text = form /\ new.revision = 0
  <2>1. PICK item \in EvalItems : item = ui.saved
    BY <1>1
  <2>2. /\ [Evaluation!Nothing EXCEPT !.text = form] \in EvalItems
        /\ [Evaluation!Nothing EXCEPT !.text = form].text = form
        /\ [Evaluation!Nothing EXCEPT !.text = form].revision = 0
    BY <1>2, <2>1, EvalMade
  <2> QED
    BY <2>2
<1>5. PICK named \in EvalItems :
        named = Evaluation!Named(ui.record) /\ named.revision = ui.record.revision
  BY <1>1, <1>2, <1>3, EvalMade
<1>6. CASE Evaluation!SaveQuestion
  <2>1. PICK q : /\ q = Evaluation!Request("question") /\ EvalCall \subseteq DOMAIN q
                 /\ q.op = "question" /\ q.stage = "sent"
    BY EvalRequest
  <2>2. PICK prior :
          Evaluation!Submit([q EXCEPT !.question = prior,
            !.item = [Evaluation!Nothing EXCEPT !.text = form,
                                                !.revision = IF prior = 0 THEN 0 ELSE revision]])
    BY <1>2, <1>3, <1>6, <2>1 DEF Evaluation!SaveQuestion
  <2>3. PICK at \in Nat : at = IF prior = 0 THEN 0 ELSE revision
    OBVIOUS
  <2>4. PICK item \in EvalItems :
          /\ item = [Evaluation!Nothing EXCEPT !.text = form, !.revision = at]
          /\ item.text = form
    <3>1. PICK e \in EvalItems : e = ui.saved
      BY <1>1
    <3>2. /\ [Evaluation!Nothing EXCEPT !.text = form, !.revision = at] \in EvalItems
          /\ [Evaluation!Nothing EXCEPT !.text = form, !.revision = at].text = form
      BY <3>1, EvalMade
    <3> QED
      BY <3>2
  <2>5. PICK r : r = [q EXCEPT !.question = prior, !.item = item]
    OBVIOUS
  <2>6. Evaluation!Submit(r)
    BY <2>2, <2>3, <2>4, <2>5
  <2>7. /\ EvalCall \subseteq DOMAIN r /\ r.op = "question" /\ r.stage = "sent"
        /\ r.item = item
    BY <2>1, <2>5 DEF EvalCall
  <2> QED
    BY <1>3, <2>4, <2>6, <2>7, EvalSubmits
<1>7. CASE Evaluation!StartCapture
  <2>1. PICK q : /\ q = Evaluation!Request("capture") /\ EvalCall \subseteq DOMAIN q
                 /\ q.op = "capture" /\ q.stage = "sent"
    BY EvalRequest
  <2>2. PICK item \in EvalItems :
          /\ item = (IF ui.record.revision # 0 THEN named ELSE new)
          /\ ui.record.revision = 0 => item.text = form
          /\ item.revision = 0 <=> ui.record.revision = 0
    BY <1>4, <1>5
  <2>3. PICK kind : Evaluation!Submit([q EXCEPT !.do = "start", !.kind = kind,
            !.question = IF Evaluation!Linked THEN ui.question ELSE 0,
            !.case = IF Evaluation!Linked THEN ui.saved.revision ELSE 0,
            !.item = IF ui.record.revision # 0 THEN named ELSE new])
    BY <1>3, <1>4, <1>5, <1>7, <2>1 DEF Evaluation!StartCapture
  <2>4. PICK question, case :
          /\ question = IF Evaluation!Linked THEN ui.question ELSE 0
          /\ case = IF Evaluation!Linked THEN ui.saved.revision ELSE 0
    OBVIOUS
  <2>5. PICK r : r = [q EXCEPT !.do = "start", !.kind = kind, !.question = question,
                               !.case = case, !.item = item]
    OBVIOUS
  <2>6. Evaluation!Submit(r)
    BY <2>2, <2>3, <2>4, <2>5
  <2>7. /\ EvalCall \subseteq DOMAIN r /\ r.op = "capture" /\ r.stage = "sent"
        /\ r.item = item
    BY <2>1, <2>5 DEF EvalCall
  <2>8. ~ui.edited
    BY <1>7 DEF Evaluation!StartCapture, Evaluation!CanStart
  <2> QED
    BY <1>3, <2>2, <2>6, <2>7, <2>8, EvalSubmits
<1>8. CASE Evaluation!EndCapture
  <2>1. PICK q : /\ q = Evaluation!Request("capture") /\ EvalCall \subseteq DOMAIN q
                 /\ q.op = "capture" /\ q.stage = "sent"
    BY EvalRequest
  <2>2. PICK kind \in Evaluation!Kinds, do \in {"collect", "abandon"} :
          /\ ui.record.runs[kind] = "capturing"
          /\ Evaluation!Submit([q EXCEPT !.do = do, !.kind = kind, !.item = named])
    BY <1>5, <1>8, <2>1 DEF Evaluation!EndCapture
  <2>3. ui.record.revision # 0
    BY <1>1, <2>2 DEF EvalShown
  <2>5. PICK r : r = [q EXCEPT !.do = do, !.kind = kind, !.item = named]
    OBVIOUS
  <2>6. Evaluation!Submit(r)
    BY <2>2, <2>5
  <2>7. /\ EvalCall \subseteq DOMAIN r /\ r.op = "capture" /\ r.stage = "sent"
        /\ r.item = named
    BY <2>1, <2>5 DEF EvalCall
  <2>8. ~ui.edited
    BY <1>8 DEF Evaluation!EndCapture
  <2> QED
    BY <1>5, <2>3, <2>6, <2>7, <2>8, EvalSubmits
<1>9. CASE Evaluation!SaveReview
  <2>1. PICK q : /\ q = Evaluation!Request("review") /\ EvalCall \subseteq DOMAIN q
                 /\ q.op = "review" /\ q.stage = "sent"
    BY EvalRequest
  <2>2. PICK item \in EvalItems : item = ui.record
    BY <1>1
  <2>3. PICK r : r = [q EXCEPT !.item = item]
    OBVIOUS
  <2>4. Evaluation!Submit(r)
    BY <1>9, <2>1, <2>2, <2>3 DEF Evaluation!SaveReview
  <2>5. /\ EvalCall \subseteq DOMAIN r /\ r.op = "review" /\ r.stage = "sent"
        /\ r.item = item
    BY <2>1, <2>3 DEF EvalCall
  <2> QED
    BY <2>2, <2>4, <2>5, EvalSubmits
<1>10. CASE Evaluation!OpenEvaluation \/ Evaluation!OpenRow
  <2>1. PICK r : /\ r = Evaluation!Request("open") /\ EvalCall \subseteq DOMAIN r
                 /\ r.op = "open" /\ r.stage = "sent" /\ r.item \in EvalItems
    BY EvalRequest, EvalNothing
  <2>2. Evaluation!Submit(r)
    BY <1>10, <2>1 DEF Evaluation!OpenEvaluation, Evaluation!OpenRow
  <2> QED
    BY <2>1, <2>2, EvalSubmits
<1>11. CASE Evaluation!Remove
  <2>1. PICK q : /\ q = Evaluation!Request("remove") /\ EvalCall \subseteq DOMAIN q
                 /\ q.op = "remove" /\ q.stage = "sent"
    BY EvalRequest
  <2>2. PICK item \in EvalItems : item = ui.deleting
    BY <1>1
  <2>3. PICK question : question = IF ui.tab = "questions" THEN ui.target ELSE 0
    OBVIOUS
  <2>4. PICK r : r = [q EXCEPT !.do = "remove", !.item = item, !.question = question]
    OBVIOUS
  <2>5. Evaluation!Submit(r)
    BY <1>11, <2>1, <2>2, <2>3, <2>4 DEF Evaluation!Remove
  <2>6. /\ EvalCall \subseteq DOMAIN r /\ r.op = "remove" /\ r.stage = "sent"
        /\ r.item = item
    BY <2>1, <2>4 DEF EvalCall
  <2> QED
    BY <2>5, <2>6, EvalSubmits
<1> QED
  BY <1>6, <1>7, <1>8, <1>9, <1>10, <1>11

\* The server answers a request with an item that agrees with what was asked.
LEMMA EvalAnswers ==
  ASSUME EvalInv, NEW c \in requests, c.stage = "sent", ui' = ui, EvalServer(server'),
         NEW a, requests' = (requests \ {c}) \union {a},
         EvalCall \subseteq DOMAIN a, a.op = c.op, a.stage = "ok", a.item \in EvalItems,
         c.op = "question" => a.item.text = c.item.text,
         c.op = "capture" /\ c.item.revision = 0 => a.item.text = c.item.text,
         c.op = "review" => a.item.review = c.item.review,
         c.op \in {"open", "capture", "review"} => a.item.revision # 0
  PROVE  EvalInv'
<1>1. EvalAsked(c, ui)
  BY DEF EvalInv
<1>2. EvalAsked(a, ui)
  <2>1. c.op = "capture" /\ ui.record.revision = 0 => a.item.text = ui.form
    BY <1>1 DEF EvalAsked
  <2> QED
    BY <1>1, <2>1 DEF EvalAsked
<1>3. \A d \in requests' : EvalCall \subseteq DOMAIN d /\ d.item \in EvalItems /\ EvalAsked(d, ui)
  BY <1>2 DEF EvalInv
<1>4. \A d, e \in requests' : d.op # "list" /\ e.op # "list" => d = e
  BY DEF EvalInv
<1>5. EvalShown(ui')
  BY DEF EvalInv
<1> QED
  BY <1>3, <1>4, <1>5 DEF EvalInv

LEMMA EvalAnswered ==
  ASSUME NEW c, EvalCall \subseteq DOMAIN c, NEW item, Evaluation!Answered(c, item)
  PROVE  \E a : /\ requests' = (requests \ {c}) \union {a}
                /\ EvalCall \subseteq DOMAIN a /\ a.op = c.op /\ a.stage = "ok" /\ a.item = item
<1>1. PICK a : a = [c EXCEPT !.stage = "ok", !.item = item, !.case = 0]
  OBVIOUS
<1>2. EvalCall \subseteq DOMAIN a /\ a.op = c.op /\ a.stage = "ok" /\ a.item = item
  BY <1>1 DEF EvalCall
<1>3. requests' = (requests \ {c}) \union {a}
  BY <1>1 DEF Evaluation!Answered
<1> QED
  BY <1>2, <1>3

\* The records as writes leave them.
LEMMA EvalRuns ==
  ASSUME NEW item \in EvalItems, NEW kind,
         NEW state \in {"none", "capturing", "completed", "abandoned"}
  PROVE  [item.runs EXCEPT ![kind] = state]
           \in [Evaluation!Kinds -> {"none", "capturing", "completed", "abandoned"}]
<1>1. PICK before \in [Evaluation!Kinds -> {"none", "capturing", "completed", "abandoned"}] :
        before = item.runs
  BY DEF EvalItems
<1>2. [before EXCEPT ![kind] = state]
        \in [Evaluation!Kinds -> {"none", "capturing", "completed", "abandoned"}]
  OBVIOUS
<1> QED
  BY <1>1, <1>2

LEMMA EvalRecords ==
  ASSUME NEW item \in EvalItems, NEW revision \in Nat
  PROVE  /\ [item EXCEPT !.revision = revision] \in EvalItems
         /\ [item EXCEPT !.revision = revision].revision = revision
         /\ [item EXCEPT !.revision = revision].text = item.text
  BY DEF EvalItems

LEMMA EvalReviewed ==
  ASSUME NEW item \in EvalItems, NEW revision \in Nat, NEW text \in Evaluation!Texts
  PROVE  /\ [item EXCEPT !.revision = revision, !.text = text] \in EvalItems
         /\ [item EXCEPT !.revision = revision, !.review = text] \in EvalItems
         /\ [item EXCEPT !.revision = revision, !.review = text].review = text
         /\ [item EXCEPT !.revision = revision, !.review = text].revision = revision
  BY DEF EvalItems

LEMMA EvalRan ==
  ASSUME NEW item \in EvalItems, NEW revision \in Nat,
         NEW runs \in [Evaluation!Kinds -> {"none", "capturing", "completed", "abandoned"}]
  PROVE  /\ [item EXCEPT !.revision = revision, !.runs = runs] \in EvalItems
         /\ [item EXCEPT !.revision = revision, !.runs = runs].revision = revision
         /\ [item EXCEPT !.revision = revision, !.runs = runs].text = item.text
  BY DEF EvalItems

\* What the server stores.
LEMMA EvalStores ==
  ASSUME EvalServer(server), NEW n, NEW item \in EvalItems, NEW careless, NEW others, NEW gone,
         NEW deleted,
         \/ server' = server
         \/ server' = [server EXCEPT !.questions[n] = item, !.careless = careless]
         \/ server' = [server EXCEPT !.questions[n] = item, !.others = others]
         \/ server' = [server EXCEPT !.evaluation = item]
         \/ server' = [server EXCEPT !.evaluation = item, !.careless = careless]
         \/ server' = [server EXCEPT !.evaluation = item, !.others = others]
         \/ server' = [server EXCEPT !.gone = gone, !.careless = careless]
         \/ server' = [server EXCEPT !.gone = gone, !.others = others]
         \/ server' = [server EXCEPT !.deleted = deleted, !.careless = careless]
         \/ server' = [server EXCEPT !.deleted = deleted, !.others = others]
  PROVE  EvalServer(server')
<1> DEFINE Stores == {"questions", "gone", "evaluation", "deleted", "others", "careless"}
<1>1. PICK questions \in [LibraryQuestions -> EvalItems] :
        questions = [server.questions EXCEPT ![n] = item]
  <2>1. PICK before \in [LibraryQuestions -> EvalItems] : before = server.questions
    BY DEF EvalServer
  <2>2. [before EXCEPT ![n] = item] \in [LibraryQuestions -> EvalItems]
    OBVIOUS
  <2> QED
    BY <2>1, <2>2
<1>2. CASE server' = [server EXCEPT !.questions[n] = item, !.careless = careless]
  <2>1. server' = [server EXCEPT !.questions = questions, !.careless = careless]
    BY <1>1, <1>2
  <2>2. /\ Stores \subseteq DOMAIN server' /\ server'.questions = questions
        /\ server'.evaluation = server.evaluation
    BY <2>1 DEF EvalServer
  <2> QED
    BY <2>2 DEF EvalServer
<1>3. CASE server' = [server EXCEPT !.questions[n] = item, !.others = others]
  <2>1. server' = [server EXCEPT !.questions = questions, !.others = others]
    BY <1>1, <1>3
  <2>2. /\ Stores \subseteq DOMAIN server' /\ server'.questions = questions
        /\ server'.evaluation = server.evaluation
    BY <2>1 DEF EvalServer
  <2> QED
    BY <2>2 DEF EvalServer
<1>4. CASE \/ server' = [server EXCEPT !.evaluation = item]
           \/ server' = [server EXCEPT !.evaluation = item, !.careless = careless]
           \/ server' = [server EXCEPT !.evaluation = item, !.others = others]
  <2>2. /\ Stores \subseteq DOMAIN server' /\ server'.questions = server.questions
        /\ server'.evaluation = item
    BY <1>4 DEF EvalServer
  <2> QED
    BY <2>2 DEF EvalServer
<1>5. CASE \/ server' = [server EXCEPT !.gone = gone, !.careless = careless]
           \/ server' = [server EXCEPT !.gone = gone, !.others = others]
           \/ server' = [server EXCEPT !.deleted = deleted, !.careless = careless]
           \/ server' = [server EXCEPT !.deleted = deleted, !.others = others]
  <2>2. /\ Stores \subseteq DOMAIN server' /\ server'.questions = server.questions
        /\ server'.evaluation = server.evaluation
    BY <1>5 DEF EvalServer
  <2> QED
    BY <2>2 DEF EvalServer
<1> QED
  BY <1>2, <1>3, <1>4, <1>5

\* Every answer of the server.
LEMMA EvalServed ==
  ASSUME EvalInv, Evaluation!Serve
  PROVE  EvalInv'
<1>1. PICK c \in requests :
        /\ c.stage = "sent" /\ ui' = ui
        /\ \/ Evaluation!ServeRead(c) \/ Evaluation!ServeQuestion(c) \/ Evaluation!ServeCreate(c)
           \/ Evaluation!ServeCapture(c) \/ Evaluation!ServeReview(c) \/ Evaluation!ServeRemove(c)
  BY DEF Evaluation!Serve
<1>2. /\ EvalServer(server) /\ EvalCall \subseteq DOMAIN c /\ c.item \in EvalItems
      /\ server.questions \in [LibraryQuestions -> EvalItems] /\ server.evaluation \in EvalItems
  BY DEF EvalInv, EvalServer
<1>3. PICK none \in EvalItems : none = Evaluation!Nothing
  BY EvalNothing
<1>4. PICK evaluation \in EvalItems : evaluation = server.evaluation
  BY <1>2
<1>5. evaluation.revision \in Nat /\ "a" \in Evaluation!Texts
  BY <1>4 DEF EvalItems, Evaluation!Texts
<1>6. PICK successor \in Nat : successor = evaluation.revision + 1 /\ successor # 0
  BY <1>5
<1>7. CASE Evaluation!ServeRead(c)
  <2>1. PICK item \in EvalItems :
          /\ Evaluation!Answered(c, item) /\ server' = server
          /\ c.op \in {"list", "open"} /\ (c.op = "open" => item.revision # 0)
    <3>1. CASE c.op = "list" /\ Evaluation!Answered(c, Evaluation!At(c.place))
      <4>1. Evaluation!At(c.place) \in EvalItems
        BY <1>2, <1>3 DEF Evaluation!At, Evaluation!There
      <4> QED
        BY <1>7, <3>1, <4>1 DEF Evaluation!ServeRead
    <3>2. CASE c.op = "open" /\ Evaluation!Kept /\ Evaluation!Answered(c, server.evaluation)
      BY <1>2, <1>7, <3>2 DEF Evaluation!ServeRead, Evaluation!Kept
    <3> QED
      BY <1>7, <3>1, <3>2 DEF Evaluation!ServeRead
  <2>2. PICK a : /\ requests' = (requests \ {c}) \union {a} /\ EvalCall \subseteq DOMAIN a
                 /\ a.op = c.op /\ a.stage = "ok" /\ a.item = item
    BY <1>2, <2>1, EvalAnswered
  <2> QED
    BY <1>1, <1>2, <2>1, <2>2, EvalAnswers
<1>8. CASE Evaluation!ServeQuestion(c)
  <2>9. PICK n \in LibraryQuestions :
          LET item == [c.item EXCEPT !.revision = server.questions[n].revision + 1]
          IN  /\ \E careless :
                   server' = [server EXCEPT !.questions[n] = item, !.careless = careless]
              /\ requests' = (requests \ {c}) \union
                              {[c EXCEPT !.stage = "ok", !.item = item, !.question = n]}
    BY <1>8 DEF Evaluation!ServeQuestion
  <2>1. PICK saved, careless :
          /\ saved = [c.item EXCEPT !.revision = server.questions[n].revision + 1]
          /\ server' = [server EXCEPT !.questions[n] = saved, !.careless = careless]
          /\ requests' = (requests \ {c}) \union
                         {[c EXCEPT !.stage = "ok", !.item = saved, !.question = n]}
    BY <2>9
  <2>2. PICK revision \in Nat : revision = server.questions[n].revision + 1
    <3>1. server.questions[n] \in EvalItems
      BY <1>2, <2>1
    <3> QED
      BY <3>1 DEF EvalItems
  <2>3. saved \in EvalItems /\ saved.text = c.item.text
    BY <1>2, <2>1, <2>2, EvalRecords
  <2>4. PICK a : a = [c EXCEPT !.stage = "ok", !.item = saved, !.question = n]
    OBVIOUS
  <2>5. EvalCall \subseteq DOMAIN a /\ a.op = c.op /\ a.stage = "ok" /\ a.item = saved
    BY <1>2, <2>4 DEF EvalCall
  <2>6. EvalServer(server')
    BY <1>2, <2>1, <2>3, EvalStores
  <2>7. c.op = "question"
    BY <1>8 DEF Evaluation!ServeQuestion
  <2> QED
    BY <1>1, <2>1, <2>3, <2>4, <2>5, <2>6, <2>7, EvalAnswers
<1>9. CASE Evaluation!ServeCreate(c)
  <2>6. PICK kind : kind = c.kind
    OBVIOUS
  <2>7. PICK run \in [Evaluation!Kinds -> {"none", "capturing", "completed", "abandoned"}] :
          run = [c.item.runs EXCEPT ![kind] = "capturing"]
    BY <1>2, EvalRuns
  <2>1. PICK created :
          /\ created = [c.item EXCEPT !.revision = 1, !.runs = run]
          /\ server' = [server EXCEPT !.evaluation = created] /\ c.op = "capture"
          /\ Evaluation!Answered(c, created)
    BY <1>9, <2>6, <2>7 DEF Evaluation!ServeCreate
  <2>2. 1 \in Nat
    OBVIOUS
  <2>9. PICK made \in EvalItems :
          made = [c.item EXCEPT !.revision = 1, !.runs = run]
    BY <1>2, <2>2, EvalRan
  <2>10. made.text = c.item.text /\ made.revision = 1
    BY <1>2, <2>9 DEF EvalItems
  <2>3. created \in EvalItems /\ created.text = c.item.text /\ created.revision = 1
    <3>1. created = made
      BY <2>1, <2>9
    <3> QED
      BY <2>10, <3>1
  <2>4. EvalServer(server')
    BY <1>2, <2>1, <2>3, EvalStores
  <2>8. c.op = "capture" /\ created.revision # 0
    BY <2>1, <2>3
  <2>5. PICK a : /\ requests' = (requests \ {c}) \union {a} /\ EvalCall \subseteq DOMAIN a
                 /\ a.op = c.op /\ a.stage = "ok" /\ a.item = created
    BY <1>2, <2>1, EvalAnswered
  <2> QED
    BY <1>1, <2>3, <2>4, <2>5, <2>8, EvalAnswers
<1>10. CASE Evaluation!ServeCapture(c)
  <2>7. PICK kind : kind = c.kind
    OBVIOUS
  <2>8. PICK state \in {"none", "capturing", "completed", "abandoned"} :
            state = IF c.do = "start" THEN "capturing" ELSE Evaluation!Ended(c.do)
    BY DEF Evaluation!Ended
  <2>9. PICK run \in [Evaluation!Kinds -> {"none", "capturing", "completed", "abandoned"}] :
          run = [evaluation.runs EXCEPT ![kind] = state]
    BY EvalRuns
  <2>1. PICK careless, next :
          /\ next = [evaluation EXCEPT !.revision = successor, !.runs = run]
          /\ server' = [server EXCEPT !.evaluation = next, !.careless = careless]
          /\ Evaluation!Answered(c, next)
    <3>1. PICK careless, next :
            /\ next = [evaluation EXCEPT
                         !.revision = @ + 1,
                         !.runs[c.kind] = IF c.do = "start" THEN "capturing"
                                          ELSE Evaluation!Ended(c.do)]
            /\ server' = [server EXCEPT !.evaluation = next, !.careless = careless]
            /\ Evaluation!Answered(c, next)
      BY <1>4, <1>10 DEF Evaluation!ServeCapture
    <3>2. next = [evaluation EXCEPT !.revision = successor, !.runs = run]
      BY <1>6, <2>7, <2>8, <2>9, <3>1
    <3> QED
      BY <3>1, <3>2
  <2>11. PICK made \in EvalItems :
          made = [evaluation EXCEPT !.revision = successor, !.runs = run]
    BY EvalRan
  <2>12. made.revision = successor
    BY <2>11 DEF EvalItems
  <2>3. next \in EvalItems /\ next.revision = successor
    <3>1. next = made
      BY <2>1, <2>11
    <3> QED
      BY <2>12, <3>1
  <2>4. EvalServer(server')
    BY <1>2, <2>1, <2>3, EvalStores
  <2>5. PICK a : /\ requests' = (requests \ {c}) \union {a} /\ EvalCall \subseteq DOMAIN a
                 /\ a.op = c.op /\ a.stage = "ok" /\ a.item = next
    BY <1>2, <2>1, EvalAnswered
  <2>6. c.op = "capture" /\ c.item.revision # 0
    BY <1>10 DEF Evaluation!ServeCapture
  <2>10. next.revision # 0
    BY <1>6, <2>3
  <2> QED
    BY <1>1, <2>3, <2>4, <2>5, <2>6, <2>10, EvalAnswers
<1>11. CASE Evaluation!ServeReview(c)
  <2>1. PICK text \in Evaluation!Texts : text = c.item.review
    BY <1>2 DEF EvalItems
  <2>2. PICK careless, next :
          /\ next = [evaluation EXCEPT !.revision = @ + 1, !.review = text]
          /\ server' = [server EXCEPT !.evaluation = next, !.careless = careless]
          /\ Evaluation!Answered(c, next)
    BY <1>4, <1>11, <2>1 DEF Evaluation!ServeReview
  <2>3. next = [evaluation EXCEPT !.revision = successor, !.review = text]
    BY <1>6, <2>2
  <2>8. PICK made \in EvalItems :
          made = [evaluation EXCEPT !.revision = successor, !.review = text]
    BY EvalReviewed
  <2>9. made.revision = successor /\ made.review = text
    BY <2>8 DEF EvalItems
  <2>4. next \in EvalItems /\ next.revision = successor /\ next.review = text
    BY <2>3, <2>8, <2>9
  <2>5. EvalServer(server')
    BY <1>2, <2>2, <2>4, EvalStores
  <2>6. PICK a : /\ requests' = (requests \ {c}) \union {a} /\ EvalCall \subseteq DOMAIN a
                 /\ a.op = c.op /\ a.stage = "ok" /\ a.item = next
    BY <1>2, <2>2, EvalAnswered
  <2>7. c.op = "review"
    BY <1>11 DEF Evaluation!ServeReview
  <2> QED
    BY <1>1, <1>6, <2>1, <2>4, <2>5, <2>6, <2>7, EvalAnswers
<1>12. CASE Evaluation!ServeRemove(c)
  <2>1. Evaluation!Answered(c, none) /\ c.op = "remove"
    BY <1>3, <1>12 DEF Evaluation!ServeRemove
  <2>2. PICK gone, careless, deleted :
          \/ server' = [server EXCEPT !.gone = gone, !.careless = careless]
          \/ server' = [server EXCEPT !.deleted = deleted, !.careless = careless]
    BY <1>12 DEF Evaluation!ServeRemove
  <2>3. EvalServer(server')
    BY <1>2, <1>3, <2>2, EvalStores
  <2>4. PICK a : /\ requests' = (requests \ {c}) \union {a} /\ EvalCall \subseteq DOMAIN a
                 /\ a.op = c.op /\ a.stage = "ok" /\ a.item = none
    BY <1>2, <2>1, EvalAnswered
  <2> QED
    BY <1>1, <2>1, <2>3, <2>4, EvalAnswers
<1> QED
  BY <1>1, <1>7, <1>8, <1>9, <1>10, <1>11, <1>12

\* Another administrator changes what the server stores, and nothing else.
LEMMA EvalOthers ==
  ASSUME EvalInv, Evaluation!SomeoneElseWrites
  PROVE  EvalInv'
<1>1. /\ ui' = ui /\ requests' = requests /\ EvalServer(server)
      /\ server.questions \in [LibraryQuestions -> EvalItems] /\ server.evaluation \in EvalItems
  BY DEF EvalInv, EvalServer, Evaluation!SomeoneElseWrites
<1>2. PICK evaluation \in EvalItems : evaluation = server.evaluation
  BY <1>1
<1>3. PICK successor \in Nat : successor = evaluation.revision + 1
  BY <1>2 DEF EvalItems
<1>4. PICK others : others = server.others + 1
  OBVIOUS
<1>5. "a" \in Evaluation!Texts
  BY DEF Evaluation!Texts
<1>6. CASE \E n \in LibraryQuestions, text \in Evaluation!Texts :
             server' = [server EXCEPT !.questions[n].text = text, !.others = @ + 1,
                                      !.questions[n].revision = @ + 1]
  <2>1. PICK n \in LibraryQuestions, text \in Evaluation!Texts :
             server' = [server EXCEPT !.questions[n].text = text, !.others = @ + 1,
                                      !.questions[n].revision = @ + 1]
    BY <1>6
  <2>2. PICK question \in EvalItems : question = server.questions[n]
    BY <1>1
  <2>3. PICK revision \in Nat : revision = question.revision + 1
    BY <2>2 DEF EvalItems
  <2>4. PICK item \in EvalItems : item = [question EXCEPT !.revision = revision, !.text = text]
    BY <2>2, <2>3, EvalReviewed
  <2>5. server' = [server EXCEPT !.questions[n] = item, !.others = others]
    BY <1>1, <1>4, <2>1, <2>2, <2>3, <2>4 DEF EvalServer
  <2>6. EvalServer(server')
    BY <1>1, <2>5, EvalStores
  <2> QED
    BY <1>1, <2>6 DEF EvalInv
<1>7. CASE \/ \E gone : server' = [server EXCEPT !.gone = gone, !.others = others]
           \/ server' = [server EXCEPT !.deleted = TRUE, !.others = others]
  <2>1. PICK gone, deleted :
          \/ server' = [server EXCEPT !.gone = gone, !.others = others]
          \/ server' = [server EXCEPT !.deleted = deleted, !.others = others]
    BY <1>7
  <2>2. EvalServer(server')
    BY <1>1, <1>2, <2>1, EvalStores
  <2> QED
    BY <1>1, <2>2 DEF EvalInv
<1>8. CASE \E item \in EvalItems :
             server' = [server EXCEPT !.evaluation = item, !.others = others]
  <2>1. PICK item \in EvalItems : server' = [server EXCEPT !.evaluation = item, !.others = others]
    BY <1>8
  <2>2. EvalServer(server')
    BY <1>1, <2>1, EvalStores
  <2> QED
    BY <1>1, <2>2 DEF EvalInv
<1>9. ASSUME NEW kind, NEW state \in {"capturing", "completed", "abandoned"},
             server' = [server EXCEPT !.evaluation.revision = @ + 1, !.others = @ + 1,
                                      !.evaluation.runs[kind] = state]
      PROVE  \E item \in EvalItems :
               server' = [server EXCEPT !.evaluation = item, !.others = others]
  <2>1. PICK run \in [Evaluation!Kinds -> {"none", "capturing", "completed", "abandoned"}] :
          run = [evaluation.runs EXCEPT ![kind] = state]
    BY EvalRuns
  <2>2. PICK item \in EvalItems : item = [evaluation EXCEPT !.revision = successor, !.runs = run]
    BY <1>3, EvalRan
  <2>3. PICK e : e = [evaluation EXCEPT !.revision = successor]
    OBVIOUS
  <2>4. [e EXCEPT !.runs[kind] = state] = item
    BY <2>1, <2>2, <2>3 DEF EvalItems
  <2>5. PICK s1 : s1 = [server EXCEPT !.evaluation = e, !.others = others]
    OBVIOUS
  <2>6. s1.evaluation = e
    BY <1>1, <2>5 DEF EvalServer
  <2>7. server' = [s1 EXCEPT !.evaluation = [e EXCEPT !.runs[kind] = state]]
    <3>1. s1 = [server EXCEPT !.evaluation.revision = @ + 1, !.others = @ + 1]
      BY <1>2, <1>3, <1>4, <2>3, <2>5
    <3>2. server' = [s1 EXCEPT !.evaluation.runs[kind] = state]
      BY <1>9, <3>1
    <3> QED
      BY <2>6, <3>2
  <2>8. [s1 EXCEPT !.evaluation = item] = [server EXCEPT !.evaluation = item, !.others = others]
    BY <2>5
  <2> QED
    BY <2>4, <2>7, <2>8
<1>10. ASSUME NEW text \in Evaluation!Texts,
              server' = [server EXCEPT !.evaluation.revision = @ + 1, !.others = @ + 1,
                                       !.evaluation.review = text]
       PROVE  \E item \in EvalItems :
                server' = [server EXCEPT !.evaluation = item, !.others = others]
  <2>1. PICK item \in EvalItems :
          item = [evaluation EXCEPT !.revision = successor, !.review = text]
    BY <1>3, EvalReviewed
  <2> QED
    BY <1>1, <1>2, <1>3, <1>4, <1>10, <2>1 DEF EvalServer
<1>11. PICK text \in Evaluation!Texts : text = IF evaluation.review = "a" THEN "b" ELSE "a"
  BY DEF Evaluation!Texts
<1> QED
  BY <1>2, <1>4, <1>6, <1>7, <1>8, <1>9, <1>10, <1>11 DEF Evaluation!SomeoneElseWrites

\* The operation of the page ends: only lists are left in flight.
LEMMA EvalEnds ==
  ASSUME EvalInv, NEW asked \in requests, asked.op # "list", EvalShown(ui'), server' = server,
         \A c \in requests' :
           \/ c \in requests \ {asked}
           \/ EvalCall \subseteq DOMAIN c /\ c.op = "list" /\ c.item \in EvalItems
  PROVE  EvalInv'
<1>1. \A c \in requests' : c.op = "list"
  BY DEF EvalInv
<1>2. \A c \in requests' : EvalCall \subseteq DOMAIN c /\ c.item \in EvalItems
  BY DEF EvalInv
<1>3. \A c \in requests' : EvalAsked(c, ui')
  BY <1>1 DEF EvalAsked
<1> QED
  BY <1>1, <1>2, <1>3 DEF EvalInv

\* Every answer that the page hears, or the news that there will be none.
LEMMA EvalHears ==
  ASSUME EvalInv, Evaluation!Deliver
  PROVE  EvalInv'
<1>1. PICK asked \in requests : \E c \in Evaluation!Heard(asked) :
        LET others == requests \ {asked}
        IN  \/ Evaluation!ListArrives(c, others) \/ Evaluation!OpenArrives(c, others)
            \/ Evaluation!QuestionSaved(c, others) \/ Evaluation!CaptureArrives(c, others)
            \/ Evaluation!ReviewSaved(c, others) \/ Evaluation!RecordRemoved(c, others)
  BY DEF Evaluation!Deliver
<1>2. PICK others : others = requests \ {asked}
  OBVIOUS
<1>3. PICK c \in Evaluation!Heard(asked) :
        \/ Evaluation!ListArrives(c, others) \/ Evaluation!OpenArrives(c, others)
        \/ Evaluation!QuestionSaved(c, others) \/ Evaluation!CaptureArrives(c, others)
        \/ Evaluation!ReviewSaved(c, others) \/ Evaluation!RecordRemoved(c, others)
  BY <1>1, <1>2
<1>4. /\ EvalShown(ui) /\ EvalScreen \subseteq DOMAIN ui /\ server' = server
      /\ EvalCall \subseteq DOMAIN asked /\ asked.item \in EvalItems /\ EvalAsked(asked, ui)
  BY DEF EvalInv, EvalShown, Evaluation!Deliver
<1>5. c.op = asked.op /\ c.item = asked.item /\ (c.stage = "ok" => c = asked)
  BY <1>4 DEF Evaluation!Heard, EvalCall
<1>6. PICK item \in EvalItems : item = c.item
  BY <1>4, <1>5
<1>7. PICK text \in Evaluation!Texts : text = item.text
  BY DEF EvalItems
<1>8. PICK none \in EvalItems : none = Evaluation!Nothing
  BY EvalNothing
<1>9. PICK freed : freed = Evaluation!Freed /\ freed = [ui EXCEPT !.busy = FALSE]
  BY DEF Evaluation!Freed
<1>10. /\ EvalScreen \subseteq DOMAIN freed /\ freed.form = ui.form /\ freed.saved = ui.saved
       /\ freed.record = ui.record /\ freed.rows = ui.rows /\ freed.deleting = ui.deleting
       /\ freed.overwritten = ui.overwritten
  BY <1>4, <1>9 DEF EvalScreen
<1>11. EvalShown(freed)
  BY <1>4, <1>10 DEF EvalShown
<1>12. CASE Evaluation!ListArrives(c, others)
  <2>1. PICK at : at = c.place
    OBVIOUS
  <2>2. /\ requests' = others
        /\ \/ ui' = [ui EXCEPT !.rows = item, !.of = at, !.loading = FALSE]
           \/ ui' = [ui EXCEPT !.failed = TRUE, !.loading = FALSE]
    BY <1>6, <1>12, <2>1 DEF Evaluation!ListArrives
  <2>3. /\ EvalScreen \subseteq DOMAIN ui' /\ ui'.form = ui.form /\ ui'.saved = ui.saved
        /\ ui'.record = ui.record /\ ui'.rows \in {ui.rows, item} /\ ui'.busy = ui.busy
        /\ ui'.deleting = ui.deleting /\ ui'.overwritten = ui.overwritten
        /\ ui'.edited = ui.edited
    BY <1>4, <2>2 DEF EvalScreen
  <2>4. EvalShown(ui')
    BY <1>4, <2>3 DEF EvalShown
  <2>5. \A d \in requests : EvalAsked(d, ui')
    BY <2>3 DEF EvalInv, EvalAsked
  <2> QED
    BY <1>2, <1>4, <2>2, <2>4, <2>5 DEF EvalInv
<1>13. CASE ui' = freed /\ requests' = others /\ asked.op # "list"
  BY <1>2, <1>4, <1>11, <1>13, EvalEnds
<1>14. CASE Evaluation!OpenArrives(c, others)
  <2>1. asked.op = "open"
    BY <1>5, <1>14 DEF Evaluation!OpenArrives
  <2>2. CASE c.stage = "ok"
    <3>1. PICK u : u = Evaluation!Emptied /\ EvalShown(u)
      BY <1>4, EvalEmptied
    <3>2. /\ ui' = [u EXCEPT !.busy = FALSE, !.record = item, !.form = text]
          /\ requests' = others \ Evaluation!Lists
      BY <1>6, <1>7, <1>14, <2>2, <3>1 DEF Evaluation!OpenArrives
    <3>3. /\ EvalScreen \subseteq DOMAIN ui' /\ ui'.form = text /\ ui'.saved = u.saved
          /\ ui'.record = item /\ ui'.rows = u.rows /\ ui'.deleting = u.deleting
          /\ ui'.overwritten = u.overwritten
      BY <3>1, <3>2 DEF EvalShown, EvalScreen
    <3>4. item.revision # 0
      BY <1>4, <1>5, <1>6, <2>1, <2>2 DEF EvalAsked
    <3>5. EvalShown(ui')
      BY <3>1, <3>3, <3>4 DEF EvalShown
    <3> QED
      BY <1>2, <1>4, <2>1, <3>2, <3>5, EvalEnds
  <2>3. CASE c.stage # "ok"
    BY <1>9, <1>13, <1>14, <2>1, <2>3 DEF Evaluation!OpenArrives
  <2> QED
    BY <2>2, <2>3
<1>15. CASE Evaluation!QuestionSaved(c, others)
  <2>1. asked.op = "question"
    BY <1>5, <1>15 DEF Evaluation!QuestionSaved
  <2>2. CASE c.stage = "ok"
    <3>1. PICK question : question = c.question
      OBVIOUS
    <3>2. freed.overwritten = FALSE /\ ui.form = text
      BY <1>4, <1>5, <1>6, <1>7, <1>10, <2>1, <2>2 DEF EvalAsked, EvalShown
    <3>3. PICK overwritten \in BOOLEAN : overwritten = (freed.overwritten \/ ui.form # text)
      BY <3>2
    <3>4. /\ ui' = [freed EXCEPT !.saved = item, !.question = question, !.dirty = FALSE,
                                 !.overwritten = overwritten]
          /\ requests' = others
      BY <1>6, <1>7, <1>9, <1>15, <2>2, <3>1, <3>3 DEF Evaluation!QuestionSaved
    <3>5. /\ EvalScreen \subseteq DOMAIN ui' /\ ui'.form = freed.form /\ ui'.saved = item
          /\ ui'.record = freed.record /\ ui'.rows = freed.rows
          /\ ui'.deleting = freed.deleting /\ ui'.overwritten = overwritten
      BY <1>10, <3>4 DEF EvalScreen
    <3>6. ~overwritten
      BY <3>2, <3>3
    <3>7. EvalShown(ui')
      BY <1>11, <3>5, <3>6 DEF EvalShown
    <3> QED
      BY <1>2, <1>4, <2>1, <3>4, <3>7, EvalEnds
  <2>3. CASE c.stage # "ok"
    BY <1>9, <1>13, <1>15, <2>1, <2>3 DEF Evaluation!QuestionSaved
  <2> QED
    BY <2>2, <2>3
<1>16. CASE Evaluation!CaptureArrives(c, others)
  <2>1. asked.op = "capture"
    BY <1>5, <1>16 DEF Evaluation!CaptureArrives
  <2>2. CASE c.stage = "ok"
    <3>1. /\ freed.overwritten = FALSE /\ ~ui.edited /\ item.revision # 0
          /\ ui.record.revision = 0 => ui.form = text
      BY <1>4, <1>5, <1>6, <1>7, <1>10, <2>1, <2>2 DEF EvalAsked, EvalShown
    <3>2. PICK overwritten \in BOOLEAN :
            overwritten = (freed.overwritten \/ ui.edited
                            \/ (ui.record.revision = 0 /\ ui.form # text))
      OBVIOUS
    <3>3. /\ ui' = [freed EXCEPT !.record = item, !.form = text, !.dirty = FALSE,
                                 !.edited = FALSE, !.overwritten = overwritten]
          /\ requests' = others
      BY <1>6, <1>7, <1>9, <1>16, <2>2, <3>2 DEF Evaluation!CaptureArrives
    <3>4. /\ EvalScreen \subseteq DOMAIN ui' /\ ui'.form = text /\ ui'.saved = freed.saved
          /\ ui'.record = item /\ ui'.rows = freed.rows
          /\ ui'.deleting = freed.deleting /\ ui'.overwritten = overwritten
      BY <1>10, <3>3 DEF EvalScreen
    <3>5. ~overwritten
      BY <3>1, <3>2
    <3>6. EvalShown(ui')
      BY <1>11, <3>1, <3>4, <3>5 DEF EvalShown
    <3> QED
      BY <1>2, <1>4, <2>1, <3>3, <3>6, EvalEnds
  <2>3. CASE c.stage # "ok"
    BY <1>9, <1>13, <1>16, <2>1, <2>3 DEF Evaluation!CaptureArrives
  <2> QED
    BY <2>2, <2>3
<1>17. CASE Evaluation!ReviewSaved(c, others)
  <2>1. asked.op = "review"
    BY <1>5, <1>17 DEF Evaluation!ReviewSaved
  <2>2. CASE c.stage = "ok"
    <3>1. /\ freed.overwritten = FALSE /\ item.revision # 0
          /\ ui.record.review = item.review
      BY <1>4, <1>5, <1>6, <1>10, <2>1, <2>2 DEF EvalAsked, EvalShown
    <3>2. PICK overwritten \in BOOLEAN :
            overwritten = (freed.overwritten \/ ui.record.review # item.review)
      BY <3>1
    <3>3. /\ ui' = [freed EXCEPT !.record = item, !.edited = FALSE, !.overwritten = overwritten]
          /\ requests' = others
      BY <1>6, <1>9, <1>17, <2>2, <3>2 DEF Evaluation!ReviewSaved
    <3>4. /\ EvalScreen \subseteq DOMAIN ui' /\ ui'.form = freed.form /\ ui'.saved = freed.saved
          /\ ui'.record = item /\ ui'.rows = freed.rows
          /\ ui'.deleting = freed.deleting /\ ui'.overwritten = overwritten
      BY <1>10, <3>3 DEF EvalScreen
    <3>5. ~overwritten
      BY <3>1, <3>2
    <3>6. EvalShown(ui')
      BY <1>11, <3>1, <3>4, <3>5 DEF EvalShown
    <3> QED
      BY <1>2, <1>4, <2>1, <3>3, <3>6, EvalEnds
  <2>3. CASE c.stage # "ok"
    BY <1>9, <1>13, <1>17, <2>1, <2>3 DEF Evaluation!ReviewSaved
  <2> QED
    BY <2>2, <2>3
<1>18. CASE Evaluation!RecordRemoved(c, others)
  <2>1. asked.op = "remove"
    BY <1>5, <1>18 DEF Evaluation!RecordRemoved
  <2>2. PICK first, at, here : /\ first = Evaluation!First /\ here = Evaluation!Here
                               /\ at = Evaluation!FirstPlace("history")
    OBVIOUS
  <2>3. PICK r : /\ r = [Evaluation!Request("list") EXCEPT !.place = here]
                 /\ EvalCall \subseteq DOMAIN r /\ r.op = "list" /\ r.item \in EvalItems
    BY EvalLists
  <2>4. \/ /\ ui' = [freed EXCEPT !.deleting = none, !.target = first, !.loading = TRUE,
                                  !.failed = FALSE, !.rows = none, !.of = at]
           /\ requests' = (others \ Evaluation!Lists) \union {r}
        \/ ui' = [freed EXCEPT !.failed = TRUE] /\ requests' = others
    BY <1>8, <1>9, <1>18, <2>2, <2>3 DEF Evaluation!RecordRemoved
  <2>5. /\ EvalScreen \subseteq DOMAIN ui' /\ ui'.form = freed.form /\ ui'.saved = freed.saved
        /\ ui'.record = freed.record /\ ui'.rows \in {none, freed.rows}
        /\ ui'.deleting \in {none, freed.deleting} /\ ui'.overwritten = freed.overwritten
    BY <1>10, <2>4, ZenonT(30) DEF EvalScreen
  <2>6. EvalShown(ui')
    BY <1>11, <2>5 DEF EvalShown
  <2>7. \A d \in requests' : d \in requests \ {asked} \/ d = r
    BY <1>2, <2>4
  <2> QED
    BY <1>4, <2>1, <2>3, <2>6, <2>7, EvalEnds
<1> QED
  BY <1>3, <1>12, <1>14, <1>15, <1>16, <1>17, <1>18

\* The page opens with nothing saved and nothing asked for.
LEMMA EvalStarts == Evaluation!Init => EvalInv
<1> SUFFICES ASSUME Evaluation!Init PROVE EvalInv
  OBVIOUS
<1>1. PICK none \in EvalItems :
        /\ none = Evaluation!Nothing
        /\ \A kind \in Evaluation!Kinds : none.runs[kind] = "none"
  BY EvalNothing
<1>2. PICK questions \in [LibraryQuestions -> EvalItems] :
        questions = [n \in LibraryQuestions |-> none]
  OBVIOUS
<1>3. PICK places, first, at :
        /\ places = [tab \in Evaluation!Libraries |-> Evaluation!FirstPlace(tab)]
        /\ first = Evaluation!First /\ at = Evaluation!FirstPlace("history")
  OBVIOUS
<1>4. /\ server = [questions |-> questions, gone |-> {}, evaluation |-> none,
                   deleted |-> FALSE, others |-> 0, careless |-> FALSE]
      /\ ui = [tab |-> "evaluation", form |-> "a", dirty |-> FALSE, question |-> first,
               saved |-> none, record |-> none, edited |-> FALSE, busy |-> FALSE,
               confirm |-> "", places |-> places, rows |-> none, of |-> at,
               loading |-> FALSE, failed |-> FALSE, deleting |-> none, target |-> first,
               overwritten |-> FALSE]
      /\ requests = {}
  BY <1>1, <1>2, <1>3 DEF Evaluation!Init
<1>5. EvalServer(server)
  BY <1>4 DEF EvalServer
<1>6. EvalShown(ui)
  BY <1>1, <1>4 DEF EvalShown, EvalScreen, Evaluation!Texts
<1> QED
  BY <1>4, <1>5, <1>6 DEF EvalInv

\* Every step of the page keeps its invariant.
LEMMA EvalKeeps ==
  ASSUME EvalInv, Evaluation!Next
  PROVE  EvalInv'
  BY EvalTypes, EvalTurns, EvalSends, EvalServed, EvalOthers, EvalHears DEF Evaluation!Next

(* What is typed survives the answers to what was asked before it was      *)
(* typed (Health.tsx, QueryEvaluation.tsx, EvaluationRun.tsx): an edited   *)
(* schedule finds nothing awaited but its own save, and a question or a    *)
(* review takes no input while an operation that could replace it is       *)
(* answered.  Two loads that do replace a schedule are told apart and      *)
(* excepted: under a second operation that Retry started while one still   *)
(* ran, and of a check whose lists failed before its load answered.        *)
THEOREM TypedTextSurvives == PagesSpec => []EditsSurviveReads
<1> DEFINE Inv == /\ page = "health"     => HealthInv
                  /\ page = "evaluation" => EvalInv
<1>1. PagesInit => Inv
  BY HealthStarts, EvalStarts DEF PagesInit
<1>2. Inv /\ [PagesNext]_pagesVars => Inv'
  <2> SUFFICES ASSUME Inv, [PagesNext]_pagesVars PROVE Inv'
    OBVIOUS
  <2>1. CASE PagesNext
    <3>1. page' = page
      BY <2>1 DEF PagesNext
    <3>2. ASSUME page = "health" PROVE HealthInv'
      <4>1. Health!Next
        BY <2>1, <3>2 DEF PagesNext
      <4> QED
        BY <3>2, <4>1, HealthKeeps
    <3>3. ASSUME page = "evaluation" PROVE EvalInv'
      <4>1. Evaluation!Next
        BY <2>1, <3>3 DEF PagesNext
      <4> QED
        BY <3>3, <4>1, EvalKeeps
    <3> QED
      BY <3>1, <3>2, <3>3
  <2>2. CASE UNCHANGED pagesVars
    <3>1. page' = page /\ ui' = ui /\ requests' = requests /\ server' = server
      BY <2>2 DEF pagesVars
    <3>2. HealthInv => HealthInv'
      BY <3>1 DEF HealthInv, Health!TypeOK, HealthLock
    <3>3. EvalInv => EvalInv'
      BY <3>1 DEF EvalInv, EvalShown, EvalServer, EvalAsked
    <3> QED
      BY <3>1, <3>2, <3>3
  <2> QED
    BY <2>1, <2>2
<1>3. Inv => EditsSurviveReads
  BY DEF HealthInv, EvalInv, EvalShown, EditsSurviveReads, Health!EditsSurviveReads,
    Evaluation!EditsSurviveReads
<1> QED
  BY <1>1, <1>2, <1>3, PTL DEF PagesSpec

(***************************************************************************)
(* The drawer that explores a source                                       *)
(***************************************************************************)
ExplorerScreen == {"open", "agent", "object", "text", "last", "busy", "result"}
ExplorerCall == {"question", "of", "cursor", "aborted", "stage"}

\* The question is the one that the inputs of the screen ask; a query that was run is
\* the one whose text is remembered for its next page.
AskedByScreen(q, u) ==
  \/ q = Explorer!Run(u.agent, u.text) /\ u.last = u.text
  \/ q = Explorer!Asked(u.agent, u.object)

\* A request that was not aborted keeps the drawer open and locked, so that the inputs it
\* was asked with are still those on screen.
ExplorerInv ==
  /\ ExplorerScreen \subseteq DOMAIN ui
  /\ \A c \in requests : ExplorerCall \subseteq DOMAIN c
  /\ ui.result.shown => ui.open /\ AskedByScreen(ui.result.question, ui)
  /\ \A c \in requests : ~c.aborted =>
       /\ ui.open /\ ui.busy /\ AskedByScreen(c.question, ui)
       /\ c.cursor => c.of = c.question

\* What a question holds, and that nothing shown is no answer.
LEMMA ExplorerQuestions ==
  /\ \A agent, object, r :
       r = Explorer!Asked(agent, object) =>
         r.agent = agent /\ r.run = FALSE /\ r.object = object
  /\ \A agent, text, r :
       r = Explorer!Run(agent, text) => r.agent = agent /\ r.run = TRUE /\ r.text = text
  /\ Explorer!NoResult.shown = FALSE
<1>1. PICK q : q = [run |-> FALSE, agent |-> 0, object |-> 0, text |-> 0]
  OBVIOUS
<1>2. q = Explorer!NoQuestion
  BY <1>1 DEF Explorer!NoQuestion
<1>3. ASSUME NEW agent, NEW object, NEW r, r = Explorer!Asked(agent, object)
      PROVE  r.agent = agent /\ r.run = FALSE /\ r.object = object
  <2>1. r = [q EXCEPT !.agent = agent, !.object = object]
    BY <1>2, <1>3 DEF Explorer!Asked
  <2> QED
    BY <1>1, <2>1
<1>4. ASSUME NEW agent, NEW text, NEW r, r = Explorer!Run(agent, text)
      PROVE  r.agent = agent /\ r.run = TRUE /\ r.text = text
  <2>1. r = [q EXCEPT !.run = TRUE, !.agent = agent, !.text = text]
    BY <1>2, <1>4 DEF Explorer!Run
  <2> QED
    BY <1>1, <2>1
<1>5. Explorer!NoResult.shown = FALSE
  BY DEF Explorer!NoResult
<1> QED
  BY <1>3, <1>4, <1>5

\* Requests of which none is live: those there were, aborted.
LEMMA AbortedAreAborted ==
  ASSUME ExplorerInv, NEW c \in Explorer!Aborted(requests)
  PROVE  ExplorerCall \subseteq DOMAIN c /\ c.aborted
  BY DEF ExplorerInv, ExplorerCall, Explorer!Aborted

\* A new request is the only live one.
LEMMA ExplorerRequests ==
  ASSUME ExplorerInv, NEW u, NEW question, NEW cursor \in BOOLEAN,
         ExplorerScreen \subseteq DOMAIN u, u.open,
         AskedByScreen(question, u), cursor => ui.result.question = question,
         Explorer!Request(u, question, cursor)
  PROVE  ExplorerInv'
<1>1. PICK none : none = Explorer!NoResult /\ ui' = [u EXCEPT !.busy = TRUE, !.result = none]
  BY DEF Explorer!Request
<1>2. none.shown = FALSE
  BY <1>1, ExplorerQuestions
<1>3. /\ ExplorerScreen \subseteq DOMAIN ui' /\ ui'.result.shown = FALSE
      /\ ui'.open /\ ui'.busy
      /\ ui'.agent = u.agent /\ ui'.text = u.text /\ ui'.object = u.object /\ ui'.last = u.last
  BY <1>1, <1>2 DEF ExplorerScreen
<1>4. PICK of, c : /\ c = [question |-> question, cursor |-> cursor, aborted |-> FALSE,
                           stage |-> "sent", of |-> of]
                   /\ of = (IF cursor THEN ui.result.question ELSE Explorer!NoQuestion)
                   /\ requests' = Explorer!Aborted(requests) \union {c}
  BY DEF Explorer!Request
<1>5. /\ ExplorerCall \subseteq DOMAIN c /\ c.question = question /\ c.cursor = cursor
      /\ c.of = of
  BY <1>4 DEF ExplorerCall
<1>6. AskedByScreen(question, ui')
  BY <1>3 DEF AskedByScreen
<1>7. c.cursor => c.of = c.question
  BY <1>4, <1>5
<1>8. \A d \in requests' : d = c \/ (ExplorerCall \subseteq DOMAIN d /\ d.aborted)
  BY <1>4, AbortedAreAborted
<1> QED
  BY <1>3, <1>5, <1>6, <1>7, <1>8 DEF ExplorerInv

\* While the drawer is free nothing is in flight that is not aborted.
LEMMA ExplorerFree ==
  ASSUME ExplorerInv, Explorer!Exploring
  PROVE  ui.open /\ ~ui.busy /\ \A c \in requests : c.aborted
  BY DEF ExplorerInv, Explorer!Exploring

\* An input that is changed, the drawer closed and opened.
LEMMA ExplorerEdited ==
  ASSUME ExplorerInv,
         \/ Explorer!ChooseIdentity \/ Explorer!ChooseObject \/ Explorer!ChangeQuery
         \/ Explorer!CancelQuery \/ Explorer!CloseDetails \/ Explorer!OpenDetails
  PROVE  ExplorerInv'
<1>0. PICK none : none = Explorer!NoResult
  OBVIOUS
<1>1. none.shown = FALSE
  BY <1>0, ExplorerQuestions
<1>2. ASSUME ExplorerScreen \subseteq DOMAIN ui', ui'.result.shown = FALSE,
             \A c \in requests' : ExplorerCall \subseteq DOMAIN c /\ c.aborted
      PROVE  ExplorerInv'
  BY <1>2 DEF ExplorerInv
<1>3. CASE Explorer!ChooseIdentity \/ Explorer!ChooseObject \/ Explorer!ChangeQuery
  <2>1. requests' = requests /\ \A c \in requests : c.aborted
    BY <1>3, ExplorerFree
    DEF Explorer!ChooseIdentity, Explorer!ChooseObject, Explorer!ChangeQuery
  <2>2. PICK a : \/ ui' = [ui EXCEPT !.agent = a, !.result = none]
                 \/ ui' = [ui EXCEPT !.object = a, !.result = none]
                 \/ ui' = [ui EXCEPT !.text = a, !.result = none]
    BY <1>0, <1>3 DEF Explorer!ChooseIdentity, Explorer!ChooseObject, Explorer!ChangeQuery
  <2>3. ExplorerScreen \subseteq DOMAIN ui' /\ ui'.result.shown = FALSE
    BY <1>1, <2>2 DEF ExplorerInv, ExplorerScreen
  <2> QED
    BY <1>2, <2>1, <2>3 DEF ExplorerInv
<1>4. CASE Explorer!CancelQuery
  <2>1. ui' = ui /\ requests' = Explorer!Aborted(requests)
    BY <1>4 DEF Explorer!CancelQuery
  <2> QED
    BY <2>1, AbortedAreAborted DEF ExplorerInv
<1>5. CASE Explorer!CloseDetails
  <2>1. /\ ui' = [ui EXCEPT !.open = FALSE, !.busy = FALSE, !.result = none]
        /\ requests' = Explorer!Aborted(requests)
    BY <1>0, <1>5 DEF Explorer!CloseDetails
  <2>2. ExplorerScreen \subseteq DOMAIN ui' /\ ui'.result.shown = FALSE
    BY <1>1, <2>1 DEF ExplorerInv, ExplorerScreen
  <2> QED
    BY <1>2, <2>1, <2>2, AbortedAreAborted
<1>6. CASE Explorer!OpenDetails
  <2>1. PICK agent : ui' = [ui EXCEPT !.open = TRUE, !.agent = agent, !.object = 0, !.text = 0,
                                      !.last = 0]
    BY <1>6 DEF Explorer!OpenDetails
  <2>2. requests' = {} /\ ~ui.open
    BY <1>6 DEF Explorer!OpenDetails
  <2>3. ~ui.result.shown
    BY <2>2 DEF ExplorerInv
  <2>4. ExplorerScreen \subseteq DOMAIN ui' /\ ui'.result = ui.result
    BY <2>1 DEF ExplorerInv, ExplorerScreen
  <2> QED
    BY <2>2, <2>3, <2>4 DEF ExplorerInv
<1> QED
  BY <1>3, <1>4, <1>5, <1>6

\* What the screen asks.
LEMMA ExplorerAsks ==
  ASSUME ExplorerInv,
         Explorer!Discover \/ Explorer!DiscoverRow \/ Explorer!RunQuery \/ Explorer!NextPage
  PROVE  ExplorerInv'
<1>1. CASE Explorer!Discover
  <2>1. Explorer!Request(ui, Explorer!Asked(ui.agent, ui.object), FALSE) /\ ui.open
    BY <1>1, ExplorerFree DEF Explorer!Discover
  <2> QED
    BY <2>1, ExplorerRequests DEF ExplorerInv, AskedByScreen
<1>2. CASE Explorer!DiscoverRow
  <2>1. PICK object, u : /\ u = [ui EXCEPT !.object = object]
                         /\ Explorer!Request(u, Explorer!Asked(ui.agent, object), FALSE)
    BY <1>2 DEF Explorer!DiscoverRow
  <2>2. ExplorerScreen \subseteq DOMAIN u /\ u.open /\ u.agent = ui.agent /\ u.object = object
    BY <1>2, <2>1, ExplorerFree DEF ExplorerInv, ExplorerScreen, Explorer!DiscoverRow
  <2> QED
    BY <2>1, <2>2, ExplorerRequests DEF AskedByScreen
<1>3. CASE Explorer!RunQuery
  <2>1. PICK u : /\ u = [ui EXCEPT !.last = ui.text]
                 /\ Explorer!Request(u, Explorer!Run(ui.agent, ui.text), FALSE)
    BY <1>3 DEF Explorer!RunQuery
  <2>2. /\ ExplorerScreen \subseteq DOMAIN u /\ u.open /\ u.agent = ui.agent
        /\ u.text = ui.text /\ u.last = ui.text
    BY <1>3, <2>1, ExplorerFree DEF ExplorerInv, ExplorerScreen, Explorer!RunQuery
  <2> QED
    BY <2>1, <2>2, ExplorerRequests DEF AskedByScreen
<1>4. CASE Explorer!NextPage
  <2>1. PICK q : q = ui.result.question
    OBVIOUS
  <2>2. /\ AskedByScreen(q, ui) /\ ui.open
        /\ Explorer!Request(ui, IF q.run THEN Explorer!Run(ui.agent, ui.last)
                                ELSE Explorer!Asked(ui.agent, ui.object), TRUE)
    BY <1>4, <2>1, ExplorerFree DEF ExplorerInv, Explorer!NextPage
  <2>3. CASE q = Explorer!Run(ui.agent, ui.text) /\ ui.last = ui.text
    <3>0. q.run = TRUE /\ q = Explorer!Run(ui.agent, ui.last)
      BY <2>3, ExplorerQuestions
    <3>1. Explorer!Request(ui, q, TRUE)
      BY <2>2, <3>0
    <3> QED
      BY <2>1, <2>2, <3>1, ExplorerRequests DEF ExplorerInv
  <2>4. CASE q = Explorer!Asked(ui.agent, ui.object)
    <3>0. q.run = FALSE
      BY <2>4, ExplorerQuestions
    <3>1. Explorer!Request(ui, q, TRUE)
      BY <2>2, <2>4, <3>0
    <3> QED
      BY <2>1, <2>2, <3>1, ExplorerRequests DEF ExplorerInv
  <2> QED
    BY <2>2, <2>3, <2>4 DEF AskedByScreen
<1> QED
  BY <1>1, <1>2, <1>3, <1>4

\* What the source answers, and what the drawer does with it.
LEMMA ExplorerHears ==
  ASSUME ExplorerInv, Explorer!Serve \/ Explorer!ResultArrives
  PROVE  ExplorerInv'
<1>1. CASE Explorer!Serve
  <2>1. PICK c \in requests, s \in {"ok", "failed"} :
          requests' = (requests \ {c}) \union {[c EXCEPT !.stage = s]}
    BY <1>1 DEF Explorer!Serve
  <2>2. PICK d : d = [c EXCEPT !.stage = s] /\ requests' = (requests \ {c}) \union {d}
    BY <2>1
  <2>3. /\ ExplorerCall \subseteq DOMAIN d /\ d.question = c.question /\ d.of = c.of
        /\ d.cursor = c.cursor /\ d.aborted = c.aborted
    BY <2>2 DEF ExplorerInv, ExplorerCall
  <2>4. ui' = ui
    BY <1>1 DEF Explorer!Serve
  <2>5. \A e \in requests' : e \in requests \/ e = d
    BY <2>2
  <2> QED
    BY <2>3, <2>4, <2>5 DEF ExplorerInv
<1>2. CASE Explorer!ResultArrives
  <2>0. PICK c \in requests : \E u :
          /\ c.stage # "sent" \/ c.aborted
          /\ requests' = requests \ {c}
          /\ u = (IF ui.open /\ (\A d \in requests \ {c} : d.aborted)
                    THEN [ui EXCEPT !.busy = FALSE] ELSE ui)
          /\ IF c.stage = "ok" /\ ~c.aborted
               THEN \E more \in BOOLEAN :
                      ui' = [u EXCEPT !.result = [shown |-> TRUE, question |-> c.question,
                                                  more |-> more]]
               ELSE ui' = u
    BY <1>2 DEF Explorer!ResultArrives
  <2>1. PICK u :
          /\ c.stage # "sent" \/ c.aborted
          /\ requests' = requests \ {c}
          /\ u = (IF ui.open /\ (\A d \in requests \ {c} : d.aborted)
                    THEN [ui EXCEPT !.busy = FALSE] ELSE ui)
          /\ IF c.stage = "ok" /\ ~c.aborted
               THEN \E more \in BOOLEAN :
                      ui' = [u EXCEPT !.result = [shown |-> TRUE, question |-> c.question,
                                                  more |-> more]]
               ELSE ui' = u
    BY <2>0
  <2>2. /\ ExplorerScreen \subseteq DOMAIN u /\ u.open = ui.open /\ u.agent = ui.agent
        /\ u.text = ui.text /\ u.object = ui.object /\ u.last = ui.last
        /\ u.result = ui.result
        /\ (\A d \in requests \ {c} : d.aborted) \/ u.busy = ui.busy
    BY <2>1 DEF ExplorerInv, ExplorerScreen
  <2>3. CASE c.stage = "ok" /\ ~c.aborted
    <3>1. PICK more, r : /\ r = [shown |-> TRUE, question |-> c.question, more |-> more]
                         /\ ui' = [u EXCEPT !.result = r]
      BY <2>1, <2>3
    <3>2. r.shown = TRUE /\ r.question = c.question
      BY <3>1
    <3>3. /\ ExplorerScreen \subseteq DOMAIN ui' /\ ui'.open = ui.open /\ ui'.agent = ui.agent
          /\ ui'.text = ui.text /\ ui'.object = ui.object /\ ui'.last = ui.last
          /\ ui'.result = r /\ ui'.busy = u.busy
      BY <2>2, <3>1 DEF ExplorerScreen
    <3>4. ui.open /\ AskedByScreen(c.question, ui)
      BY <2>3 DEF ExplorerInv
    <3> QED
      BY <2>1, <2>2, <3>2, <3>3, <3>4 DEF ExplorerInv, AskedByScreen
  <2>4. CASE ~(c.stage = "ok" /\ ~c.aborted)
    <3>1. ui' = u
      BY <2>1, <2>4
    <3> QED
      BY <2>1, <2>2, <3>1 DEF ExplorerInv, AskedByScreen
  <2> QED
    BY <2>3, <2>4
<1> QED
  BY <1>1, <1>2

LEMMA ExplorerStarts == Explorer!Init => ExplorerInv
<1> SUFFICES ASSUME Explorer!Init PROVE ExplorerInv
  OBVIOUS
<1>1. PICK agent, none :
        /\ none = Explorer!NoResult /\ requests = {}
        /\ ui = [open |-> TRUE, agent |-> agent, object |-> 0, text |-> 0, last |-> 0,
                 busy |-> FALSE, result |-> none]
  BY DEF Explorer!Init
<1>2. none.shown = FALSE
  BY <1>1, ExplorerQuestions
<1> QED
  BY <1>1, <1>2 DEF ExplorerInv, ExplorerScreen

LEMMA ExplorerKeeps ==
  ASSUME ExplorerInv, Explorer!Next \/ UNCHANGED <<ui, requests>>
  PROVE  ExplorerInv'
<1>1. CASE UNCHANGED <<ui, requests>>
  BY <1>1 DEF ExplorerInv
<1>2. CASE Explorer!Next
  BY <1>2, ExplorerEdited, ExplorerAsks, ExplorerHears DEF Explorer!Next
<1> QED
  BY <1>1, <1>2

\* The invariant gives the property.
LEMMA ExplorerMatches == ExplorerInv => Explorer!AnswersMatchTheScreen
<1> SUFFICES ASSUME ExplorerInv PROVE Explorer!AnswersMatchTheScreen
  OBVIOUS
<1>1. PICK q : q = ui.result.question
  OBVIOUS
<1>2. ASSUME ui.result.shown
      PROVE  /\ ui.open /\ q.agent = ui.agent
             /\ IF q.run THEN q.text = ui.text ELSE q.object = ui.object
  <2>1. ui.open /\ AskedByScreen(q, ui)
    BY <1>1, <1>2 DEF ExplorerInv
  <2>2. CASE q = Explorer!Run(ui.agent, ui.text)
    <3>1. q.run = TRUE /\ q.text = ui.text /\ q.agent = ui.agent
      BY <2>2, ExplorerQuestions
    <3> QED
      BY <2>1, <3>1
  <2>3. CASE q = Explorer!Asked(ui.agent, ui.object)
    <3>1. q.run = FALSE /\ q.object = ui.object /\ q.agent = ui.agent
      BY <2>3, ExplorerQuestions
    <3> QED
      BY <2>1, <3>1
  <2> QED
    BY <2>1, <2>2, <2>3 DEF AskedByScreen
<1>3. \A c \in requests : (c.cursor /\ ~c.aborted) => c.of = c.question
  BY DEF ExplorerInv
<1> QED
  BY <1>1, <1>2, <1>3 DEF Explorer!AnswersMatchTheScreen

(***************************************************************************)
(* The mapping tab                                                         *)
(***************************************************************************)
MappingScreen == {"state", "binding", "version"}
MappingCall == {"op", "pin", "stage"}

\* A version asked for is the one now pinned: another pin drops the question.
MappingOf(u, asks) ==
  /\ MappingScreen \subseteq DOMAIN u
  /\ u.version \in {"none", u.binding.pin}
  /\ \A c \in asks : /\ MappingCall \subseteq DOMAIN c
                     /\ c.op = "version" => c.pin = u.binding.pin
MappingInv == MappingOf(ui, requests)

\* What a request that is sent says.
LEMMA MappingRequests ==
  \A op, revision, binding, r :
    r = Mapping!Request(op, revision, binding) =>
      r.op = op /\ MappingCall \subseteq DOMAIN r
<1> SUFFICES ASSUME NEW op, NEW revision, NEW binding, NEW r,
                    r = Mapping!Request(op, revision, binding)
             PROVE  r.op = op /\ MappingCall \subseteq DOMAIN r
  OBVIOUS
<1>1. PICK state, mapping :
        r = [op |-> op, stage |-> "sent", pin |-> "none", index |-> 0, mapping |-> mapping,
             state |-> state]
  BY DEF Mapping!Request
<1> QED
  BY <1>1 DEF MappingCall

\* The binding, and with another pin its version, are replaced.
LEMMA MappingRebinds ==
  ASSUME NEW u, NEW binding, NEW others, MappingOf(u, others),
         Mapping!Rebind(u, binding, others)
  PROVE  MappingInv'
<1>1. PICK v : v = [u EXCEPT !.binding = binding]
  OBVIOUS
<1>2. MappingScreen \subseteq DOMAIN v /\ v.binding = binding /\ v.version = u.version
  BY <1>1 DEF MappingOf, MappingScreen
<1>3. CASE binding.pin = u.binding.pin
  <2>1. ui' = v /\ requests' = others
    BY <1>1, <1>3 DEF Mapping!Rebind
  <2> QED
    BY <1>2, <1>3, <2>1 DEF MappingOf, MappingInv
<1>4. CASE binding.pin # u.binding.pin
  <2>1. PICK p, q : /\ p = Mapping!Plain("version") /\ q = [p EXCEPT !.pin = binding.pin]
                    /\ ui' = [v EXCEPT !.version = "none"]
                    /\ \A c \in requests' : (c \in others /\ c.op # "version") \/ c = q
    BY <1>1, <1>4 DEF Mapping!Rebind, Mapping!Pinned
  <2>2. MappingCall \subseteq DOMAIN p
    BY <2>1, MappingRequests DEF Mapping!Plain
  <2>3. MappingCall \subseteq DOMAIN q /\ q.pin = binding.pin
    BY <2>1, <2>2 DEF MappingCall
  <2>4. MappingScreen \subseteq DOMAIN ui' /\ ui'.binding = binding /\ ui'.version = "none"
    BY <1>2, <2>1 DEF MappingScreen
  <2> QED
    BY <2>1, <2>3, <2>4 DEF MappingOf, MappingInv
<1> QED
  BY <1>3, <1>4

\* The screen keeps its binding, and what is new in flight asks for no version.
LEMMA MappingStays ==
  ASSUME MappingInv, MappingScreen \subseteq DOMAIN ui', ui'.binding = ui.binding,
         ui'.version = ui.version,
         \A c \in requests' : c \in requests \/ (MappingCall \subseteq DOMAIN c /\ c.op # "version")
  PROVE  MappingInv'
  BY DEF MappingInv, MappingOf

\* A request that is added to those in flight.
LEMMA MappingSends ==
  ASSUME MappingInv, NEW op, op # "version", NEW revision, NEW binding, NEW p, NEW c,
         p = Mapping!Request(op, revision, binding),
         \/ c = p
         \/ \E pin : c = [p EXCEPT !.pin = pin]
         \/ \E i, m : c = [p EXCEPT !.index = i, !.mapping = m],
         Mapping!Ask(c),
         \/ ui' = [ui EXCEPT !.pageBusy = TRUE] \/ ui' = [ui EXCEPT !.busy = TRUE]
         \/ ui' = [ui EXCEPT !.form.saving = TRUE]
  PROVE  MappingInv'
<1>1. p.op = op /\ MappingCall \subseteq DOMAIN p
  BY MappingRequests
<1>2. MappingCall \subseteq DOMAIN c /\ c.op # "version"
  BY <1>1 DEF MappingCall
<1>3. MappingScreen \subseteq DOMAIN ui' /\ ui'.binding = ui.binding /\ ui'.version = ui.version
  BY DEF MappingInv, MappingOf, MappingScreen
<1>4. requests' = requests \union {c}
  BY DEF Mapping!Ask
<1> QED
  BY <1>2, <1>3, <1>4, MappingStays

LEMMA MappingAsks ==
  ASSUME MappingInv,
         \/ Mapping!Refresh \/ Mapping!SaveBinding \/ Mapping!CheckStructure
         \/ Mapping!CompareVersions \/ Mapping!SaveMapping \/ Mapping!ConfirmRemove
  PROVE  MappingInv'
<1>1. CASE Mapping!Refresh
  <2>1. Mapping!Ask(Mapping!Plain("refresh")) /\ ui' = [ui EXCEPT !.pageBusy = TRUE]
    BY <1>1 DEF Mapping!Refresh
  <2> QED
    BY <2>1, MappingSends DEF Mapping!Plain
<1>2. CASE Mapping!CompareVersions
  <2>1. Mapping!Ask(Mapping!Plain("diff")) /\ ui' = [ui EXCEPT !.busy = TRUE]
    BY <1>2 DEF Mapping!CompareVersions, Mapping!Act
  <2> QED
    BY <2>1, MappingSends DEF Mapping!Plain
<1>3. CASE Mapping!CheckStructure
  <2>1. PICK p : /\ p = Mapping!Request("check", ui.state.revision, Mapping!Unbound)
                 /\ Mapping!Ask(p) /\ ui' = [ui EXCEPT !.busy = TRUE]
    BY <1>3 DEF Mapping!CheckStructure, Mapping!Act
  <2> QED
    BY <2>1, MappingSends
<1>4. CASE Mapping!SaveBinding
  <2>1. PICK p, pin : /\ p = Mapping!Request("save", ui.state.revision, ui.binding)
                      /\ Mapping!Ask([p EXCEPT !.pin = pin])
                      /\ ui' = [ui EXCEPT !.busy = TRUE]
    BY <1>4 DEF Mapping!SaveBinding, Mapping!Act
  <2> QED
    BY <2>1, MappingSends
<1>5. CASE Mapping!SaveMapping
  <2>1. PICK binding : binding = [ui.binding EXCEPT !.rows =
                                    Mapping!Placed(@, ui.form.index, ui.form.origin)]
    OBVIOUS
  <2>2. PICK p, i, m : /\ p = Mapping!Request("row", ui.state.revision, binding)
                       /\ Mapping!Ask([p EXCEPT !.index = i, !.mapping = m])
                       /\ ui' = [ui EXCEPT !.form.saving = TRUE]
    BY <1>5, <2>1 DEF Mapping!SaveMapping
  <2> QED
    BY <2>2, MappingSends
<1>6. CASE Mapping!ConfirmRemove
  <2>1. PICK binding : binding = [ui.binding EXCEPT !.rows = Mapping!Without(@, ui.index)]
    OBVIOUS
  <2>2. PICK p, i, m : /\ p = Mapping!Request("remove", ui.state.revision, binding)
                       /\ Mapping!Ask([p EXCEPT !.index = i, !.mapping = m])
                       /\ ui' = [ui EXCEPT !.busy = TRUE]
    BY <1>6, <2>1 DEF Mapping!ConfirmRemove, Mapping!Act
  <2> QED
    BY <2>2, MappingSends
<1> QED
  BY <1>1, <1>2, <1>3, <1>4, <1>5, <1>6

\* A dialog or the form opens or closes.
LEMMA MappingDialogs ==
  ASSUME MappingInv,
         Mapping!OpenMapping \/ Mapping!CloseMapping \/ Mapping!AskRemove \/ Mapping!CloseDialog
  PROVE  MappingInv'
<1>1. requests' = requests
  BY DEF Mapping!OpenMapping, Mapping!CloseMapping, Mapping!AskRemove, Mapping!CloseDialog
<1>2. PICK a, b, d : \/ ui' = [ui EXCEPT !.form = a]
                     \/ ui' = [ui EXCEPT !.dialog = d, !.index = a, !.picked = b]
  BY DEF Mapping!OpenMapping, Mapping!CloseMapping, Mapping!AskRemove, Mapping!CloseDialog
<1>3. MappingScreen \subseteq DOMAIN ui' /\ ui'.binding = ui.binding /\ ui'.version = ui.version
  BY <1>2 DEF MappingInv, MappingOf, MappingScreen
<1> QED
  BY <1>1, <1>3, MappingStays

\* The binding is chosen or reverted.
LEMMA MappingChosen ==
  ASSUME MappingInv, Mapping!ChooseOntology \/ Mapping!ChooseVersion \/ Mapping!RevertBinding
  PROVE  MappingInv'
<1>1. PICK binding : Mapping!Rebind(ui, binding, requests)
  BY DEF Mapping!ChooseOntology, Mapping!ChooseVersion, Mapping!RevertBinding
<1> QED
  BY <1>1, MappingRebinds DEF MappingInv

LEMMA MappingServes ==
  ASSUME MappingInv, Mapping!Serve
  PROVE  MappingInv'
<1>0. PICK c \in requests : \E state : Mapping!Answer(c, "ok", state) /\ ui' = ui
  BY DEF Mapping!Serve, Mapping!ServeSave, Mapping!ServeRead
<1>1. PICK state : Mapping!Answer(c, "ok", state) /\ ui' = ui
  BY <1>0
<1>2. PICK d, m, pin :
         /\ d = [c EXCEPT !.stage = "ok", !.state = state, !.mapping = m, !.index = 0,
                          !.pin = pin]
         /\ c.op = "version" => pin = c.pin
         /\ requests' = (requests \ {c}) \union {d}
  BY <1>1 DEF Mapping!Answer
<1>3. MappingCall \subseteq DOMAIN c
  BY DEF MappingInv, MappingOf
<1>4. MappingCall \subseteq DOMAIN d /\ d.op = c.op /\ d.pin = pin
  BY <1>2, <1>3 DEF MappingCall
<1>5. \A e \in requests' : e \in requests \/ e = d
  BY <1>2
<1>6. c.op = "version" => c.pin = ui.binding.pin
  BY DEF MappingInv, MappingOf
<1>7. ui' = ui
  BY <1>1
<1> QED
  BY <1>2, <1>4, <1>5, <1>6, <1>7 DEF MappingInv, MappingOf

LEMMA MappingHears ==
  ASSUME MappingInv, Mapping!Deliver
  PROVE  MappingInv'
<1>0. PICK asked \in requests : \E c \in Mapping!Heard(asked) :
        LET others == requests \ {asked} IN
          \/ Mapping!StateArrives(c, others) \/ Mapping!CheckEnds(c, others)
          \/ Mapping!VersionArrives(c, others) \/ Mapping!DiffArrives(c, others)
  BY DEF Mapping!Deliver
<1>1. PICK c, others :
        /\ c \in Mapping!Heard(asked) /\ others = requests \ {asked}
        /\ \/ Mapping!StateArrives(c, others) \/ Mapping!CheckEnds(c, others)
           \/ Mapping!VersionArrives(c, others) \/ Mapping!DiffArrives(c, others)
  BY <1>0
<1>2. c = asked \/ c = [asked EXCEPT !.stage = "failed"]
  BY <1>1 DEF Mapping!Heard
<1>9. /\ MappingCall \subseteq DOMAIN asked
      /\ asked.op = "version" => asked.pin = ui.binding.pin
  BY DEF MappingInv, MappingOf
<1>3. c.op = asked.op /\ c.pin = asked.pin
  BY <1>9, <1>2 DEF MappingCall
<1>4. \A d \in others : d \in requests
  BY <1>1
<1>5. CASE Mapping!StateArrives(c, others)
  <2>1. PICK u, v :
          /\ \/ u = [ui EXCEPT !.pageBusy = FALSE] \/ u = [ui EXCEPT !.form.saving = FALSE]
             \/ u = [ui EXCEPT !.busy = FALSE]
          /\ \/ v = u
             \/ \E none : v = [u EXCEPT !.form = none]
             \/ \E none : v = [u EXCEPT !.dialog = "", !.index = 0, !.picked = none]
          /\ Mapping!Accept(v, c.state, others) \/ (ui' = v /\ requests' = others)
    BY <1>5 DEF Mapping!StateArrives, Mapping!Ends
  <2>2. MappingScreen \subseteq DOMAIN u /\ u.binding = ui.binding /\ u.version = ui.version
    BY <2>1 DEF MappingInv, MappingOf, MappingScreen
  <2>3. MappingScreen \subseteq DOMAIN v /\ v.binding = ui.binding /\ v.version = ui.version
    BY <2>1, <2>2 DEF MappingScreen
  <2>4. CASE ui' = v /\ requests' = others
    BY <1>4, <2>3, <2>4, MappingStays
  <2>5. CASE Mapping!Accept(v, c.state, others)
    <3>1. PICK w, state : /\ state = c.state /\ w = [v EXCEPT !.state = state]
                          /\ Mapping!Rebind(w, state.binding, others)
      BY <2>5 DEF Mapping!Accept
    <3>2. MappingScreen \subseteq DOMAIN w /\ w.binding = ui.binding /\ w.version = ui.version
      BY <2>3, <3>1 DEF MappingScreen
    <3>3. MappingOf(w, others)
      BY <1>4, <3>2 DEF MappingInv, MappingOf
    <3> QED
      BY <3>1, <3>3, MappingRebinds
  <2> QED
    BY <2>1, <2>4, <2>5
<1>6. CASE Mapping!CheckEnds(c, others)
  <2>1. PICK p : /\ p = Mapping!Plain("reread")
                 /\ \A d \in requests' : d \in others \/ d = p
                 /\ ui' = ui \/ ui' = [ui EXCEPT !.busy = FALSE]
    BY <1>6 DEF Mapping!CheckEnds, Mapping!Ends
  <2>2. p.op # "version" /\ MappingCall \subseteq DOMAIN p
    BY <2>1, MappingRequests DEF Mapping!Plain
  <2>3. MappingScreen \subseteq DOMAIN ui' /\ ui'.binding = ui.binding /\ ui'.version = ui.version
    BY <2>1 DEF MappingInv, MappingOf, MappingScreen
  <2> QED
    BY <1>4, <2>1, <2>2, <2>3, MappingStays
<1>7. CASE Mapping!VersionArrives(c, others)
  <2>1. /\ c.op = "version" /\ requests' = others
        /\ ui' = ui \/ ui' = [ui EXCEPT !.version = c.pin]
    BY <1>7 DEF Mapping!VersionArrives, Mapping!Ends
  <2>2. /\ MappingScreen \subseteq DOMAIN ui' /\ ui'.binding = ui.binding
        /\ ui'.version = ui.version \/ ui'.version = c.pin
    BY <2>1 DEF MappingInv, MappingOf, MappingScreen
  <2>3. c.pin = ui.binding.pin
    BY <1>9, <1>3, <2>1
  <2> QED
    BY <1>4, <2>1, <2>2, <2>3 DEF MappingInv, MappingOf
<1>8. CASE Mapping!DiffArrives(c, others)
  <2>1. PICK d : requests' = others /\ ui' = [ui EXCEPT !.busy = FALSE, !.dialog = d]
    BY <1>8 DEF Mapping!DiffArrives, Mapping!Ends
  <2>2. MappingScreen \subseteq DOMAIN ui' /\ ui'.binding = ui.binding /\ ui'.version = ui.version
    BY <2>1 DEF MappingInv, MappingOf, MappingScreen
  <2> QED
    BY <1>4, <2>1, <2>2, MappingStays
<1> QED
  BY <1>1, <1>5, <1>6, <1>7, <1>8

LEMMA MappingStarts == Mapping!Init => MappingInv
<1> SUFFICES ASSUME Mapping!Init PROVE MappingInv
  OBVIOUS
<1>0. PICK pin \in {"none", "v1"} : \E rows :
        LET state == [revision |-> 0, binding |-> [pin |-> pin, rows |-> rows]] IN
          /\ ui = [state |-> state, binding |-> state.binding, version |-> "none",
                   pageBusy |-> FALSE, busy |-> FALSE, dialog |-> "", index |-> 0,
                   picked |-> Mapping!NoMapping, form |-> Mapping!NoForm]
          /\ requests = IF pin = "none" THEN {}
                        ELSE {[Mapping!Plain("version") EXCEPT !.pin = pin]}
  BY DEF Mapping!Init
<1>1. PICK rows, binding, state, form, picked, p :
        /\ binding = [pin |-> pin, rows |-> rows]
        /\ state = [revision |-> 0, binding |-> binding]
        /\ ui = [state |-> state, binding |-> state.binding, version |-> "none",
                 pageBusy |-> FALSE, busy |-> FALSE, dialog |-> "", index |-> 0,
                 picked |-> picked, form |-> form]
        /\ p = Mapping!Plain("version")
        /\ requests = IF pin = "none" THEN {} ELSE {[p EXCEPT !.pin = pin]}
  BY <1>0
<1>2. MappingCall \subseteq DOMAIN p
  BY <1>1, MappingRequests DEF Mapping!Plain
<1>3. \A c \in requests : MappingCall \subseteq DOMAIN c /\ c.pin = pin
  BY <1>1, <1>2 DEF MappingCall
<1>4. state.binding.pin = pin
  BY <1>1
<1>5. MappingScreen \subseteq DOMAIN ui /\ ui.version = "none" /\ ui.binding = state.binding
  BY <1>1 DEF MappingScreen
<1> QED
  BY <1>3, <1>4, <1>5 DEF MappingInv, MappingOf

LEMMA MappingKeeps ==
  ASSUME MappingInv, Mapping!Next \/ UNCHANGED <<ui, requests>>
  PROVE  MappingInv'
<1>1. CASE UNCHANGED <<ui, requests>> \/ Mapping!OtherAdministratorWrites
  BY <1>1 DEF MappingInv, MappingOf, Mapping!OtherAdministratorWrites
<1>2. CASE Mapping!Next
  BY <1>1, <1>2, MappingAsks, MappingDialogs, MappingChosen, MappingServes, MappingHears
  DEF Mapping!Next
<1> QED
  BY <1>1, <1>2

LEMMA MappingMatches == MappingInv => Mapping!AnswersMatchTheScreen
  BY DEF MappingInv, MappingOf, Mapping!AnswersMatchTheScreen

(***************************************************************************)
(* The page of one query                                                   *)
(***************************************************************************)
QueryScreen == {"view", "agent", "waiting"}
QueryCall == {"op", "agent", "entry", "stage"}

\* Of the domains, and waiting is for what is on screen.
QueryInv ==
  /\ QueryScreen \subseteq DOMAIN ui
  /\ \A c \in requests : QueryCall \subseteq DOMAIN c
  /\ QueryTools!WaitsForWhatIsShown

LEMMA QueryRequests ==
  \A op, u, revision, entry, r :
    r = QueryTools!Request(op, u, revision, entry) =>
      /\ QueryCall \subseteq DOMAIN r
      /\ r.op = op /\ r.agent = u.agent /\ r.entry = entry
<1> SUFFICES ASSUME NEW op, NEW u, NEW revision, NEW entry, NEW r,
                    r = QueryTools!Request(op, u, revision, entry)
             PROVE  /\ QueryCall \subseteq DOMAIN r
                    /\ r.op = op /\ r.agent = u.agent /\ r.entry = entry
  OBVIOUS
<1>1. PICK agent, look, evidence :
        /\ agent = u.agent
        /\ r = [op |-> op, revision |-> revision, entry |-> entry, agent |-> agent,
                stage |-> "sent", view |-> look, evidence |-> evidence]
  BY DEF QueryTools!Request
<1> QED
  BY <1>1 DEF QueryCall

LEMMA QueryReads ==
  \A op, r : r = QueryTools!Read(op) => QueryCall \subseteq DOMAIN r /\ r.op = op
  BY QueryRequests DEF QueryTools!Read

\* What stays in flight of a screen that stays, and nothing waits where none is asked.
LEMMA QueryStay ==
  ASSUME QueryInv, QueryScreen \subseteq DOMAIN ui',
         \A c \in requests' : c \in requests \/ (QueryCall \subseteq DOMAIN c /\ c.op # "poll"),
         \/ /\ ui'.agent = ui.agent /\ ui'.view = ui.view
            /\ ui'.waiting = ui.waiting
         \/ \A c \in requests' : c.op # "poll"
  PROVE  QueryInv'
  BY DEF QueryInv, QueryTools!WaitsForWhatIsShown

\* Another state or Agent on screen.
LEMMA QueryFollow ==
  ASSUME QueryInv, NEW u, NEW others, QueryScreen \subseteq DOMAIN u,
         \A c \in others : c \in requests \/ (QueryCall \subseteq DOMAIN c /\ c.op # "poll"),
         QueryTools!Follow(u, others)
  PROVE  QueryInv'
<1>1. PICK r, revision :
        /\ r = QueryTools!Request("ready", u, revision, 0)
        /\ ui' = IF u.agent = ui.agent /\ u.view.published = ui.view.published THEN u
                 ELSE [u EXCEPT !.waiting = FALSE]
        /\ requests' = {c \in others : c.op \notin {"ready"} \union
                         (IF ui'.waiting THEN {} ELSE {"poll"})} \union {r}
  BY DEF QueryTools!Follow, QueryTools!Readiness
<1>2. QueryCall \subseteq DOMAIN r /\ r.op = "ready"
  BY <1>1, QueryRequests
<1>3. /\ QueryScreen \subseteq DOMAIN ui'
      /\ \/ ui' = u /\ u.agent = ui.agent /\ u.view.published = ui.view.published
         \/ ui'.waiting = FALSE
  BY <1>1 DEF QueryScreen
<1>4. \A c \in requests' : c \in others \/ c = r
  BY <1>1
<1>5. \A c \in requests' : c.op = "poll" =>
        /\ c \in requests /\ ui'.waiting
        /\ ui'.agent = ui.agent /\ ui'.view.published = ui.view.published
  <2> SUFFICES ASSUME NEW c \in requests', c.op = "poll"
               PROVE  /\ c \in requests /\ ui'.waiting
                      /\ ui'.agent = ui.agent /\ ui'.view.published = ui.view.published
    OBVIOUS
  <2>1. c # r
    BY <1>2
  <2>2. c \in requests
    BY <1>4, <2>1
  <2>3. "poll" \notin {"ready"} \union (IF ui'.waiting THEN {} ELSE {"poll"})
    BY <1>1, <2>1
  <2>4. ui'.waiting
    BY <2>3
  <2> QED
    BY <1>3, <2>2, <2>4
<1> QED
  BY <1>2, <1>3, <1>4, <1>5 DEF QueryInv, QueryTools!WaitsForWhatIsShown

\* Steps at which nothing is polled, or the screen is as it was.
LEMMA QueryActs ==
  ASSUME QueryInv,
         \/ QueryTools!ReloadDraft \/ QueryTools!RefreshEvidence \/ QueryTools!OpenEditor
         \/ QueryTools!CancelEditing \/ QueryTools!SaveDraft \/ QueryTools!ReviewServerEntry
         \/ QueryTools!KeepMyEdits \/ QueryTools!RunChecks \/ QueryTools!OpenReview
         \/ QueryTools!CloseReview \/ QueryTools!Publish \/ QueryTools!StopWaiting
  PROVE  QueryInv'
<1>1. CASE \/ QueryTools!ReloadDraft \/ QueryTools!SaveDraft
           \/ QueryTools!ReviewServerEntry \/ QueryTools!Publish
  <2>1. PICK op, u, revision, entry, r :
          /\ op \in {"load", "save", "latest", "publish"}
          /\ r = QueryTools!Request(op, u, revision, entry)
          /\ requests' = requests \union {r}
    BY <1>1
    DEF QueryTools!ReloadDraft, QueryTools!SaveDraft, QueryTools!ReviewServerEntry,
        QueryTools!Publish, QueryTools!Ask, QueryTools!Read, QueryTools!Plain
  <2>2. r.op # "poll" /\ QueryCall \subseteq DOMAIN r
    BY <2>1, QueryRequests
  <2>3. ui' = ui \/ ui' = [ui EXCEPT !.form.saving = TRUE] \/ ui' = [ui EXCEPT !.busy = TRUE]
    BY <1>1
    DEF QueryTools!ReloadDraft, QueryTools!SaveDraft, QueryTools!ReviewServerEntry,
        QueryTools!Publish
  <2>4. /\ QueryScreen \subseteq DOMAIN ui' /\ ui'.agent = ui.agent /\ ui'.view = ui.view
        /\ ui'.waiting = ui.waiting
    BY <2>3 DEF QueryInv, QueryScreen
  <2> QED
    BY <2>1, <2>2, <2>4, QueryStay
<1>2. CASE QueryTools!CancelEditing \/ QueryTools!KeepMyEdits \/ QueryTools!CloseReview
  <2>1. requests' = requests
    BY <1>2 DEF QueryTools!CancelEditing, QueryTools!KeepMyEdits, QueryTools!CloseReview
  <2>2. PICK form : ui' = [ui EXCEPT !.form = form] \/ ui' = [ui EXCEPT !.reviewing = FALSE]
    BY <1>2 DEF QueryTools!CancelEditing, QueryTools!KeepMyEdits, QueryTools!CloseReview
  <2>3. /\ QueryScreen \subseteq DOMAIN ui' /\ ui'.agent = ui.agent /\ ui'.view = ui.view
        /\ ui'.waiting = ui.waiting
    BY <2>2 DEF QueryInv, QueryScreen
  <2> QED
    BY <2>1, <2>3, QueryStay
<1>3. CASE \/ QueryTools!RefreshEvidence \/ QueryTools!OpenEditor \/ QueryTools!RunChecks
           \/ QueryTools!OpenReview \/ QueryTools!StopWaiting
  <2>1. PICK op, u, revision, entry, r :
          /\ op \in {"refresh", "trial"}
          /\ r = QueryTools!Request(op, u, revision, entry)
          /\ \A c \in requests' : (c \in requests /\ c.op # "poll") \/ c = r
    BY <1>3
    DEF QueryTools!RefreshEvidence, QueryTools!OpenEditor, QueryTools!RunChecks,
        QueryTools!OpenReview, QueryTools!StopWaiting, QueryTools!Read, QueryTools!Plain
  <2>2. r.op # "poll" /\ QueryCall \subseteq DOMAIN r
    BY <2>1, QueryRequests
  <2>3. PICK form : \/ ui' = [ui EXCEPT !.busy = TRUE, !.waiting = FALSE]
                    \/ ui' = [ui EXCEPT !.reviewing = FALSE, !.waiting = FALSE, !.form = form]
                    \/ ui' = [ui EXCEPT !.busy = TRUE, !.reviewing = FALSE, !.waiting = FALSE]
                    \/ ui' = [ui EXCEPT !.reviewing = TRUE, !.waiting = FALSE]
                    \/ ui' = [ui EXCEPT !.waiting = FALSE]
    BY <1>3
    DEF QueryTools!RefreshEvidence, QueryTools!OpenEditor, QueryTools!RunChecks,
        QueryTools!OpenReview, QueryTools!StopWaiting
  <2>4. QueryScreen \subseteq DOMAIN ui'
    BY <2>3 DEF QueryInv, QueryScreen
  <2> QED
    BY <2>1, <2>2, <2>4, QueryStay
<1> QED
  BY <1>1, <1>2, <1>3

LEMMA QueryWait ==
  ASSUME QueryInv, QueryTools!WaitForCall
  PROVE  QueryInv'
<1>1. PICK r : /\ r = QueryTools!Request("poll", ui, 0, ui.view.published)
               /\ requests' = requests \union {r}
  BY DEF QueryTools!WaitForCall, QueryTools!Ask
<1>2. /\ QueryCall \subseteq DOMAIN r /\ r.agent = ui.agent
      /\ r.entry = ui.view.published
  BY <1>1, QueryRequests
<1>3. ~ui.waiting /\ ui' = [ui EXCEPT !.waiting = TRUE]
  BY DEF QueryTools!WaitForCall
<1>4. /\ QueryScreen \subseteq DOMAIN ui' /\ ui'.agent = ui.agent /\ ui'.view = ui.view
      /\ ui'.waiting = TRUE
  BY <1>3 DEF QueryInv, QueryScreen
<1>5. \A c \in requests : c.op # "poll"
  BY <1>3 DEF QueryInv, QueryTools!WaitsForWhatIsShown
<1> QED
  BY <1>1, <1>2, <1>4, <1>5 DEF QueryInv, QueryTools!WaitsForWhatIsShown

LEMMA QueryServes ==
  ASSUME QueryInv, QueryTools!Serve
  PROVE  QueryInv'
<1>0. PICK c \in requests : \E stage, look, evidence :
        QueryTools!Answer(c, stage, look, evidence) /\ ui' = ui
  BY DEF QueryTools!Serve, QueryTools!ServeRead, QueryTools!ServeSave, QueryTools!ServeTrial,
         QueryTools!ServePublish, QueryTools!Refuse
<1>1. PICK stage, look, evidence, read, d :
        /\ read = QueryTools!Read(c.op)
        /\ d = [IF c.op = "poll" THEN c ELSE read EXCEPT
                  !.stage = stage, !.view = look, !.evidence = evidence]
        /\ requests' = (requests \ {c}) \union {d}
        /\ ui' = ui
  BY <1>0 DEF QueryTools!Answer
<1>2. QueryCall \subseteq DOMAIN read /\ read.op = c.op
  BY <1>1, QueryReads
<1>3. CASE c.op = "poll"
  <2>1. d = [c EXCEPT !.stage = stage, !.view = look, !.evidence = evidence]
    BY <1>1, <1>3
  <2>2. QueryCall \subseteq DOMAIN d /\ d.op = c.op /\ d.agent = c.agent /\ d.entry = c.entry
    BY <2>1 DEF QueryInv, QueryCall
  <2>3. \A e \in requests' : e = d \/ (e \in requests /\ e.op # "poll")
    BY <1>1, <1>3 DEF QueryInv, QueryTools!WaitsForWhatIsShown
  <2> QED
    BY <1>1, <1>3, <2>2, <2>3 DEF QueryInv, QueryTools!WaitsForWhatIsShown
<1>4. CASE c.op # "poll"
  <2>1. d = [read EXCEPT !.stage = stage, !.view = look, !.evidence = evidence]
    BY <1>1, <1>4
  <2>2. QueryCall \subseteq DOMAIN d /\ d.op # "poll"
    BY <1>2, <1>4, <2>1 DEF QueryCall
  <2> QED
    BY <1>1, <2>2, QueryStay DEF QueryInv
<1> QED
  BY <1>3, <1>4

LEMMA QueryHears ==
  ASSUME QueryInv, QueryTools!Deliver
  PROVE  QueryInv'
<1>0. PICK asked \in requests : \E c \in QueryTools!Heard(asked) :
        LET others == requests \ {asked} IN
          \/ QueryTools!StateArrives(c, others) \/ QueryTools!TrialEnds(c, others)
          \/ QueryTools!SaveEnds(c, others) \/ QueryTools!LatestArrives(c, others)
          \/ QueryTools!PublicationEnds(c, others) \/ QueryTools!ReadinessArrives(c, others)
          \/ QueryTools!PollArrives(c, others)
  BY DEF QueryTools!Deliver
<1>1. PICK c, others :
        /\ c \in QueryTools!Heard(asked) /\ others = requests \ {asked}
        /\ \/ QueryTools!StateArrives(c, others) \/ QueryTools!TrialEnds(c, others)
           \/ QueryTools!SaveEnds(c, others) \/ QueryTools!LatestArrives(c, others)
           \/ QueryTools!PublicationEnds(c, others) \/ QueryTools!ReadinessArrives(c, others)
           \/ QueryTools!PollArrives(c, others)
  BY <1>0
<1>2. c = asked \/ c = [asked EXCEPT !.stage = "failed"]
  BY <1>1 DEF QueryTools!Heard
<1>3. c.op = asked.op /\ c.entry = asked.entry
  BY <1>2 DEF QueryInv, QueryCall
<1>4. \A d \in others : d \in requests
  BY <1>1
<1>5. ASSUME NEW u, NEW look, QueryScreen \subseteq DOMAIN u, QueryTools!NewState(u, look, others)
      PROVE  QueryInv'
  <2>1. PICK v : v = [u EXCEPT !.loaded = TRUE, !.view = look] /\ QueryTools!Follow(v, others)
    BY <1>5 DEF QueryTools!NewState
  <2>2. QueryScreen \subseteq DOMAIN v
    BY <1>5, <2>1 DEF QueryScreen
  <2> QED
    BY <1>4, <2>1, <2>2, QueryFollow
<1>6. ASSUME \A d \in requests' : d \in requests,
             \E a, b : \/ ui' = [ui EXCEPT !.busy = a]
                       \/ ui' = [ui EXCEPT !.busy = a, !.loaded = b]
                       \/ ui' = [ui EXCEPT !.form = a] \/ ui' = [ui EXCEPT !.ready = a]
      PROVE  QueryInv'
  <2>1. PICK a, b : \/ ui' = [ui EXCEPT !.busy = a]
                    \/ ui' = [ui EXCEPT !.busy = a, !.loaded = b]
                    \/ ui' = [ui EXCEPT !.form = a] \/ ui' = [ui EXCEPT !.ready = a]
    BY <1>6
  <2>2. /\ QueryScreen \subseteq DOMAIN ui' /\ ui'.agent = ui.agent /\ ui'.view = ui.view
        /\ ui'.waiting = ui.waiting
    BY <2>1 DEF QueryInv, QueryScreen
  <2> QED
    BY <1>6, <2>2, QueryStay
<1>7. CASE QueryTools!StateArrives(c, others)
  <2>1. PICK busy, u : /\ u = [ui EXCEPT !.busy = busy]
                       /\ CASE c.stage = "ok" -> QueryTools!NewState(u, c.view, others)
                            [] c.stage # "ok" /\ c.op = "reread" ->
                                 /\ ui' = [u EXCEPT !.loaded = FALSE]
                                 /\ requests' = {d \in others : d.op # "ready"}
                            [] OTHER -> ui' = u /\ requests' = others
    BY <1>7 DEF QueryTools!StateArrives
  <2>2. QueryScreen \subseteq DOMAIN u
    BY <2>1 DEF QueryInv, QueryScreen
  <2>3. CASE c.stage = "ok"
    <3>1. QueryTools!NewState(u, c.view, others)
      BY <2>1, <2>3
    <3> QED
      BY <1>5, <2>2, <3>1
  <2>4. CASE c.stage # "ok" /\ c.op = "reread"
    <3>1. ui' = [u EXCEPT !.loaded = FALSE] /\ requests' = {d \in others : d.op # "ready"}
      BY <2>1, <2>4
    <3>2. ui' = [ui EXCEPT !.busy = busy, !.loaded = FALSE]
      BY <2>1, <3>1
    <3> QED
      BY <1>4, <1>6, <3>1, <3>2
  <2>5. CASE c.stage # "ok" /\ c.op # "reread"
    <3>1. ui' = u /\ requests' = others
      BY <2>1, <2>5
    <3> QED
      BY <1>4, <1>6, <2>1, <3>1
  <2> QED
    BY <2>3, <2>4, <2>5
<1>8. CASE QueryTools!TrialEnds(c, others)
  <2>1. PICK r : r = QueryTools!Read("reread") /\ ui' = ui /\ requests' = others \union {r}
    BY <1>8 DEF QueryTools!TrialEnds
  <2>2. QueryCall \subseteq DOMAIN r /\ r.op = "reread"
    BY <2>1, QueryReads
  <2> QED
    BY <1>4, <2>1, <2>2, QueryStay DEF QueryInv
<1>9. CASE QueryTools!SaveEnds(c, others)
  <2>1. CASE c.stage = "ok"
    <3>1. PICK form, u : u = [ui EXCEPT !.form = form] /\ QueryTools!NewState(u, c.view, others)
      BY <1>9, <2>1 DEF QueryTools!SaveEnds
    <3>2. QueryScreen \subseteq DOMAIN u
      BY <3>1 DEF QueryInv, QueryScreen
    <3> QED
      BY <1>5, <3>1, <3>2
  <2>2. CASE c.stage # "ok"
    <3>1. requests' = others /\ ui' = [ui EXCEPT !.form.saving = FALSE,
                                                 !.form.conflict = (c.stage = "conflict")]
      BY <1>9, <2>2 DEF QueryTools!SaveEnds
    <3>2. \E a : ui' = [ui EXCEPT !.form = a]
      BY <3>1
    <3> QED
      BY <1>4, <1>6, <3>1, <3>2
  <2> QED
    BY <2>1, <2>2
<1>10. CASE QueryTools!LatestArrives(c, others)
  <2>1. requests' = others /\ \E a : ui' = [ui EXCEPT !.form = a]
    BY <1>10 DEF QueryTools!LatestArrives
  <2> QED
    BY <1>4, <1>6, <2>1
<1>11. CASE QueryTools!PublicationEnds(c, others)
  <2>1. CASE c.stage = "ok"
    <3>1. PICK u : /\ u = [ui EXCEPT !.busy = FALSE, !.reviewing = FALSE]
                   /\ QueryTools!NewState(u, c.view, others)
      BY <1>11, <2>1 DEF QueryTools!PublicationEnds
    <3>2. QueryScreen \subseteq DOMAIN u
      BY <3>1 DEF QueryInv, QueryScreen
    <3> QED
      BY <1>5, <3>1, <3>2
  <2>2. CASE c.stage # "ok"
    BY <1>4, <1>6, <1>11, <2>2 DEF QueryTools!PublicationEnds
  <2> QED
    BY <2>1, <2>2
<1>12. CASE QueryTools!ReadinessArrives(c, others)
  <2>1. requests' = others /\ \E a : ui' = [ui EXCEPT !.ready = a]
    BY <1>12 DEF QueryTools!ReadinessArrives
  <2> QED
    BY <1>4, <1>6, <2>1
<1>13. CASE QueryTools!PollArrives(c, others)
  <2>1. \A d \in others : d.op # "poll"
    BY <1>1, <1>3, <1>13 DEF QueryInv, QueryTools!WaitsForWhatIsShown, QueryTools!PollArrives
  <2>2. ui.waiting /\ c.entry = ui.view.published
    BY <1>3, <1>13 DEF QueryInv, QueryTools!WaitsForWhatIsShown, QueryTools!PollArrives
  <2>3. CASE c.stage # "ok"
    <3>1. ui' = [ui EXCEPT !.waiting = FALSE] /\ requests' = others
      BY <1>13, <2>3 DEF QueryTools!PollArrives
    <3>2. QueryScreen \subseteq DOMAIN ui'
      BY <3>1 DEF QueryInv, QueryScreen
    <3> QED
      BY <1>4, <2>1, <3>1, <3>2, QueryStay
  <2>4. CASE c.stage = "ok" /\ c.evidence.version # c.entry
    <3>1. PICK r : /\ r = QueryTools!Read("refresh") /\ requests' = others \union {r}
                   /\ ui' = [ui EXCEPT !.waiting = FALSE, !.busy = TRUE]
      BY <1>13, <2>4 DEF QueryTools!PollArrives
    <3>2. QueryCall \subseteq DOMAIN r /\ r.op = "refresh"
      BY <3>1, QueryReads
    <3>3. QueryScreen \subseteq DOMAIN ui'
      BY <3>1 DEF QueryInv, QueryScreen
    <3> QED
      BY <1>4, <2>1, <3>1, <3>2, <3>3, QueryStay
  <2>5. CASE c.stage = "ok" /\ c.evidence.version = c.entry /\ c.evidence.called
    <3>1. PICK u : u = [ui EXCEPT !.waiting = FALSE] /\ QueryTools!Follow(u, others)
      BY <1>13, <2>5 DEF QueryTools!PollArrives
    <3>2. QueryScreen \subseteq DOMAIN u
      BY <3>1 DEF QueryInv, QueryScreen
    <3> QED
      BY <1>4, <3>1, <3>2, QueryFollow
  <2>6. CASE c.stage = "ok" /\ c.evidence.version = c.entry /\ ~c.evidence.called
    <3>1. PICK r : /\ r = QueryTools!Request("poll", ui, 0, c.entry)
                   /\ requests' = others \union {r} /\ ui' = ui
      BY <1>13, <2>6 DEF QueryTools!PollArrives
    <3>2. QueryCall \subseteq DOMAIN r /\ r.agent = ui.agent /\ r.entry = ui.view.published
      BY <2>2, <3>1, QueryRequests
    <3> QED
      BY <1>4, <2>1, <2>2, <3>1, <3>2 DEF QueryInv, QueryTools!WaitsForWhatIsShown
  <2> QED
    BY <2>3, <2>4, <2>5, <2>6
<1> QED
  BY <1>1, <1>7, <1>8, <1>9, <1>10, <1>11, <1>12, <1>13

LEMMA QueryStarts == QueryTools!Init => QueryInv
<1> SUFFICES ASSUME QueryTools!Init PROVE QueryInv
  OBVIOUS
<1>1. PICK r : r = QueryTools!Read("load") /\ requests = {r} /\ ui = QueryTools!Fresh
  BY DEF QueryTools!Init
<1>2. QueryCall \subseteq DOMAIN r /\ r.op = "load"
  BY <1>1, QueryReads
<1>3. QueryScreen \subseteq DOMAIN ui
  BY <1>1 DEF QueryTools!Fresh, QueryScreen
<1> QED
  BY <1>1, <1>2, <1>3 DEF QueryInv, QueryTools!WaitsForWhatIsShown

LEMMA QueryKeeps ==
  ASSUME QueryInv, QueryTools!Next \/ UNCHANGED <<ui, requests>>
  PROVE  QueryInv'
<1>1. CASE \/ UNCHANGED <<ui, requests>> \/ QueryTools!OtherAdministratorWrites
           \/ QueryTools!AgentCalls
  <2>1. ui' = ui /\ requests' = requests
    BY <1>1 DEF QueryTools!OtherAdministratorWrites, QueryTools!AgentCalls
  <2> QED
    BY <2>1, QueryStay DEF QueryInv
<1>2. CASE QueryTools!ChooseAgent
  <2>1. PICK a, u : u = [ui EXCEPT !.agent = a] /\ QueryTools!Follow(u, requests)
    BY <1>2 DEF QueryTools!ChooseAgent
  <2>2. QueryScreen \subseteq DOMAIN u
    BY <2>1 DEF QueryInv, QueryScreen
  <2> QED
    BY <2>1, <2>2, QueryFollow
<1>3. CASE QueryTools!Next
  BY <1>1, <1>2, <1>3, QueryActs, QueryWait, QueryServes, QueryHears DEF QueryTools!Next
<1> QED
  BY <1>1, <1>3

LEMMA QueryMatches == QueryInv => QueryTools!WaitsForWhatIsShown
  BY DEF QueryInv

(***************************************************************************)
(* The query that is continued                                             *)
(***************************************************************************)
ResumeScreen == {"state", "ready", "error", "refused"}
ResumeCall == {"op", "answer", "stage"}
ResumeQuery == {"revision", "version", "draft", "evidence"}

\* A query read earlier than another, and two reads of one revision.
Earlier(p, q) == p.revision <= q.revision /\ p.version <= q.version
Agrees(p, q) == p.revision = q.revision => p.version = q.version /\ p.draft = q.draft
IsQuery(q) == ResumeQuery \subseteq DOMAIN q /\ q.revision \in Nat /\ q.version \in Nat

ResumeShown ==
  /\ ResumeScreen \subseteq DOMAIN ui
  /\ IsQuery(server) /\ server.version <= server.revision
  /\ ui.state.read => /\ IsQuery(ui.state.query) /\ Earlier(ui.state.query, server)
                      /\ Agrees(ui.state.query, server)

\* The answers under way, and what they say of the query shown.
ResumeAnswer(c) ==
  /\ ResumeCall \subseteq DOMAIN c /\ c.op \in {"state", "ready"}
  /\ c.op = "ready" => ui.state.read
  /\ c.stage = "ok" =>
       /\ IsQuery(c.answer) /\ Earlier(c.answer, server) /\ Agrees(c.answer, server)
       /\ ui.state.read =>
            IF c.op = "state" THEN Agrees(c.answer, ui.state.query)
            ELSE Earlier(ui.state.query, c.answer)

ResumeAgree ==
  \A c, d \in requests :
    c.op = "state" /\ c.stage = "ok" /\ d.op = "state" /\ d.stage = "ok"
      => Agrees(c.answer, d.answer)

ResumeReady ==
  /\ ui.ready.read => ui.state.read /\ IsQuery(ui.ready.query)
                      /\ Earlier(ui.state.query, ui.ready.query)
  /\ ~ui.state.read => ui.error \/ \E c \in requests : c.op = "state"
  /\ (ui.state.read /\ ui.state.query.draft # "missing" /\ ~ui.ready.read) =>
       ui.error \/ ui.refused \/ \E c \in requests : c.op = "ready"

ResumeInv ==
  /\ ResumeShown
  /\ \A c \in requests : ResumeAnswer(c)
  /\ ResumeAgree
  /\ ResumeReady

LEMMA ResumeReads ==
  \A op, key, r : r = Resume!Read(op, key) =>
    ResumeCall \subseteq DOMAIN r /\ r.op = op /\ r.stage = "sent"
<1> SUFFICES ASSUME NEW op, NEW key, NEW r, r = Resume!Read(op, key)
             PROVE  ResumeCall \subseteq DOMAIN r /\ r.op = op /\ r.stage = "sent"
  OBVIOUS
<1>1. PICK q : r = [op |-> op, key |-> key, answer |-> q, stage |-> "sent"]
  BY DEF Resume!Read
<1> QED
  BY <1>1 DEF ResumeCall

\* The readiness is asked for where there is a query.
LEMMA ResumeReadyOf ==
  ASSUME NEW state
  PROVE  /\ \A c \in Resume!ReadyOf(state) :
              ResumeCall \subseteq DOMAIN c /\ c.op = "ready" /\ c.stage = "sent" /\ state.read
         /\ (state.read /\ state.query.draft # "missing") =>
              \E c \in Resume!ReadyOf(state) : c.op = "ready"
<1>1. PICK r : r = Resume!Read("ready", state.query.revision)
  OBVIOUS
<1>2. ResumeCall \subseteq DOMAIN r /\ r.op = "ready" /\ r.stage = "sent"
  BY <1>1, ResumeReads
<1> QED
  BY <1>1, <1>2 DEF Resume!ReadyOf, Resume!Missing

LEMMA ResumeStarts == Resume!Init => ResumeInv
<1> SUFFICES ASSUME Resume!Init PROVE ResumeInv
  OBVIOUS
<1>1. PICK r : r = Resume!Read("state", 0) /\ requests = {r}
  BY DEF Resume!Init
<1>2. ResumeCall \subseteq DOMAIN r /\ r.op = "state" /\ r.stage = "sent"
  BY <1>1, ResumeReads
<1>3. PICK u : /\ u = Resume!Unread
               /\ ui = [state |-> u, ready |-> u, error |-> FALSE, refused |-> FALSE]
  BY DEF Resume!Init
<1>4. u.read = FALSE
  BY <1>3 DEF Resume!Unread
<1>5. IsQuery(server) /\ server.version <= server.revision
  BY DEF Resume!Init, IsQuery, ResumeQuery
<1>6. /\ ResumeScreen \subseteq DOMAIN ui /\ ui.state.read = FALSE /\ ui.ready.read = FALSE
  BY <1>3, <1>4 DEF ResumeScreen
<1>7. ResumeShown
  BY <1>5, <1>6 DEF ResumeShown
<1>8. (\A c \in requests : ResumeAnswer(c)) /\ ResumeAgree
  BY <1>1, <1>2 DEF ResumeAnswer, ResumeAgree
<1>9. ResumeReady
  BY <1>1, <1>2, <1>6 DEF ResumeReady
<1> QED
  BY <1>7, <1>8, <1>9 DEF ResumeInv

\* What the user does.
LEMMA ResumeActs ==
  ASSUME ResumeInv, Resume!Retry \/ Resume!Remount
  PROVE  ResumeInv'
<1>1. PICK r, more, u, s :
        /\ r = Resume!Read("state", 0) /\ requests' = {r} \union more
        /\ u = Resume!Unread /\ UNCHANGED server
        /\ s = ui'.state /\ ui'.ready = u /\ ResumeScreen \subseteq DOMAIN ui'
        /\ \/ s = u /\ more = {}
           \/ s = ui.state /\ more = Resume!ReadyOf(s)
  <2>1. PICK r, u : r = Resume!Read("state", 0) /\ u = Resume!Unread
    OBVIOUS
  <2>2. CASE Resume!Retry
    <3>1. PICK more : more = Resume!ReadyOf(ui.state)
      OBVIOUS
    <3>2. /\ ui' = [ui EXCEPT !.error = FALSE, !.refused = FALSE, !.ready = u]
          /\ requests' = {r} \union more /\ UNCHANGED server
      BY <2>1, <2>2, <3>1 DEF Resume!Retry
    <3>3. ui'.state = ui.state /\ ui'.ready = u /\ ResumeScreen \subseteq DOMAIN ui'
      BY <3>2 DEF ResumeInv, ResumeShown, ResumeScreen
    <3> QED
      BY <2>1, <3>1, <3>2, <3>3
  <2>3. CASE Resume!Remount
    <3>1. /\ ui' = [state |-> u, ready |-> u, error |-> FALSE, refused |-> FALSE]
          /\ requests' = {r} \union {} /\ UNCHANGED server
      BY <2>1, <2>3 DEF Resume!Remount
    <3>2. ui'.state = u /\ ui'.ready = u /\ ResumeScreen \subseteq DOMAIN ui'
      BY <3>1 DEF ResumeScreen
    <3> QED
      BY <2>1, <3>1, <3>2
  <2> QED
    BY <2>2, <2>3
<1>2. ResumeCall \subseteq DOMAIN r /\ r.op = "state" /\ r.stage = "sent"
  BY <1>1, ResumeReads
<1>3. u.read = FALSE
  BY <1>1 DEF Resume!Unread
<1>4. /\ \A c \in more : /\ ResumeCall \subseteq DOMAIN c /\ c.op = "ready" /\ c.stage = "sent"
                         /\ s.read
      /\ (s.read /\ s.query.draft # "missing") => \E c \in more : c.op = "ready"
  BY <1>1, <1>3, ResumeReadyOf
<1>5. ResumeShown'
  BY <1>1, <1>3 DEF ResumeInv, ResumeShown
<1>6. (\A c \in requests' : ResumeAnswer(c)') /\ ResumeAgree'
  BY <1>1, <1>2, <1>4 DEF ResumeAnswer, ResumeAgree
<1>7. ResumeReady'
  BY <1>1, <1>2, <1>3, <1>4 DEF ResumeReady
<1> QED
  BY <1>5, <1>6, <1>7 DEF ResumeInv

LEMMA ResumeServes ==
  ASSUME ResumeInv, Resume!Serve
  PROVE  ResumeInv'
<1>0. PICK c \in requests :
        /\ c.stage = "sent" /\ UNCHANGED <<server, ui>>
        /\ \E d \in {[c EXCEPT !.stage = "ok", !.answer = server], [c EXCEPT !.stage = "failed"]} :
             requests' = (requests \ {c}) \union {d}
  BY DEF Resume!Serve
<1>1. PICK d : /\ d \in {[c EXCEPT !.stage = "ok", !.answer = server], [c EXCEPT !.stage = "failed"]}
               /\ requests' = (requests \ {c}) \union {d} /\ c \in requests
               /\ c.stage = "sent" /\ UNCHANGED <<server, ui>>
  BY <1>0
<1>2. ResumeAnswer(c)
  BY <1>1 DEF ResumeInv
<1>3. /\ ResumeCall \subseteq DOMAIN d /\ d.op = c.op
      /\ d.stage = "ok" => d.answer = server
  BY <1>1, <1>2 DEF ResumeAnswer, ResumeCall
<1>4. /\ IsQuery(server) /\ Earlier(server, server) /\ Agrees(server, server)
      /\ ui.state.read => Agrees(server, ui.state.query) /\ Earlier(ui.state.query, server)
  BY DEF ResumeInv, ResumeShown, IsQuery, Earlier, Agrees
<1>5. ResumeAnswer(d)
  BY <1>2, <1>3, <1>4 DEF ResumeAnswer
<1>6. \A e \in requests' : ResumeAnswer(e)'
  <2>1. \A e \in requests' : ResumeAnswer(e)
    BY <1>1, <1>5 DEF ResumeInv
  <2> QED
    BY <1>1, <2>1 DEF ResumeAnswer
<1>7. ResumeAgree'
  <2>1. \A e \in requests : (e.op = "state" /\ e.stage = "ok") =>
           Agrees(e.answer, server) /\ Agrees(server, e.answer)
    BY DEF ResumeInv, ResumeAnswer, Agrees
  <2> QED
    BY <1>1, <1>3, <1>4, <2>1 DEF ResumeInv, ResumeAgree
<1>8. ResumeReady'
  BY <1>1, <1>3 DEF ResumeInv, ResumeReady
<1>9. ResumeShown'
  BY <1>1 DEF ResumeInv, ResumeShown
<1> QED
  BY <1>6, <1>7, <1>8, <1>9 DEF ResumeInv

\* A later query of the server, or other evidence of the same one.
LEMMA ResumeChanges ==
  ASSUME ResumeInv, Resume!QueryChanges \/ Resume!EvidenceChanges
  PROVE  ResumeInv'
<1>0. IsQuery(server) /\ server.version <= server.revision
  BY DEF ResumeInv, ResumeShown
<1>1. /\ IsQuery(server') /\ server'.version <= server'.revision
      /\ server.version <= server'.version
      /\ \/ server'.revision = server.revision /\ server'.version = server.version
            /\ server'.draft = server.draft
         \/ server'.revision > server.revision
  <2>1. CASE Resume!QueryChanges
    <3>1. PICK r, next, published, a, b, d :
            /\ r = server.revision + 1
            /\ next = [server EXCEPT !.revision = r]
            /\ published = [next EXCEPT !.version = r]
            /\ a = [next EXCEPT !.draft = "changed"]
            /\ b = [published EXCEPT !.draft = "same", !.evidence = "executable"]
            /\ d = [published EXCEPT !.draft = "missing", !.evidence = "none"]
      OBVIOUS
    <3>2. /\ ResumeQuery \subseteq DOMAIN next /\ next.revision = r /\ next.version = server.version
      BY <1>0, <3>1 DEF IsQuery, ResumeQuery
    <3>3. server' = a \/ server' = b \/ server' = d
      BY <2>1, <3>1, <3>2 DEF Resume!QueryChanges, ResumeQuery
    <3>4. /\ ResumeQuery \subseteq DOMAIN a /\ a.revision = r /\ a.version = server.version
          /\ ResumeQuery \subseteq DOMAIN b /\ b.revision = r /\ b.version = r
          /\ ResumeQuery \subseteq DOMAIN d /\ d.revision = r /\ d.version = r
      BY <3>1, <3>2 DEF ResumeQuery
    <3>5. /\ r \in Nat /\ server.revision < r /\ server.version <= r
          /\ server.revision \in Nat /\ server.version \in Nat
      BY <1>0, <3>1 DEF IsQuery
    <3> QED
      BY <3>3, <3>4, <3>5 DEF IsQuery
  <2>2. CASE Resume!EvidenceChanges
    <3>1. PICK e : server' = [server EXCEPT !.evidence = e]
      BY <2>2 DEF Resume!EvidenceChanges
    <3> QED
      BY <1>0, <3>1 DEF IsQuery, ResumeQuery
  <2> QED
    BY <2>1, <2>2
<1>2. UNCHANGED <<ui, requests>>
  BY DEF Resume!QueryChanges, Resume!EvidenceChanges
<1>3. \A q : (IsQuery(q) /\ Earlier(q, server) /\ Agrees(q, server)) =>
        Earlier(q, server') /\ Agrees(q, server')
  BY <1>0, <1>1 DEF IsQuery, Earlier, Agrees
<1>4. ResumeShown'
  BY <1>1, <1>2, <1>3 DEF ResumeInv, ResumeShown
<1>5. \A c \in requests' : ResumeAnswer(c)'
  <2>1. TAKE c \in requests'
  <2>2. ResumeAnswer(c)
    BY <1>2 DEF ResumeInv
  <2> QED
    BY <1>2, <1>3, <2>2 DEF ResumeAnswer
<1>6. ResumeAgree' /\ ResumeReady'
  BY <1>2 DEF ResumeInv, ResumeAgree, ResumeReady
<1> QED
  BY <1>4, <1>5, <1>6 DEF ResumeInv

LEMMA ResumeHears ==
  ASSUME ResumeInv, UNCHANGED server, NEW c \in requests,
         Resume!ReadFails(c) \/ Resume!StateArrives(c) \/ Resume!ReadyArrives(c)
  PROVE  ResumeInv'
<1>0. ResumeScreen \subseteq DOMAIN ui /\ ResumeAnswer(c)
  BY DEF ResumeInv, ResumeShown
<1>1. CASE Resume!ReadFails(c)
  <2>1. PICK u : u = Resume!Unread
    OBVIOUS
  <2>2. /\ requests' = requests \ {c}
        /\ \/ c.op = "state" /\ ui' = [ui EXCEPT !.error = TRUE]
           \/ c.op # "state" /\ ui' = [ui EXCEPT !.ready = u, !.refused = TRUE]
    BY <1>1, <2>1 DEF Resume!ReadFails
  <2>3. /\ ResumeScreen \subseteq DOMAIN ui' /\ ui'.state = ui.state
        /\ c.op = "state" => ui'.error /\ ui'.refused = ui.refused /\ ui'.ready = ui.ready
        /\ c.op # "state" => ui'.error = ui.error /\ ui'.refused /\ ui'.ready = u
    BY <1>0, <2>2 DEF ResumeScreen
  <2>4. u.read = FALSE
    BY <2>1 DEF Resume!Unread
  <2>5. ResumeShown' /\ ResumeAgree'
    BY <2>2, <2>3 DEF ResumeInv, ResumeShown, ResumeAgree
  <2>6. \A d \in requests' : ResumeAnswer(d)'
    <3>1. TAKE d \in requests'
    <3>2. ResumeAnswer(d)
      BY <2>2 DEF ResumeInv
    <3> QED
      BY <2>3, <3>2 DEF ResumeAnswer
  <2>7. ResumeReady'
    BY <2>2, <2>3, <2>4 DEF ResumeInv, ResumeReady
  <2> QED
    BY <2>5, <2>6, <2>7 DEF ResumeInv
<1>2. CASE Resume!ReadyArrives(c)
  <2>1. PICK a : a = [read |-> TRUE, query |-> c.answer]
    OBVIOUS
  <2>2. /\ requests' = requests \ {c} /\ c.op = "ready" /\ c.stage = "ok"
        /\ ui' = [ui EXCEPT !.ready = a]
    BY <1>2, <2>1 DEF Resume!ReadyArrives
  <2>3. /\ ResumeScreen \subseteq DOMAIN ui' /\ ui'.state = ui.state /\ ui'.ready = a
        /\ ui'.error = ui.error /\ ui'.refused = ui.refused
    BY <1>0, <2>2 DEF ResumeScreen
  <2>4. ResumeShown' /\ ResumeAgree'
    BY <2>2, <2>3 DEF ResumeInv, ResumeShown, ResumeAgree
  <2>5. \A d \in requests' : ResumeAnswer(d)'
    <3>1. TAKE d \in requests'
    <3>2. ResumeAnswer(d)
      BY <2>2 DEF ResumeInv
    <3> QED
      BY <2>3, <3>2 DEF ResumeAnswer
  <2>6. /\ a.read = TRUE /\ a.query = c.answer
    BY <2>1
  <2>7. ResumeReady'
    BY <1>0, <2>2, <2>3, <2>6 DEF ResumeInv, ResumeReady, ResumeAnswer
  <2> QED
    BY <2>4, <2>5, <2>7 DEF ResumeInv
<1>3. CASE Resume!StateArrives(c)
  <2>1. PICK a, u, more : /\ a = [read |-> TRUE, query |-> c.answer] /\ u = Resume!Unread
                          /\ more = Resume!ReadyOf(a)
    OBVIOUS
  <2>2. /\ c.op = "state" /\ c.stage = "ok"
        /\ \/ /\ ui.state.read /\ ui.state.query.revision = c.answer.revision
              /\ ui' = [ui EXCEPT !.state = a] /\ requests' = requests \ {c}
           \/ /\ ui' = [ui EXCEPT !.state = a, !.ready = u, !.refused = FALSE]
              /\ requests' = {d \in requests : d # c /\ d.op # "ready"} \union more
    BY <1>3, <2>1 DEF Resume!StateArrives, Resume!Of
  <2>3. a.read = TRUE /\ a.query = c.answer /\ u.read = FALSE
    BY <2>1 DEF Resume!Unread
  <2>4. /\ \A d \in more : /\ ResumeCall \subseteq DOMAIN d /\ d.op = "ready" /\ d.stage = "sent"
        /\ a.query.draft # "missing" => \E d \in more : d.op = "ready"
    BY <2>1, <2>3, ResumeReadyOf
  <2>5. /\ IsQuery(c.answer) /\ Earlier(c.answer, server) /\ Agrees(c.answer, server)
        /\ ui.state.read => Agrees(c.answer, ui.state.query)
    BY <1>0, <2>2 DEF ResumeAnswer
  <2>6. ResumeScreen \subseteq DOMAIN ui' /\ ui'.state = a
    BY <1>0, <2>2 DEF ResumeScreen
  <2>7. ResumeShown'
    BY <2>3, <2>5, <2>6 DEF ResumeInv, ResumeShown
  <2>8. \A d \in requests : (d.op = "state" /\ d.stage = "ok") => Agrees(d.answer, c.answer)
    BY <2>2 DEF ResumeInv, ResumeAgree
  <2>9. ResumeAgree'
    BY <2>2, <2>4 DEF ResumeInv, ResumeAgree
  <2>10. CASE /\ ui.state.read /\ ui.state.query.revision = c.answer.revision
              /\ ui' = [ui EXCEPT !.state = a] /\ requests' = requests \ {c}
    <3>1. /\ ui'.ready = ui.ready /\ ui'.error = ui.error /\ ui'.refused = ui.refused
      BY <1>0, <2>10 DEF ResumeScreen
    <3>2. /\ ui.state.query.version = c.answer.version /\ ui.state.query.draft = c.answer.draft
          /\ IsQuery(ui.state.query)
      BY <2>5, <2>10 DEF Agrees, ResumeInv, ResumeShown
    <3>3. \A q : Earlier(ui.state.query, q) => Earlier(c.answer, q)
      BY <2>10, <3>2 DEF Earlier
    <3>4. \A d \in requests' : ResumeAnswer(d)'
      <4>1. TAKE d \in requests'
      <4>2. ResumeAnswer(d) /\ d \in requests
        BY <2>10 DEF ResumeInv
      <4> QED
        BY <2>3, <2>6, <2>8, <2>10, <3>3, <4>2 DEF ResumeAnswer
    <3>5. ResumeReady'
      BY <2>2, <2>3, <2>6, <2>10, <3>1, <3>2, <3>3 DEF ResumeInv, ResumeReady
    <3> QED
      BY <2>7, <2>9, <3>4, <3>5 DEF ResumeInv
  <2>11. CASE /\ ui' = [ui EXCEPT !.state = a, !.ready = u, !.refused = FALSE]
              /\ requests' = {d \in requests : d # c /\ d.op # "ready"} \union more
    <3>1. /\ ui'.ready = u /\ ui'.error = ui.error
      BY <1>0, <2>11 DEF ResumeScreen
    <3>2. \A d \in requests' : ResumeAnswer(d)'
      <4>1. TAKE d \in requests'
      <4>2. CASE d \in more
        BY <2>3, <2>4, <2>6, <4>2 DEF ResumeAnswer
      <4>3. CASE d \in requests /\ d.op # "ready"
        <5>1. ResumeAnswer(d)
          BY <4>3 DEF ResumeInv
        <5> QED
          BY <2>3, <2>6, <2>8, <4>3, <5>1 DEF ResumeAnswer
      <4> QED
        BY <2>11, <4>2, <4>3
    <3>3. ResumeReady'
      BY <2>3, <2>4, <2>6, <2>11, <3>1 DEF ResumeReady
    <3> QED
      BY <2>7, <2>9, <3>2, <3>3 DEF ResumeInv
  <2> QED
    BY <2>2, <2>10, <2>11
<1> QED
  BY <1>1, <1>2, <1>3

LEMMA ResumeKeeps ==
  ASSUME ResumeInv, Resume!Next \/ UNCHANGED <<server, ui, requests>>
  PROVE  ResumeInv'
<1>1. CASE UNCHANGED <<server, ui, requests>>
  <2>1. (\A c \in requests' : ResumeAnswer(c)') /\ ResumeAgree'
    BY <1>1 DEF ResumeInv, ResumeAnswer, ResumeAgree
  <2>2. ResumeShown' /\ ResumeReady'
    BY <1>1 DEF ResumeInv, ResumeShown, ResumeReady
  <2> QED
    BY <2>1, <2>2 DEF ResumeInv
<1>2. CASE Resume!Deliver
  BY <1>2, ResumeHears DEF Resume!Deliver
<1> QED
  BY <1>1, <1>2, ResumeActs, ResumeServes, ResumeChanges DEF Resume!Next

LEMMA ResumeMatches == ResumeInv => Resume!AnswersMatchTheScreen
<1> SUFFICES ASSUME ResumeInv PROVE Resume!AnswersMatchTheScreen
  OBVIOUS
<1>1. CASE ~ui.state.read
  <2>1. Resume!NextStep = "loading"
    BY <1>1 DEF Resume!NextStep
  <2> QED
    BY <1>1, <2>1 DEF ResumeInv, ResumeReady, Resume!AnswersMatchTheScreen
<1>2. CASE ui.state.read /\ ui.state.query.draft = "missing"
  <2>1. Resume!NextStep = "query"
    BY <1>2 DEF Resume!NextStep
  <2> QED
    BY <2>1 DEF Resume!AnswersMatchTheScreen
<1>3. CASE ui.state.read /\ ui.state.query.draft # "missing" /\ ~ui.ready.read
  <2>1. Resume!NextStep = "loading"
    BY <1>3 DEF Resume!NextStep
  <2> QED
    BY <1>3, <2>1 DEF ResumeInv, ResumeReady, Resume!AnswersMatchTheScreen
<1>4. CASE ui.state.read /\ ui.state.query.draft # "missing" /\ ui.ready.read
  <2>1. /\ IsQuery(ui.state.query) /\ IsQuery(ui.ready.query)
        /\ Earlier(ui.state.query, ui.ready.query)
    BY <1>4 DEF ResumeInv, ResumeShown, ResumeReady
  <2>2. CASE ui.ready.query.version = ui.state.query.version
    <3>1. Resume!NextStep # "loading"
      BY <1>4, <2>2 DEF Resume!NextStep
    <3> QED
      BY <2>1, <2>2, <3>1 DEF Earlier, IsQuery, Resume!AnswersMatchTheScreen
  <2>3. CASE ui.ready.query.version # ui.state.query.version
    <3>1. Resume!NextStep = "loading"
      BY <1>4, <2>3 DEF Resume!NextStep
    <3> QED
      BY <1>4, <2>1, <2>3, <3>1 DEF Earlier, IsQuery, Resume!AnswersMatchTheScreen
  <2> QED
    BY <2>2, <2>3
<1> QED
  BY <1>1, <1>2, <1>3, <1>4
===============================================================================

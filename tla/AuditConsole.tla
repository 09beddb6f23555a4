---------------------------- MODULE AuditConsole ----------------------------
(***************************************************************************)
(* The audit page (web/src/Audit.tsx): pages of the log, newest records    *)
(* first, read by the number they are older than.                          *)
(*                                                                         *)
(* The log grows while it is read and retention removes its oldest         *)
(* records.  A query takes every record or those of real Agent calls.      *)
(***************************************************************************)
EXTENDS Integers, FiniteSets, Sequences

CONSTANTS
  MaxLog,        \* bound on the records ever written
  PageSize,      \* records on a page
  MaxPages       \* bound on the pages turned

VARIABLES server, ui, calls

vars == <<server, ui, calls>>

Kinds == {"client", "management"}
Queries == {"client", ""}
Ids == 1 .. MaxLog
\* 0 is the newest page.
Cursors == 0 .. MaxLog
Pages == [query : Queries, before : Cursors]
Newest(query) == [query |-> query, before |-> 0]

TypeOK ==
  /\ server \in [log : UNION {[1 .. n -> Kinds] : n \in Cursors}, oldest : 1 .. MaxLog + 1]
  /\ ui \in [query : Queries, history : UNION {[1 .. n -> Cursors] : n \in 1 .. MaxPages},
             rows : SUBSET Ids, of : Pages, top : Cursors, loading : BOOLEAN, failed : BOOLEAN,
             stale : BOOLEAN, skipped : BOOLEAN]
  /\ calls \subseteq [page : Pages, rows : SUBSET Ids, top : Cursors,
                      stage : {"sent", "ok", "failed"}]

Request(page) == [page |-> page, rows |-> {}, top |-> 0, stage |-> "sent"]

Init ==
  /\ server = [log |-> << >>, oldest |-> 1]
  /\ ui = [query |-> "client", history |-> <<0>>, rows |-> {}, of |-> Newest("client"), top |-> 0,
           loading |-> TRUE, failed |-> FALSE, stale |-> FALSE, skipped |-> FALSE]
  /\ calls = {Request(Newest("client"))}

Before == ui.history[Len(ui.history)]
Shown == [query |-> ui.query, before |-> Before]
Least(ids) == CHOOSE i \in ids : \A j \in ids : i <= j

\* The list effect: it aborts the load before and hides the rows.
Load(query, history) ==
  /\ ui' = [ui EXCEPT !.query = query, !.history = history, !.loading = TRUE, !.failed = FALSE]
  /\ calls' = {Request([query |-> query, before |-> history[Len(history)]])}
  /\ UNCHANGED server
-----------------------------------------------------------------------------
(* The page                                                                 *)

Refresh == ~ui.loading /\ Load(ui.query, ui.history)

\* Also while a load runs.
ApplyFilters == \E query \in Queries : Load(query, <<0>>)

\* The effect follows only what it reads: clearing a cleared page loads nothing.
Clear ==
  IF Shown = Newest("")
    THEN ui' = [ui EXCEPT !.history = <<0>>] /\ UNCHANGED <<server, calls>>
    ELSE Load("", <<0>>)

NewerRecords ==
  /\ ~ui.loading /\ Len(ui.history) > 1
  /\ Load(ui.query, SubSeq(ui.history, 1, Len(ui.history) - 1))

Matching(query) ==
  {i \in server.oldest .. Len(server.log) : query = "" \/ server.log[i] = query}

\* Records of the query between what is on screen and what comes next, which
\* were in the log when the rows were read.
Missed(cursor) ==
  {i \in Matching(ui.query) \ ui.rows :
     cursor <= i /\ i <= ui.top /\ (Before = 0 \/ i < Before)}

OlderWhileLoading ==
  /\ Cardinality(ui.rows) = PageSize /\ Len(ui.history) < MaxPages
  /\ LET cursor == Least(ui.rows)
     IN /\ ui' = [ui EXCEPT !.history = Append(@, cursor), !.loading = TRUE, !.failed = FALSE,
                            !.stale = @ \/ ui.failed,
                            !.skipped = @ \/ Missed(cursor) # {}]
        /\ calls' = {Request([query |-> ui.query, before |-> cursor])}
  /\ UNCHANGED server

\* The next cursor is taken from the rows, which a failed load leaves as they were.
OlderRecords ==
  /\ ~ui.loading /\ Cardinality(ui.rows) = PageSize /\ Len(ui.history) < MaxPages
  /\ LET cursor == Least(ui.rows)
     IN /\ ui' = [ui EXCEPT !.history = Append(@, cursor), !.loading = TRUE, !.failed = FALSE,
                            !.stale = @ \/ ui.failed,
                            !.skipped = @ \/ Missed(cursor) # {}]
        /\ calls' = {Request([query |-> ui.query, before |-> cursor])}
  /\ UNCHANGED server
-----------------------------------------------------------------------------
(* The server (internal/server/agents.go audit, internal/store/audit.go)   *)

\* The newest records below the cursor, at most a page of them.
PageOf(page) ==
  LET below == {i \in Matching(page.query) : page.before = 0 \/ i < page.before}
  IN {i \in below : Cardinality({j \in below : j > i}) < PageSize}

Serve ==
  /\ \E c \in calls :
       /\ c.stage = "sent"
       /\ \/ calls' = {[c EXCEPT !.stage = "ok", !.rows = PageOf(c.page), !.top = Len(server.log)]}
          \/ calls' = {[c EXCEPT !.stage = "failed"]}
  /\ UNCHANGED <<server, ui>>

Record ==
  /\ Len(server.log) < MaxLog
  /\ \E kind \in Kinds : server' = [server EXCEPT !.log = Append(@, kind)]
  /\ UNCHANGED <<ui, calls>>

\* Cleanup removes the oldest records (internal/store/cleanup.go).
Cleanup ==
  /\ server.oldest <= Len(server.log) /\ server' = [server EXCEPT !.oldest = @ + 1]
  /\ UNCHANGED <<ui, calls>>
-----------------------------------------------------------------------------
Deliver ==
  /\ \E c \in calls :
       \/ c.stage = "ok" /\ ui' = [ui EXCEPT !.rows = c.rows, !.of = c.page, !.top = c.top,
                                             !.loading = FALSE]
       \/ c.stage = "failed" /\ ui' = [ui EXCEPT !.failed = TRUE, !.loading = FALSE]
  /\ calls' = {} /\ UNCHANGED server

Next ==
  \/ Refresh \/ ApplyFilters \/ Clear \/ NewerRecords \/ OlderRecords
  \/ Serve \/ Record \/ Cleanup \/ Deliver

Spec == Init /\ [][Next]_vars
-----------------------------------------------------------------------------
(* The records listed are those of the filters and the page on screen.     *)
AnswersMatchTheScreen == (~ui.loading /\ ~ui.failed) => ui.of = Shown

(* Turning to older records passes over none that was in the log, while    *)
(* records are added and removed, unless it was pressed over the rows a    *)
(* failed load had left behind.                                            *)
PagesSkipNothing == ui.skipped => ui.stale
=============================================================================

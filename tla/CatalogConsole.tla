--------------------------- MODULE CatalogConsole ---------------------------
(***************************************************************************)
(* The catalog of queries and definitions (web/src/BusinessCatalog.tsx):   *)
(* searches over every source's publication, read a page at a time, with   *)
(* the definition and the preview opened from a row.  The query workspace  *)
(* is left for and returned from.                                          *)
(*                                                                         *)
(* The search is in the address: filters, offset, and the catalog revision *)
(* that the pages of one search have in common.  The page is mounted anew  *)
(* for every address (web/src/App.tsx).  One row stands for the rows.      *)
(***************************************************************************)
EXTENDS Integers

CONSTANTS MaxRevision   \* bound on the changes of the catalog

VARIABLES server, ui, calls

vars == <<server, ui, calls>>

Filters == {0, 1}       \* what a search asks for, and for whom
Bare == -1              \* an address without filters: the first of them
Offsets == {0, 1}       \* pages; every search finds two
Versions == 0 .. MaxRevision
\* The server hashes the filters into the revision.
Revisions == [filters : Filters, number : 0 .. MaxRevision]
NoRevision == [filters |-> Bare, number |-> 0]
Addresses == [search : Filters \union {Bare}, offset : Offsets,
              revision : Revisions \union {NoRevision}]
First(search) == [search |-> search, offset |-> 0, revision |-> NoRevision]
Rows == [version : Versions, executable : BOOLEAN]
NoRow == [version |-> 0, executable |-> FALSE]
Data == [shown : BOOLEAN, filters : Filters, offset : Offsets,
         revision : Revisions \union {NoRevision}, row : Rows]
NoData == [shown |-> FALSE, filters |-> 0, offset |-> 0, revision |-> NoRevision, row |-> NoRow]
\* What was opened from a row: the row, and the version the answer is of.
Drawers == [open : BOOLEAN, row : Rows, version : Versions]
NoDrawer == [open |-> FALSE, row |-> NoRow, version |-> 0]

TypeOK ==
  /\ server \in [number : 0 .. MaxRevision, row : Rows]
  \* from: the revision of the list that a page was turned from or left.
  /\ ui \in [place : {"catalog", "workspace"}, url : Addresses, filters : Filters, data : Data,
             loading : BOOLEAN, failed : BOOLEAN, busy : BOOLEAN, detail : Drawers,
             preview : Drawers, from : Revisions \union {NoRevision}]
  /\ calls \subseteq [op : {"list", "detail", "preview"}, url : Addresses, row : Rows,
                      data : Data, answer : Rows, stage : {"sent", "ok", "failed"}]

FiltersOf(url) == IF url.search = Bare THEN 0 ELSE url.search
Request(op, url, row) ==
  [op |-> op, url |-> url, row |-> row, data |-> NoData, answer |-> NoRow, stage |-> "sent"]
Load(url) == Request("list", url, NoRow)
Page(url, from) ==
  [place |-> "catalog", url |-> url, filters |-> FiltersOf(url), data |-> NoData,
   loading |-> TRUE, failed |-> FALSE, busy |-> FALSE, detail |-> NoDrawer,
   preview |-> NoDrawer, from |-> from]

\* Any address may be typed or kept as a bookmark.
Init ==
  /\ server = [number |-> 0, row |-> [version |-> 0, executable |-> TRUE]]
  /\ \E url \in Addresses :
       /\ url.revision.number = 0
       /\ ui = Page(url, NoRevision) /\ calls = {Load(url)}

\* Unmounting aborts what the page asked; the answers reach nobody.
Mount(url, from) == ui' = Page(url, from) /\ calls' = {Load(url)} /\ UNCHANGED server
Bottom == ui.place = "catalog" /\ ~ui.detail.open /\ ~ui.preview.open
RowsShown == Bottom /\ ui.data.shown /\ ~ui.loading
-----------------------------------------------------------------------------
(* Searching                                                               *)

TypeFilter ==
  /\ Bottom
  /\ ui' = [ui EXCEPT !.filters = 1 - @] /\ UNCHANGED <<server, calls>>

\* search(): a new search has no revision; the present address is asked again,
\* and the list stays until the answer.
SearchFor(filters) ==
  IF First(filters) = ui.url
    THEN /\ ui' = [ui EXCEPT !.loading = TRUE, !.failed = FALSE]
         /\ calls' = {c \in calls : c.op # "list"} \union {Load(ui.url)}
         /\ UNCHANGED server
    ELSE Mount(First(filters), NoRevision)

Search == Bottom /\ ~ui.busy /\ SearchFor(ui.filters)
\* The view's buttons and the choice of an Agent search at once.
ChooseFilter == Bottom /\ \E filters \in Filters : SearchFor(filters)
Restart == Bottom /\ ui.failed /\ SearchFor(ui.filters)

\* pageURL(): the address of another page of the same search and revision.
PageURL(offset) ==
  [search |-> ui.url.search, offset |-> offset,
   revision |-> IF ui.data.shown THEN ui.data.revision ELSE ui.url.revision]
ShownRevision == IF ui.data.shown THEN ui.data.revision ELSE ui.from

TurnPage == RowsShown /\ Mount(PageURL(1 - ui.url.offset), ShownRevision)
-----------------------------------------------------------------------------
(* The query workspace, and back                                           *)

LeaveFor(url, from) ==
  /\ ui' = [Page(url, from) EXCEPT !.place = "workspace", !.loading = FALSE]
  /\ calls' = {} /\ UNCHANGED server

\* The address left behind is the page's, whatever is being loaded.
OpenWorkspace == Bottom /\ LeaveFor(PageURL(ui.url.offset), ShownRevision)
\* From a drawer the address stays what it was.
OpenSetup == ui.detail.open /\ ~ui.preview.open /\ ~ui.busy /\ LeaveFor(ui.url, ui.from)
\* By Back, or by the link the workspace was given.
ReturnToSearch == ui.place = "workspace" /\ Mount(ui.url, ui.from)
-----------------------------------------------------------------------------
(* Opening a row                                                           *)

\* open(): the row's version goes with the question.
Open(op, row) ==
  /\ ~ui.busy
  /\ ui' = [ui EXCEPT !.busy = TRUE, !.failed = FALSE]
  /\ calls' = calls \union {Request(op, ui.url, row)}
  /\ UNCHANGED server

OpenDefinition == RowsShown /\ Open("detail", ui.data.row)
\* A query that does not run is opened in the workspace instead.
OpenPreview == RowsShown /\ ui.data.row.executable /\ Open("preview", ui.data.row)
PreviewOfDefinition ==
  /\ ui.detail.open /\ ~ui.preview.open /\ ui.detail.row.executable
  /\ Open("preview", ui.detail.row)

CloseDetail ==
  /\ ui.detail.open /\ ~ui.preview.open /\ ~ui.busy
  /\ ui' = [ui EXCEPT !.detail = NoDrawer] /\ UNCHANGED <<server, calls>>

ClosePreview ==
  /\ ui.preview.open
  /\ ui' = [ui EXCEPT !.preview = NoDrawer] /\ UNCHANGED <<server, calls>>
-----------------------------------------------------------------------------
(* The server (internal/server/business_catalog.go)                        *)

\* A page after the first asks with a revision, and a revision must be today's.
ServeList(c) ==
  LET filters == FiltersOf(c.url)
      revision == [filters |-> filters, number |-> server.number]
  IN IF \/ c.url.offset > 0 /\ c.url.revision = NoRevision
        \/ c.url.revision \notin {NoRevision, revision}
       THEN [c EXCEPT !.stage = "failed"]
       ELSE [c EXCEPT !.stage = "ok",
               !.data = [shown |-> TRUE, filters |-> filters, offset |-> c.url.offset,
                         revision |-> revision, row |-> server.row]]

ServeEntry(c) ==
  IF c.row.version # server.row.version
    THEN [c EXCEPT !.stage = "failed"]
    ELSE [c EXCEPT !.stage = "ok", !.answer = server.row]

Serve ==
  /\ \E c \in calls :
       /\ c.stage = "sent"
       /\ \E answer \in {IF c.op = "list" THEN ServeList(c) ELSE ServeEntry(c),
                         [c EXCEPT !.stage = "failed"]} :
            calls' = (calls \ {c}) \union {answer}
  /\ UNCHANGED <<server, ui>>

\* A publication, a change of a source or of a grant is another revision.
CatalogChanges ==
  /\ server.number < MaxRevision
  /\ \E published, executable \in BOOLEAN :
       server' = [number |-> server.number + 1,
                  row |-> [version |-> server.row.version + (IF published THEN 1 ELSE 0),
                           executable |-> executable]]
  /\ UNCHANGED <<ui, calls>>

\* The evidence of a trial comes and goes without one.
EvidenceChanges ==
  /\ server' = [server EXCEPT !.row.executable = ~@] /\ UNCHANGED <<ui, calls>>
-----------------------------------------------------------------------------
(* The answers                                                             *)

ListArrives(c) ==
  /\ c.op = "list"
  /\ ui' = IF c.stage = "ok" THEN [ui EXCEPT !.data = c.data, !.loading = FALSE]
           ELSE [ui EXCEPT !.data = NoData, !.loading = FALSE, !.failed = TRUE]

\* A preview is only of a query that still runs.
EntryArrives(c) ==
  /\ c.op \in {"detail", "preview"}
  /\ LET u == [ui EXCEPT !.busy = FALSE]
         drawer == [open |-> TRUE, row |-> c.row, version |-> c.answer.version]
     IN ui' = IF c.stage = "failed" \/ (c.op = "preview" /\ ~c.answer.executable)
                THEN [u EXCEPT !.failed = TRUE]
              ELSE IF c.op = "detail" THEN [u EXCEPT !.detail = drawer]
              ELSE [u EXCEPT !.preview = drawer]

Deliver ==
  /\ \E c \in calls :
       /\ c.stage # "sent"
       /\ (ListArrives(c) \/ EntryArrives(c)) /\ calls' = calls \ {c}
  /\ UNCHANGED server

Next ==
  \/ TypeFilter \/ Search \/ ChooseFilter \/ Restart \/ TurnPage \/ OpenWorkspace
  \/ OpenSetup \/ ReturnToSearch \/ OpenDefinition \/ OpenPreview \/ PreviewOfDefinition
  \/ CloseDetail \/ ClosePreview \/ Serve \/ CatalogChanges \/ EvidenceChanges \/ Deliver

Spec == Init /\ [][Next]_vars
-----------------------------------------------------------------------------
(* The list is of the search and the page in the address; the pages of one *)
(* search, and the page returned to from the workspace, are of one catalog *)
(* revision, or the search starts again; and what is opened from a row is  *)
(* the version the row was listed with, although the catalog is published  *)
(* over and the list refreshed in between.                                 *)
AnswersMatchTheScreen ==
  /\ (ui.data.shown /\ ~ui.loading) =>
       /\ ui.data.filters = FiltersOf(ui.url) /\ ui.data.offset = ui.url.offset
       /\ ui.from = NoRevision \/ ui.data.revision = ui.from
  /\ \A drawer \in {ui.detail, ui.preview} : drawer.version = drawer.row.version
=============================================================================

-------------------------- MODULE EvaluationConsole --------------------------
(***************************************************************************)
(* The evaluation page of a source (web/src/QueryEvaluation.tsx,           *)
(* EvaluationLibrary.tsx, EvaluationRun.tsx): saved questions, the         *)
(* evaluation on screen with its captures and reviews, and the library     *)
(* that lists both.                                                        *)
(*                                                                         *)
(* A page of the library shows one record: question n on page n, and the   *)
(* evaluation on the one page of the history; records that are not         *)
(* modelled may fill further pages.  A text stands for the question with   *)
(* its criteria, or for the verdicts and notes of a review.                *)
(***************************************************************************)
EXTENDS Integers, FiniteSets, Functions

CONSTANTS
  Questions,     \* the questions that may be saved
  Pages,         \* the pages of the questions, of which n shows question n
  Filters,       \* the filters a list may be read with, "" for none
  MaxRevision,   \* bound on the revisions of a question
  MaxSaves,      \* bound on the revisions of questions and evaluation together
  MaxOthers,     \* bound on the writes of other administrators
  MaxRequests    \* bound on requests in flight

VARIABLES server, ui, calls

vars == <<server, ui, calls>>

Texts == {"a", "b"}
Kinds == {"baseline", "guided"}
NoRuns == [kind \in Kinds |-> "none"]
First == CHOOSE n \in Questions : \A m \in Questions : n <= m
\* A question (without runs) or an evaluation; revision 0 is none at all.
Items == [revision : 0 .. MaxRevision + MaxSaves, text : Texts, review : Texts,
          runs : [Kinds -> {"none", "capturing", "completed", "abandoned"}]]
Nothing == [revision |-> 0, text |-> "a", review |-> "a", runs |-> NoRuns]
Libraries == {"questions", "history"}
Places == [tab : Libraries, page : Pages, applied : Filters]
FirstPlace(tab) == [tab |-> tab, page |-> First, applied |-> ""]
Ops == {"list", "open", "question", "capture", "review", "remove"}

TypeOK ==
  /\ server \in [questions : [Questions -> Items], gone : SUBSET Questions,
                 evaluation : Items, deleted : BOOLEAN,
                 others : 0 .. MaxOthers, careless : BOOLEAN]
  /\ ui \in [tab : Libraries \union {"evaluation"}, form : Texts, dirty : BOOLEAN,
             question : Questions, saved : Items, record : Items, edited : BOOLEAN,
             busy : BOOLEAN, confirm : {"", "new", "review"}, places : [Libraries -> Places],
             rows : Items, of : Places, loading : BOOLEAN, failed : BOOLEAN,
             deleting : Items, target : Pages, overwritten : BOOLEAN]
  /\ calls \subseteq [op : Ops, do : {"", "start", "collect", "abandon", "remove"}, place : Places,
                      question : {0} \union Questions, case : 0 .. MaxRevision,
                      kind : Kinds, item : Items, stage : {"sent", "ok"}]

Request(op) == [op |-> op, do |-> "", place |-> FirstPlace("history"), question |-> 0,
                case |-> 0, kind |-> "guided", item |-> Nothing, stage |-> "sent"]

Init ==
  /\ server = [questions |-> [n \in Questions |-> Nothing], gone |-> {}, evaluation |-> Nothing,
             deleted |-> FALSE, others |-> 0, careless |-> FALSE]
  /\ ui = [tab |-> "evaluation", form |-> "a", dirty |-> FALSE, question |-> First,
           saved |-> Nothing, record |-> Nothing, edited |-> FALSE, busy |-> FALSE,
           confirm |-> "", places |-> [tab \in Libraries |-> FirstPlace(tab)],
           rows |-> Nothing, of |-> FirstPlace("history"), loading |-> FALSE, failed |-> FALSE,
           deleting |-> Nothing, target |-> First, overwritten |-> FALSE]
  /\ calls = {}

\* What a request tells of a record it does not change the text of.
Named(item) == [Nothing EXCEPT !.revision = item.revision]
Active(item) == \E kind \in Kinds : item.runs[kind] = "capturing"
Completed(item) == {kind \in Kinds : item.runs[kind] = "completed"}
CaseChanged == ui.saved.revision # 0 /\ ui.form # ui.saved.text
Lists == {c \in calls : c.op = "list"}

\* A button sends one request and locks the page until it is answered.
Submit(request) ==
  /\ ~ui.busy /\ Cardinality(calls) < MaxRequests
  /\ ui' = [ui EXCEPT !.busy = TRUE] /\ calls' = calls \union {request} /\ UNCHANGED server

\* The list effect: the load of the place before is aborted.
Load(at, next) ==
  /\ Cardinality(calls \ Lists) < MaxRequests
  /\ calls' = (calls \ Lists) \union {[Request("list") EXCEPT !.place = at]}
  /\ ui' = [next EXCEPT !.places[at.tab] = at, !.loading = TRUE, !.failed = FALSE,
                         !.rows = Nothing, !.of = FirstPlace("history")]
  /\ UNCHANGED server
Leave(next) == ui' = next /\ calls' = calls \ Lists /\ UNCHANGED server

\* What the library loses when it is unmounted.
Cleared(page) ==
  [page EXCEPT !.rows = Nothing, !.of = FirstPlace("history"), !.deleting = Nothing,
               !.target = First, !.loading = FALSE, !.failed = FALSE]
-----------------------------------------------------------------------------
(* The question and the evaluation                                         *)

Change ==
  /\ ui.tab = "evaluation" /\ ui.record.revision = 0 /\ ~ui.busy
  /\ \E text \in Texts : ui' = [ui EXCEPT !.form = text, !.dirty = TRUE]
  /\ UNCHANGED <<server, calls>>

SelectTab ==
  /\ ~ui.dirty /\ ~ui.edited /\ ~ui.busy
  /\ \E tab \in (Libraries \union {"evaluation"}) \ {ui.tab} :
       LET next == [Cleared(ui) EXCEPT !.tab = tab]
       IN IF tab = "evaluation" THEN Leave(next) ELSE Load(ui.places[tab], next)

\* A new question, or the saved one from the revision it was saved at.
SaveQuestion ==
  /\ ui.tab = "evaluation" /\ ui.record.revision = 0
  /\ \E prior \in (IF ui.saved.revision = 0 THEN {0} ELSE {0, ui.question}) :
       Submit([Request("question") EXCEPT
                 !.question = prior,
                 !.item = [Nothing EXCEPT
                             !.text = ui.form,
                             !.revision = IF prior = 0 THEN 0 ELSE ui.saved.revision]])

CanStart == ~CaseChanged /\ ~Active(ui.record) /\ ~ui.edited

Linked == ui.record.revision = 0 /\ ui.saved.revision # 0

StartCapture ==
  /\ ui.tab = "evaluation" /\ CanStart
  /\ \E kind \in Kinds :
       /\ ui.record.runs[kind] = "none"
       /\ Submit([Request("capture") EXCEPT
                    !.do = "start", !.kind = kind,
                    !.question = IF Linked THEN ui.question ELSE 0,
                    !.case = IF Linked THEN ui.saved.revision ELSE 0,
                    !.item = IF ui.record.revision # 0 THEN Named(ui.record)
                             ELSE [Nothing EXCEPT !.text = ui.form]])

\* Collecting brings the whole record back, so edited reviews are saved first.
EndCapture ==
  /\ ui.tab = "evaluation" /\ ~ui.edited
  /\ \E kind \in Kinds, do \in {"collect", "abandon"} :
       /\ ui.record.runs[kind] = "capturing"
       /\ Submit([Request("capture") EXCEPT !.do = do, !.kind = kind, !.item = Named(ui.record)])

EditReview ==
  /\ ui.tab = "evaluation" /\ Completed(ui.record) # {} /\ ~ui.busy
  /\ \E text \in Texts : ui' = [ui EXCEPT !.record.review = text, !.edited = TRUE]
  /\ UNCHANGED <<server, calls>>

SaveReview ==
  /\ ui.tab = "evaluation" /\ ui.edited /\ Submit([Request("review") EXCEPT !.item = ui.record])

AskDiscard ==
  /\ ~ui.busy
  /\ \/ ui.edited /\ ui.tab = "evaluation" /\ ui' = [ui EXCEPT !.confirm = "review"]
     \/ (ui.dirty \/ ui.edited) /\ ~Active(ui.record) /\ ui' = [ui EXCEPT !.confirm = "new"]
  /\ UNCHANGED <<server, calls>>

KeepEditing ==
  /\ ui.confirm # "" /\ ~ui.busy /\ ui' = [ui EXCEPT !.confirm = ""] /\ UNCHANGED <<server, calls>>

\* "New evaluation", and "Repeat evaluation" with the texts of the record.
Emptied ==
  [Cleared(ui) EXCEPT !.tab = "evaluation", !.form = "a", !.dirty = FALSE, !.record = Nothing,
                      !.saved = Nothing, !.question = First, !.edited = FALSE, !.confirm = ""]

Reset ==
  /\ ~ui.busy
  /\ \/ ~Active(ui.record) /\ ~ui.dirty /\ ~ui.edited /\ Leave(Emptied)
     \/ ui.confirm # "" /\ (ui.confirm = "new" \/ ui.record.revision = 0) /\ Leave(Emptied)
     \/ /\ ui.tab = "evaluation" /\ ui.record.revision # 0 /\ ~ui.edited /\ ~Active(ui.record)
        /\ Leave([Emptied EXCEPT !.form = ui.record.text, !.dirty = TRUE])

\* "Reload saved evaluation", or edits of the review given up for it.
OpenEvaluation ==
  /\ ui.record.revision # 0
  /\ (ui.tab = "evaluation" /\ ~ui.edited) \/ ui.confirm = "review"
  /\ Submit(Request("open"))
-----------------------------------------------------------------------------
(* The library                                                             *)

InLibrary == ui.tab \in Libraries
RowShown == InLibrary /\ ~ui.loading /\ ~ui.failed /\ ui.rows.revision # 0
Here == ui.places[ui.tab]

RefreshList == InLibrary /\ ~ui.busy /\ ~ui.loading /\ Load(Here, ui)

ApplyFilters ==
  /\ InLibrary /\ ~ui.busy /\ ~ui.loading
  /\ \E applied \in Filters :
       Load([FirstPlace(ui.tab) EXCEPT !.applied = applied],
            [ui EXCEPT !.deleting = Nothing, !.target = First])

\* The page before or after, of the questions.
Turned(page) ==
  /\ ui.tab = "questions" /\ ~ui.busy /\ ~ui.loading
  /\ page \in {Here.page - 1, Here.page + 1}

TurnPage == \E page \in Pages : Turned(page) /\ Load([Here EXCEPT !.page = page], ui)

UseQuestion ==
  /\ RowShown /\ ui.tab = "questions" /\ ~ui.busy
  /\ Leave([Emptied EXCEPT !.form = ui.rows.text, !.saved = ui.rows, !.question = ui.of.page,
                           !.confirm = ui.confirm])

OpenRow == RowShown /\ ui.tab = "history" /\ Submit(Request("open"))

AskRemove ==
  /\ RowShown /\ ~ui.busy /\ ~Active(ui.rows)
  /\ ui' = [ui EXCEPT !.deleting = Named(ui.rows), !.target = ui.of.page] /\ UNCHANGED <<server, calls>>

KeepRecord ==
  /\ ui.deleting.revision # 0 /\ ~ui.busy
  /\ ui' = [ui EXCEPT !.deleting = Nothing, !.target = First] /\ UNCHANGED <<server, calls>>

Remove ==
  /\ ui.deleting.revision # 0
  /\ Submit([Request("remove") EXCEPT
               !.do = "remove", !.item = ui.deleting,
               !.question = IF ui.tab = "questions" THEN ui.target ELSE 0])
-----------------------------------------------------------------------------
(* The server (internal/server/evaluations.go, evaluation_runs.go)         *)

There(n) == n \in Questions /\ server.questions[n].revision # 0 /\ n \notin server.gone
Kept == server.evaluation.revision # 0 /\ ~server.deleted
Writable ==
  FoldFunction(+, server.evaluation.revision, [n \in Questions |-> server.questions[n].revision])
    < MaxSaves

At(place) ==
  IF place.tab = "questions"
    THEN IF There(place.page) THEN server.questions[place.page] ELSE Nothing
    ELSE IF Kept /\ place.page = First THEN server.evaluation ELSE Nothing

Answered(c, item) ==
  calls' = (calls \ {c}) \union {[c EXCEPT !.stage = "ok", !.item = item, !.case = 0]}

ServeRead(c) ==
  /\ \/ c.op = "list" /\ Answered(c, At(c.place))
     \/ c.op = "open" /\ Kept /\ Answered(c, server.evaluation)
  /\ UNCHANGED server

\* A new question takes a number of its own; a saved one keeps it.
ServeQuestion(c) ==
  /\ c.op = "question"
  /\ \E n \in Questions :
       /\ \/ c.question = 0 /\ server.questions[n].revision = 0
          \/ c.question = n /\ There(n) /\ server.questions[n].revision = c.item.revision
       /\ server.questions[n].revision < MaxRevision /\ Writable
       /\ LET saved == [c.item EXCEPT !.revision = server.questions[n].revision + 1]
          IN /\ server' = [server EXCEPT
                  !.questions[n] = saved,
                  !.careless = @ \/ c.item.revision # server.questions[n].revision]
             /\ calls' = (calls \ {c}) \union
                         {[c EXCEPT !.stage = "ok", !.item = saved, !.question = n]}

MayStart(item, kind) == item.runs[kind] = "none" /\ ~Active(item)
Ended(do) == IF do = "collect" THEN "completed" ELSE "abandoned"

\* A linked evaluation snapshots the question as it is saved now.
ServeCreate(c) ==
  /\ c.op = "capture" /\ c.item.revision = 0 /\ server.evaluation.revision = 0 /\ Writable
  /\ \/ c.question = 0
     \/ /\ c.question # 0 /\ There(c.question)
        /\ server.questions[c.question].text = c.item.text
        /\ server.questions[c.question].revision = c.case
  /\ LET created == [c.item EXCEPT !.revision = 1, !.runs[c.kind] = "capturing"]
     IN server' = [server EXCEPT !.evaluation = created] /\ Answered(c, created)

ServeCapture(c) ==
  /\ c.op = "capture" /\ c.item.revision # 0
  /\ Kept /\ c.item.revision = server.evaluation.revision
  /\ Writable
  /\ \/ c.do = "start" /\ MayStart(server.evaluation, c.kind)
     \/ c.do # "start" /\ server.evaluation.runs[c.kind] = "capturing"
  /\ LET next == [server.evaluation EXCEPT
                    !.revision = @ + 1,
                    !.runs[c.kind] = IF c.do = "start" THEN "capturing" ELSE Ended(c.do)]
     IN /\ server' = [server EXCEPT
             !.evaluation = next,
             !.careless = @ \/ c.item.revision # server.evaluation.revision]
        /\ Answered(c, next)

ServeReview(c) ==
  /\ c.op = "review" /\ Kept /\ c.item.revision = server.evaluation.revision
  /\ Writable
  /\ LET next == [server.evaluation EXCEPT !.revision = @ + 1, !.review = c.item.review]
     IN /\ server' = [server EXCEPT
             !.evaluation = next,
             !.careless = @ \/ c.item.revision # server.evaluation.revision
                            \/ ~(Completed(c.item) \subseteq Completed(server.evaluation))]
        /\ Answered(c, next)

ServeRemove(c) ==
  /\ c.op = "remove"
  /\ \/ /\ c.question # 0 /\ There(c.question)
        /\ server.questions[c.question].revision = c.item.revision
        /\ server' = [server EXCEPT
             !.gone = @ \union {c.question},
             !.careless = @ \/ c.item.revision # server.questions[c.question].revision]
     \/ /\ c.question = 0 /\ Kept /\ ~Active(server.evaluation)
        /\ server.evaluation.revision = c.item.revision
        /\ server' = [server EXCEPT !.deleted = TRUE,
             !.careless = @ \/ c.item.revision # server.evaluation.revision]
  /\ Answered(c, Nothing)

Serve ==
  /\ \E c \in calls :
       /\ c.stage = "sent"
       /\ \/ ServeRead(c) \/ ServeQuestion(c) \/ ServeCreate(c) \/ ServeCapture(c)
          \/ ServeReview(c) \/ ServeRemove(c)
  /\ UNCHANGED ui

\* Another administrator works with the same records.
SomeoneElseWrites ==
  /\ server.others < MaxOthers
  /\ \/ \E n \in Questions :
          /\ There(n) /\ server.questions[n].revision < MaxRevision /\ Writable
          /\ \E text \in Texts :
               server' = [server EXCEPT !.questions[n].text = text, !.others = @ + 1,
                                        !.questions[n].revision = @ + 1]
     \/ \E n \in Questions :
          There(n) /\ server' = [server EXCEPT !.gone = @ \union {n}, !.others = @ + 1]
     \/ /\ Kept /\ ~Active(server.evaluation)
        /\ server' = [server EXCEPT !.deleted = TRUE, !.others = @ + 1]
     \/ /\ Kept /\ Writable
        /\ \E kind \in Kinds : \E state \in {"capturing", "completed", "abandoned"} :
             /\ IF state = "capturing" THEN MayStart(server.evaluation, kind)
                ELSE server.evaluation.runs[kind] = "capturing"
             /\ server' = [server EXCEPT !.evaluation.revision = @ + 1, !.others = @ + 1,
                                         !.evaluation.runs[kind] = state]
     \/ /\ Kept /\ Writable /\ Completed(server.evaluation) # {}
        /\ server' = [server EXCEPT !.evaluation.revision = @ + 1, !.others = @ + 1,
                                    !.evaluation.review = IF @ = "a" THEN "b" ELSE "a"]
  /\ UNCHANGED <<ui, calls>>
-----------------------------------------------------------------------------
(* The continuations in the browser                                        *)

Freed == [ui EXCEPT !.busy = FALSE]

ListArrives(c, others) ==
  /\ c.op = "list" /\ calls' = others
  /\ ui' = IF c.stage = "ok"
             THEN [ui EXCEPT !.rows = c.item, !.of = c.place, !.loading = FALSE]
             ELSE [ui EXCEPT !.failed = TRUE, !.loading = FALSE]

\* The record takes the screen; the library, if it was open, goes.
OpenArrives(c, others) ==
  /\ c.op = "open"
  /\ IF c.stage = "ok"
       THEN /\ ui' = [Emptied EXCEPT !.busy = FALSE, !.record = c.item, !.form = c.item.text]
            /\ calls' = others \ Lists
       ELSE ui' = Freed /\ calls' = others

QuestionSaved(c, others) ==
  /\ c.op = "question" /\ calls' = others
  /\ ui' = IF c.stage = "ok"
             THEN [Freed EXCEPT !.saved = c.item, !.question = c.question, !.dirty = FALSE,
                                !.overwritten = @ \/ ui.form # c.item.text]
             ELSE Freed

CaptureArrives(c, others) ==
  /\ c.op = "capture" /\ calls' = others
  /\ ui' = IF c.stage = "ok"
             THEN [Freed EXCEPT !.record = c.item, !.form = c.item.text, !.dirty = FALSE,
                                !.edited = FALSE, !.overwritten = @ \/ ui.edited
                                  \/ (ui.record.revision = 0 /\ ui.form # c.item.text)]
             ELSE Freed

ReviewSaved(c, others) ==
  /\ c.op = "review" /\ calls' = others
  /\ ui' = IF c.stage = "ok"
             THEN [Freed EXCEPT !.record = c.item, !.edited = FALSE,
                                !.overwritten = @ \/ ui.record.review # c.item.review]
             ELSE Freed

RecordRemoved(c, others) ==
  /\ c.op = "remove"
  /\ IF c.stage = "ok"
       THEN /\ ui' = [Freed EXCEPT !.deleting = Nothing, !.target = First, !.loading = TRUE,
                                   !.failed = FALSE, !.rows = Nothing, !.of = FirstPlace("history")]
            /\ calls' = (others \ Lists) \union
                        {[Request("list") EXCEPT !.place = Here]}
       ELSE ui' = [Freed EXCEPT !.failed = TRUE] /\ calls' = others

\* What the page hears of a request: its answer, or that there will be none.
Heard(c) ==
  {[c EXCEPT !.stage = "failed"]} \union (IF c.stage = "sent" THEN {} ELSE {c})

Deliver ==
  /\ \E asked \in calls : \E c \in Heard(asked) :
       LET others == calls \ {asked} IN
         \/ ListArrives(c, others) \/ OpenArrives(c, others) \/ QuestionSaved(c, others)
         \/ CaptureArrives(c, others) \/ ReviewSaved(c, others) \/ RecordRemoved(c, others)
  /\ UNCHANGED server

Next ==
  \/ Change \/ SelectTab \/ SaveQuestion \/ StartCapture \/ EndCapture \/ EditReview
  \/ SaveReview \/ AskDiscard \/ KeepEditing \/ Reset \/ OpenEvaluation \/ RefreshList
  \/ ApplyFilters \/ TurnPage \/ UseQuestion \/ OpenRow \/ AskRemove \/ KeepRecord \/ Remove
  \/ Serve \/ SomeoneElseWrites \/ Deliver

Spec == Init /\ [][Next]_vars
-----------------------------------------------------------------------------
(* A question, a capture, a review and a deletion change the record the    *)
(* user was looking at, whatever other administrators did since.           *)
WritesReplaceWhatWasShown == ~server.careless

(* No answer replaces a question or a review the user typed since it was   *)
(* asked for.                                                              *)
EditsSurviveReads == ~ui.overwritten

(* The rows listed are those of the tab, the page and the filters on       *)
(* screen.                                                                 *)
AnswersMatchTheScreen ==
  (InLibrary /\ ~ui.loading /\ ~ui.failed) => ui.of = Here
=============================================================================

---------------------------- MODULE ConsolePages ----------------------------
(***************************************************************************)
(* The pages of the management console, one of which is on screen          *)
(* (web/src/App.tsx renders the page of the address).  Each page keeps     *)
(* its own copy of the server's records, its own forms and its own         *)
(* requests; other administrators change the same records meanwhile.       *)
(*                                                                         *)
(* The properties below are what the pages have in common.  ConsoleShell   *)
(* models how pages are opened and left.                                   *)
(***************************************************************************)
EXTENDS Integers, FiniteSets, Sequences

CONSTANTS
  MaxRequests,   \* bound on requests in flight
  MaxRevision,   \* bound on the server's writes of a page's records
  MaxPublications,   \* query tools: bound on the revisions of a draft
  MaxCalls,      \* query tools: bound on the calls Agents make
  MaxWrites,     \* settings: bound on the server's writes
  MaxMounted,    \* settings: bound on the sections mounted that ask the server
  MaxChecks,     \* health: bound on the checks that find something
  MaxChanges,    \* health: bound on changes of connection and schedule
  LibraryQuestions, LibraryPages, LibraryFilters, MaxSaves, MaxOthers,   \* evaluations
  AgentNames, Initial,   \* Agents there may be, and those at the start
  Clients, Registered,   \* OAuth clients there may be, and those at the start
  MaxLog, PageSize, MaxPages,   \* audit: records, records on a page, pages
  MaxCatalogs,   \* catalog of queries: bound on its changes
  MaxLinks       \* concept: bound on the links asked for at a time

ASSUME PagesAssumption ==
  /\ LibraryQuestions # {} /\ LibraryQuestions \subseteq LibraryPages
  /\ LibraryPages \subseteq Nat \ {0} /\ "" \in LibraryFilters
  /\ Initial \subseteq AgentNames /\ Registered \subseteq Clients /\ PageSize \in Nat \ {0}
  /\ MaxRevision \in Nat /\ MaxPublications \in Nat \ {0, 1}
  /\ MaxChecks \in Nat /\ MaxChanges \in Nat

VARIABLES page, server, ui, requests

pagesVars == <<page, server, ui, requests>>

Semantics  == INSTANCE SemanticsConsole WITH calls <- requests
QueryTools == INSTANCE QueryToolsConsole
                WITH calls <- requests, MaxRevision <- MaxPublications
Sources    == INSTANCE SourcesConsole WITH calls <- requests
Explorer   == INSTANCE SourceExplorer WITH calls <- requests
Ontology   == INSTANCE OntologyConsole WITH calls <- requests
Mapping    == INSTANCE MappingConsole WITH calls <- requests
Settings   == INSTANCE SettingsConsole WITH calls <- requests
Health     == INSTANCE HealthConsole WITH calls <- requests
Evaluation == INSTANCE EvaluationConsole
                WITH calls <- requests, Questions <- LibraryQuestions, Pages <- LibraryPages,
                     Filters <- LibraryFilters
AgentsPage == INSTANCE AgentsConsole WITH calls <- requests, Agents <- AgentNames
OAuth      == INSTANCE OAuthClientsConsole WITH calls <- requests
Audit      == INSTANCE AuditConsole WITH calls <- requests
Catalog    == INSTANCE CatalogConsole WITH calls <- requests, MaxRevision <- MaxCatalogs
Concept    == INSTANCE ConceptConsole WITH calls <- requests, MaxRequests <- MaxLinks
HomePage   == INSTANCE HomeConsole WITH calls <- requests, MaxChecks <- MaxChanges
Resume     == INSTANCE ResumeConsole WITH calls <- requests, MaxRevision <- MaxPublications

NoServer == "none"

PagesInit ==
  \/ page = "semantics"  /\ Semantics!Init
  \/ page = "tools"      /\ QueryTools!Init
  \/ page = "sources"    /\ Sources!Init
  \/ page = "explorer"   /\ Explorer!Init /\ server = NoServer
  \/ page = "ontology"   /\ Ontology!Init
  \/ page = "mapping"    /\ Mapping!Init
  \/ page = "settings"   /\ Settings!Init
  \/ page = "health"     /\ Health!Init
  \/ page = "evaluation" /\ Evaluation!Init
  \/ page = "agents"     /\ AgentsPage!Init
  \/ page = "oauth"      /\ OAuth!Init
  \/ page = "audit"      /\ Audit!Init
  \/ page = "catalog"    /\ Catalog!Init
  \/ page = "concept"    /\ Concept!Init
  \/ page = "home"       /\ HomePage!Init
  \/ page = "resume"     /\ Resume!Init

PagesNext ==
  \/ page = "semantics"  /\ Semantics!Next /\ UNCHANGED page
  \/ page = "tools"      /\ QueryTools!Next /\ UNCHANGED page
  \/ page = "sources"    /\ Sources!Next /\ UNCHANGED page
  \/ page = "explorer"   /\ Explorer!Next /\ UNCHANGED <<page, server>>
  \/ page = "ontology"   /\ Ontology!Next /\ UNCHANGED page
  \/ page = "mapping"    /\ Mapping!Next /\ UNCHANGED page
  \/ page = "settings"   /\ Settings!Next /\ UNCHANGED page
  \/ page = "health"     /\ Health!Next /\ UNCHANGED page
  \/ page = "evaluation" /\ Evaluation!Next /\ UNCHANGED page
  \/ page = "agents"     /\ AgentsPage!Next /\ UNCHANGED page
  \/ page = "oauth"      /\ OAuth!Next /\ UNCHANGED page
  \/ page = "audit"      /\ Audit!Next /\ UNCHANGED page
  \/ page = "catalog"    /\ Catalog!Next /\ UNCHANGED page
  \/ page = "concept"    /\ Concept!Next /\ UNCHANGED page
  \/ page = "home"       /\ HomePage!Next /\ UNCHANGED page
  \/ page = "resume"     /\ Resume!Next /\ UNCHANGED page

PagesSpec == PagesInit /\ [][PagesNext]_pagesVars
-----------------------------------------------------------------------------
PagesTypeOK ==
  /\ page = "semantics"  => Semantics!TypeOK
  /\ page = "tools"      => QueryTools!TypeOK
  /\ page = "sources"    => Sources!TypeOK
  /\ page = "explorer"   => Explorer!TypeOK
  /\ page = "ontology"   => Ontology!TypeOK
  /\ page = "mapping"    => Mapping!TypeOK
  /\ page = "settings"   => Settings!TypeOK
  /\ page = "health"     => Health!TypeOK
  /\ page = "evaluation" => Evaluation!TypeOK
  /\ page = "agents"     => AgentsPage!TypeOK
  /\ page = "oauth"      => OAuth!TypeOK
  /\ page = "audit"      => Audit!TypeOK
  /\ page = "catalog"    => Catalog!TypeOK
  /\ page = "concept"    => Concept!TypeOK
  /\ page = "home"       => HomePage!TypeOK
  /\ page = "resume"     => Resume!TypeOK

(* The values are of their types, and a write changes the record that was  *)
(* on screen when it was asked for, at the revision it was shown at,       *)
(* whatever other administrators saved since; the exceptions are the       *)
(* entries of EntryEditsPreserved.                                         *)
WritesReplaceWhatWasShown ==
  /\ PagesTypeOK
  /\ page = "semantics"  => Semantics!WritesReplaceWhatWasShown
  /\ page = "tools"      => QueryTools!WritesReplaceWhatWasShown
  /\ page = "sources"    => Sources!WritesReplaceWhatWasShown
  /\ page = "ontology"   => Ontology!WritesReplaceWhatWasShown
  /\ page = "mapping"    => Mapping!WritesReplaceWhatWasShown
  /\ page = "settings"   => Settings!WritesReplaceWhatWasShown
  /\ page = "health"     => Health!WritesReplaceWhatWasShown
  /\ page = "evaluation" => Evaluation!WritesReplaceWhatWasShown
  /\ page = "agents"     => AgentsPage!WritesReplaceWhatWasShown
  /\ page = "oauth"      => OAuth!WritesReplaceWhatWasShown
  /\ page = "concept"    => Concept!WritesReplaceWhatWasShown

(* What is shown answers what is asked on screen: an answer to an earlier  *)
(* question, filter, page or draft, which may arrive late, is not shown as *)
(* one to the present, and no audit record is passed over from one page to *)
(* the next.                                                               *)
AnswersMatchTheScreen ==
  /\ page = "semantics"  => Semantics!AnswersMatchTheScreen
  /\ page = "tools"      => QueryTools!WaitsForWhatIsShown
  /\ page = "explorer"   => Explorer!AnswersMatchTheScreen
  /\ page = "mapping"    => Mapping!AnswersMatchTheScreen
  /\ page = "settings"   => Settings!AnswersMatchTheScreen
  /\ page = "evaluation" => Evaluation!AnswersMatchTheScreen
  /\ page = "audit"      => Audit!AnswersMatchTheScreen /\ Audit!PagesSkipNothing
  /\ page = "catalog"    => Catalog!AnswersMatchTheScreen
  /\ page = "concept"    => Concept!AnswersMatchTheScreen
  /\ page = "home"       => HomePage!AnswersMatchTheScreen
  /\ page = "resume"     => Resume!AnswersMatchTheScreen

(* A confirmation is of what is on screen: a query is called confirmed     *)
(* where the selected Agent called the version shown, and the version that *)
(* is deleted is the one that was picked.                                  *)
ConfirmationIsEarned ==
  /\ page = "tools"    => QueryTools!ConfirmationIsEarned
  /\ page = "ontology" => Ontology!ConfirmationIsEarned

(* The result of a connection test is stored for the connection it tested, *)
(* while the source is edited.                                             *)
ProbesDescribeTheirSource == page = "sources" => Sources!ProbesDescribeTheirSource

(* A token, a secret or a temporary password that is shown once stays on   *)
(* screen until it is acknowledged or given up, and a section of the       *)
(* settings that is not on screen holds no unsaved work and no request     *)
(* whose answer would be lost.  Only two things lose one, and take the     *)
(* page away with it: a 401 to a request of the page, a background refresh *)
(* included, which ends the session (api.ts:57-64, App.tsx:220-228); and   *)
(* leaving the pages of Agents and OAuth clients by Back, which they do    *)
(* not guard.                                                              *)
CredentialsAreNotLost ==
  /\ page = "settings" => Settings!CredentialsAreNotLost /\ Settings!HiddenSectionsHoldNoWork
  /\ page = "agents"   => AgentsPage!CredentialsAreNotLost
  /\ page = "oauth"    => OAuth!CredentialsAreNotLost

(* What the user typed is not replaced by an answer to something asked     *)
(* before it was typed.  The health page has two exceptions, where the     *)
(* code does replace it: a load that Retry started under a running         *)
(* operation, and the load after a check, which stays in flight when the   *)
(* lists read beside it fail first (Health.tsx:286).                       *)
EditsSurviveReads ==
  /\ page = "health"     => Health!EditsSurviveReads
  /\ page = "evaluation" => Evaluation!EditsSurviveReads

(* An entry of a catalog, an item of an ontology and a row of a mapping    *)
(* are saved over the entry the editor was opened on, never over one that  *)
(* another administrator saved meanwhile.                                  *)
EntryEditsPreserved ==
  /\ page = "semantics" => Semantics!EntryEditsPreserved
  /\ page = "ontology"  => Ontology!EntryEditsPreserved
  /\ page = "mapping"   => Mapping!EntryEditsPreserved
=============================================================================

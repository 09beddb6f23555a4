SPECIFICATION PagesSpec
CONSTANTS
  MaxRequests = 2
  MaxRevision = 2
  MaxPublications = 3
  MaxCalls = 1
  MaxWrites = 2
  MaxMounted = 1
  MaxChecks = 1
  MaxChanges = 1
  LibraryQuestions = {1}
  LibraryPages = {1, 2}
  LibraryFilters = {""}
  MaxSaves = 3
  MaxOthers = 1
  AgentNames = {"one", "two"}
  Initial = {"one"}
  Clients = {"one", "two"}
  Registered = {"one"}
  MaxLog = 3
  PageSize = 1
  MaxPages = 4
  MaxCatalogs = 2
  MaxLinks = 1
INVARIANTS
  WritesReplaceWhatWasShown
  AnswersMatchTheScreen
  ConfirmationIsEarned
  ProbesDescribeTheirSource
  CredentialsAreNotLost
  EditsSurviveReads
CHECK_DEADLOCK FALSE

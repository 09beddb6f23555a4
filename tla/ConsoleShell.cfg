SPECIFICATION Spec
CONSTANTS
  Paths = {"/", "/sources"}
  Home = "/"
  MaxInFlight = 2
  MaxSteps = 4
  MaxSignIns = 2
INVARIANTS
  PageKeepsItsEntry
  TokenIsOfTheShownSession
PROPERTIES
  LoadingSettles

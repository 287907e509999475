SPECIFICATION FairSpec
CONSTANTS
  panel = panel
  card = card
  badge = badge
  page = page
  File <- MCFile
  App <- MCApp
  Route <- MCRoute
  Imports <- MCImports
  Below <- MCBelow
  Importers <- MCImporters
  Order <- MCOrder
  MaxEdits <- MCMaxEdits
  MaxSaves = 2
  MaxRunning = 2
  Registered <- MCRegistered
  FirstModule = FirstModule
  None = None
INVARIANTS TypeOK StaleOnlyIfRaced CleanEditsReachPages
\* When all saves are served nothing is left to do.
CHECK_DEADLOCK FALSE
PROPERTIES ReloadsEnd

SPECIFICATION ItemsSpec
CONSTANTS
  tool = tool
  message = message
  Items = {tool, message}
  Kind <- MCKind
  Words <- MCWords
  MaxWire = 2
  MaxReads = 2
  Nothing = Nothing
INVARIANTS
  RefreshIsExact
PROPERTIES
  ShownGrows
  CompletedIsShown
CHECK_DEADLOCK FALSE

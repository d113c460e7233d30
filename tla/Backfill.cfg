SPECIFICATION Spec
CONSTANTS
  LastWeek = 2
  LastTime = 5
  World <- MCWorld
  Firsts = {4, 5}
  Finals = {4, 5}
  Froms = {3, 5}
  Bounds = {TRUE, FALSE}
  Crawls = {{0, 1, 3, 4}, {1, 2, 4}}
  Cadence = 2
  attempts = 2
  None = None
  Torn = Torn
INVARIANTS TypeOK NoHindsight WithinCadence
PROPERTIES Immutable SilentWhenComplete
CHECK_DEADLOCK FALSE

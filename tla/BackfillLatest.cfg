SPECIFICATION SmoothSpec
CONSTANTS
  LastWeek = 2
  LastTime = 5
  World <- MCWorld
  Firsts = {4, 5}
  Finals = {4, 5}
  Froms = {3, 5}
  Bounds = {TRUE, FALSE}
  Crawls = {{0, 1, 3, 4}, {1, 2, 4}}
  Cadence = 1
  attempts = 4
  None = None
  Torn = Torn
INVARIANT LatestIsTaken
CHECK_DEADLOCK FALSE

CONSTANTS
  t1 = t1
  t2 = t2
  e1 = e1
  None = None
  Tab = {t1, t2}
  Player = {1, 2, 3}
  SquadSize = 2
  Team = {e1}
  Owned <- MCOwned
  Held = {2, 3}
  Barred = {1}
  Seed = {2}
  Optimum <- MCOptimum
  Varied <- MCVaried
  authed = TRUE
  Clicks <- MCClicks
  MaxClicks = 5
SPECIFICATION Spec
INVARIANTS TypeOK OneStandingPerPlayer ShownObeys NoneIsDropped PageIsStored
PROPERTY EverySaveSettles
CHECK_DEADLOCK FALSE

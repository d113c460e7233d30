SPECIFICATION Spec
CONSTANTS
  Player = {p1, p2}
  Minutes = {m1}
  Gameweek = {}
  MaxDay = 1
  Day <- MCDay
  NoOverride = NoOverride
  Unset = Unset
  Thread = {t1, t2}
  Free = Free
  NoCall = NoCall
  SetModes = {"lock", "exclude", "minutes", "clear", "confirm"}
  AgentCalls <- MCAgentCalls
  ServeCalls <- MCServeCalls
INVARIANTS TypeOK SavedIsLoaded ExclusiveUnlessMixed NoLockWithoutHome
PROPERTIES SavesTouchOnlyTheNamed ConfirmedIsCarried ImplementsBook
SYMMETRY Symmetry
CHECK_DEADLOCK FALSE

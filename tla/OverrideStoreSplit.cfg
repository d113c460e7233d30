SPECIFICATION OrderlySpec
CONSTANTS
  Player = {p1}
  Minutes = {m1}
  Gameweek = {}
  MaxDay = 0
  Day <- MCDay
  NoOverride = NoOverride
  Unset = Unset
  Thread = {t1}
  Free = Free
  NoCall = NoCall
  SetModes = {"lock", "exclude", "minutes", "clear"}
  AgentCalls <- MCAgentCalls
  ServeCalls <- MCServeCalls
INVARIANT NeverLockedAndExcluded
CHECK_DEADLOCK FALSE

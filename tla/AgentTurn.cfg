SPECIFICATION Spec
CONSTANTS
  Player = {"p", "q"}
  Minutes = {60, 90}
  Gameweek = {1, 2}
  Day = {0}
  NoOverride = NoOverride
  Unset = Unset
  Now = 2
  Club = {"c", "d"}
  Competition = {"europa", "cup"}
  European = {"europa"}
  End = {"open", "spring"}
  NoEnd = "open"
  NoWindow = NoWindow
  FirstWindows <- MCFirstWindows
  ToolCall <- MCToolCall
  Reply <- MCReply
  MaxIterations = 2
  MaxRestarts = 2
INVARIANTS
  TypeOK AnOverrideBindsAtOnce EngineHoldsEveryCorrection ALoneCorrectionIsSaved ResumesWithItsWork
PROPERTIES EveryAskEnds

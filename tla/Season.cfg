SPECIFICATION Spec
CONSTANTS
  Player = {"d1", "d2", "d3", "f1", "f2", "f3"}
  Slot = {"D1", "D2", "F"}
  Position = {"D", "F"}
  PlayerPos <- MCPos
  SlotPos <- MCSlotPos
  Club <- MCClub
  ClubCap = 2
  LastGW = 4
  ResetGW = 3
  MaxBanked = 3
  Market <- MCMarket
  Budget = 10
  Entry = {1, 2}
  Config <- MCConfig
INVARIANTS TypeOK MoneyIsRight SquadAndWalletAgree KeepsTheRules
PROPERTIES PlaysALegalSeason

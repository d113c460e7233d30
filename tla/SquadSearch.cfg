SPECIFICATION Spec
CONSTANTS
  Player = {1, 2, 3, 4, 5, 6, 7, 8, 9, 10}
  Position = {"G", "D", "F"}
  PosNames <- MCPosNames
  Keeper = "G"
  PosOf <- MCPosOf
  Quota <- MCQuota
  XIMin <- MCXIMin
  XIMax <- MCQuota
  XISize = 4
  Club = {1, 2, 3}
  MaxPerClub = 2
  PerPrice = 1
  Whole = 10
  ViceShare = 1
  BenchWorth <- MCBenchWorth
  Eps = 5
  World <- MCWorld
  Request <- MCRequest
  Worker = {"w1", "w2"}
  CheapN = 2
  StrongN = 3
  FundN = 2
  FundingSlack = 2
  FundingCandidates = 2
  BenchWeight = 2
  Rounds <- MCRounds
INVARIANTS
  TypeOK SolvesExactly ReplayIsTheScan ObeysTheRequest BooksAreRight NeverWorseThanItsStart

CONSTANTS
  Markets = 3
  MaxBooks = 3
SPECIFICATION FairSpec
INVARIANTS SellsItsOwnToken OpensOnItsOwnQuotes BeatIsThisMarkets EverythingSwitches
PROPERTY FollowsTheSlot
CHECK_DEADLOCK FALSE

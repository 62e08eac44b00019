SPECIFICATION FairSpec
CONSTANTS
  SF7 = 7
  SF12 = 12
  MaxFrames = 2
INVARIANT TypeOK
PROPERTIES
  ForwardsGood
  KeepsPolling

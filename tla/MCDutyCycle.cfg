SPECIFICATION FairSpec
CONSTANTS
  Ids = {0, 1}
  DefaultIds = {0}
  CfIds = {1}
  UserIds = {0, 1}
  UserMask = {0, 1}
  Bands = {0, 1}
  HomeBand <- MCHomeBand
  DCycle <- MCDCycle
  Dr5 = 0
  MaxDr = 1
  NewChannels <- MCNewChannels
  Airtimes = {1, 2}
  AggregatedDCycles = {1, 2}
  Horizon = 4
  JoinDCycle = 2
INVARIANTS
  TypeOK
  SearchEnds
PROPERTIES
  BandsRest
  DelayEnds

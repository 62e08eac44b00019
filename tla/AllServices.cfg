SPECIFICATION FairSpec
CONSTANTS
  QueueLen = 2
  Requests <- MCRequests
  Statuses <- MCStatuses
  Class = "A"
  NbRep = 2
  NbTrials = 3
  MaxJoinTrials = 2
  MinDr = 0
  MaxDr = 1
  DefaultDr = 1
  LongDr = 1
  JoinDatarates <- LowestDr
  AdrOn = TRUE
  Waits <- AnyTime
  TxTimeouts = TRUE
  Services <- AllMlme
  McpsTypes <- DataMcps
  Downlinks <- ServiceFrames
  MaxRequests = 2
  MaxSessions = 1
  MaxUpLink = 3
INVARIANTS
  StateChecked
  DelayTimed
  ConfirmsPending
PROPERTIES
  McpsConfirmed
  MlmeConfirmed
CHECK_DEADLOCK FALSE

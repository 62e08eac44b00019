SPECIFICATION Spec
CONSTANTS
  QueueLen = 2
  Requests <- MCRequests
  Statuses <- MCStatuses
  Class = "C"
  NbRep = 1
  NbTrials = 2
  MaxJoinTrials = 2
  MinDr = 0
  MaxDr = 1
  DefaultDr = 1
  LongDr = 1
  JoinDatarates <- LowestDr
  AdrOn = FALSE
  Waits <- AtOnce
  TxTimeouts = FALSE
  Services <- JoinOnly
  McpsTypes <- DataMcps
  Downlinks <- JoinFrames
  MaxRequests = 2
  MaxSessions = 1
  MaxUpLink = 3
PROPERTY JoinedOnRequest
CHECK_DEADLOCK FALSE

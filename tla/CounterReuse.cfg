SPECIFICATION Spec
CONSTANTS
  QueueLen = 2
  Requests <- MCRequests
  Statuses <- MCStatuses
  Class = "A"
  NbRep = 2
  NbTrials = 3
  MaxJoinTrials = 2
  MinDr = 0
  MaxDr = 1
  DefaultDr = 1
  LongDr = 1
  JoinDatarates <- LowestDr
  AdrOn = FALSE
  Waits <- AtOnce
  TxTimeouts = TRUE
  Services <- JoinOnly
  McpsTypes <- DataMcps
  Downlinks <- JoinFrames
  MaxRequests = 2
  MaxSessions = 2
  MaxUpLink = 4
INVARIANT CountersFollowRequests
CHECK_DEADLOCK FALSE

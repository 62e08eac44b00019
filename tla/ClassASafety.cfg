SPECIFICATION Spec
CONSTANTS
  QueueLen = 2
  Requests <- MCRequests
  Statuses <- MCStatuses
  Class = "A"
  NbRep = 2
  NbTrials = 7
  MaxJoinTrials = 2
  MinDr = 0
  MaxDr = 2
  DefaultDr = 2
  LongDr = 1
  JoinDatarates <- LowestDr
  AdrOn = FALSE
  Waits <- AnyTime
  TxTimeouts = FALSE
  Services <- JoinOnly
  McpsTypes <- AllMcps
  Downlinks <- AllFrames
  MaxRequests = 2
  MaxSessions = 2
  MaxUpLink = 4
INVARIANTS
  TypeOK
  NothingCut
  CountersFollowRequests
  RetryTable
PROPERTIES
  JoinReported
  AckReported
  SessionKept
CHECK_DEADLOCK FALSE

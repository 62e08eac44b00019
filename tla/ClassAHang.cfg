SPECIFICATION FairSpec
CONSTANTS
  QueueLen = 2
  Requests <- MCRequests
  Statuses <- MCStatuses
  Class = "A"
  NbRep = 1
  NbTrials = 2
  MaxJoinTrials = 1
  MinDr = 0
  MaxDr = 1
  DefaultDr = 1
  LongDr = 1
  JoinDatarates <- LowestDr
  AdrOn = FALSE
  Waits <- AtOnce
  TxTimeouts = FALSE
  Services <- JoinOnly
  McpsTypes <- DataMcps
  Downlinks <- AnswerFrames
  MaxRequests = 1
  MaxSessions = 1
  MaxUpLink = 4
PROPERTY McpsConfirmed
CHECK_DEADLOCK FALSE

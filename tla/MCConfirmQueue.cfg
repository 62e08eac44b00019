SPECIFICATION Spec
CONSTANTS
  QueueLen = 3
  Requests <- MCRequests
  Statuses <- MCStatuses
INVARIANTS
  TypeOK
  RingInv
  LookupInv
PROPERTY ImplementsMlmeQueue

SPECIFICATION FairSpec
CONSTANTS
  TimerIds <- MCTimers
  Devices <- MCDevices
  DutyCycles = {2, 4}
  RejoinDelay = 3
  Delays = {1, 3}
  DeepSleepTicks = 1
  CALLS = 1
  MaxLate = 2
INVARIANTS
  TypeOK
  OnTime
  Wakes
  Unblocked
PROPERTIES
  SleepsAtRest
  KeepsTrying

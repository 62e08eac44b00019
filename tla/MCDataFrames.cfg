SPECIFICATION Spec
CONSTANTS
  Fcnts <- MCFcnts
  Loads <- MCLoads
  PayloadSizes = {1}
  MaxPayloads = {3, 8}
  LENGTH = 6
  FOPTS = 2
INVARIANTS
  TypeOK
  DeliveredOnce
  NoFreshMissed
  BuffersFit
PROPERTIES
  AckCarried
  StickyRepeated

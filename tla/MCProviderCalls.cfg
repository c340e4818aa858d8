CONSTANTS
  TransferTicks = 2
SPECIFICATION FairSpec
INVARIANTS
  TypeOK
  GateIsClosed
  GeneratedOnce
  OnlyTransfersOverrun
PROPERTIES
  EveryJobEnds
CHECK_DEADLOCK FALSE

SPECIFICATION Spec
CONSTANTS
  TxRing = 2
  RxRing = 2
  MyAddr = TRUE
  Kinds = {"unicast", "foreign"}
  MaxEvents = 5
INVARIANTS NothingLost  NoInterruptMissed LinkIsReal
PROPERTIES WholePackets FramesReachGuest LinkComesUp
CHECK_DEADLOCK FALSE

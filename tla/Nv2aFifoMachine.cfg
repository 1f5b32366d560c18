SPECIFICATION Safety
CONSTANTS
  Methods = {"bind", "nop"}
  MaxMethods = 2
  MaxCtl = 2
  MaxFrames = 1
  Modulo = 1
  CacheAccess = {{"push", "pull"}}
  Operations = {"save", "load", "reset", "resume"}
INVARIANTS ExactlyOnce HaltedIsQuiet SnapshotAtRest NoLostWakeup

SPECIFICATION FairThreads
CONSTANTS
  Methods = {"bind"}
  MaxMethods = 1
  MaxCtl = 1
  MaxFrames = 1
  Modulo = 1
  CacheAccess = {{"push", "pull"}}
  Operations = {"save", "reset"}
PROPERTIES OperationsFinish FramesArrive

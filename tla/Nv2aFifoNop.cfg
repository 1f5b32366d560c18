SPECIFICATION Safety
CONSTANTS
  Methods = {"bind", "nop"}
  MaxMethods = 2
  MaxCtl = 1
  MaxFrames = 0
  Modulo = 2
  CacheAccess = {{"push", "pull"}}
  Operations = {"reset"}
PROPERTIES NopFindsNoError

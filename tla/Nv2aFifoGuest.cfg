SPECIFICATION Spec
CONSTANTS
  Methods = {"bind", "nop", "flip", "incr"}
  MaxMethods = 3
  MaxCtl = 0
  MaxFrames = 0
  Modulo = 2
  CacheAccess = {{"push"}, {"push", "pull"}}
  Operations = {}
PROPERTIES StallsAreRespected ChannelIsValid NopFindsNoError MethodsDrain

SPECIFICATION Spec
CONSTANTS
  Vram = {0, 1, 2, 3, 4}
  MaxWidth = 2
  Draws <- MCDraws
  Textures <- MCTextures
  Blits <- MCBlits
  Display = 0
  CpuReads = {0}
  CpuWrites = {3}
  Values = {0, 1}
  MaxAge = 1
  MaxJobs = 3
  MaxAccesses = 1
  MaxRequests = 1
INVARIANTS SurfacesApart UpdateAssertions
PROPERTIES  AccessesFinish
CHECK_DEADLOCK FALSE

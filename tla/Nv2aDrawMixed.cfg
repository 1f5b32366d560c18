SPECIFICATION Spec
CONSTANTS
  Kinds = {{"draw", "element"}, {"array"}, {"vertex"}, {"draw"}}
  Ranges <- MCRanges
  Prims = {1, 2}
  MaxDraws = 4
  PerBlock = 3
  MaxOps = 8
  Ahead = 5
INVARIANTS BlocksStayApart BatchIsOneKind RangesAreBound
CHECK_DEADLOCK FALSE

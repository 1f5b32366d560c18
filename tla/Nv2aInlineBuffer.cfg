SPECIFICATION InlineSpec
CONSTANTS
  Attributes = {"position", "color"}
  Position = "position"
  Values = {1, 2}
  Default = 1
  MaxVertices = 3
INVARIANTS InlineTypeOK DrawnAsIssued

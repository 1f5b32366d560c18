SPECIFICATION Spec
CONSTANTS
  Renderers = {"null", "opengl", "vulkan"}
  Default = "opengl"
  MayFail = {"null", "opengl"}
  MaxChanges = 2
INVARIANTS PresenterIsOut GuestIsStopped
PROPERTIES ChoiceTakesEffect GuestGoesOn
CHECK_DEADLOCK FALSE

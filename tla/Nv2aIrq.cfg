SPECIFICATION IrqSpec
INVARIANTS StallHasCause PmcTracksUnits
PROPERTIES TrapIsSignalled

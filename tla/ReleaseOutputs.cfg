SPECIFICATION Spec
CONSTANTS
    Profiles = {"developer-alpha", "public"}
    MaxEdits = 2
    MaxRuns = 2
    MaxFails = 1
    None = None
CHECK_DEADLOCK FALSE
INVARIANTS TypeOK PhaseInvariant MakeInvariant SeenInvariant MomentInvariant OutputInvariant
PROPERTY OnlyOwnOutputsRemoved

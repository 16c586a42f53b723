SPECIFICATION Spec
CONSTANTS
    Profiles = {"developer-alpha", "public"}
    MaxEdits = 2
    MaxRuns = 2
    MaxFails = 1
    None = None
INVARIANTS
    VerifiedIsOneMoment
    ShippedIsListed
    ManifestIsLast
CHECK_DEADLOCK FALSE

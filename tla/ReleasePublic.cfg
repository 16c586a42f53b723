SPECIFICATION FairSpec
CONSTANTS
    Profiles = {"public"}
    MaxEdits = 0
    MaxRuns = 1
    MaxFails = 0
    None = None
PROPERTY
    PublicBuildIsVerified
CHECK_DEADLOCK FALSE

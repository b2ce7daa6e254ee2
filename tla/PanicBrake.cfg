SPECIFICATION FairSpec
CONSTANTS
    MaxActs = 1
    Confirms = {c1}
    MaxPanics = 1
    MaxFaults = 1
INVARIANTS
    PanicHolds
    NoConsentAcrossPanic
PROPERTY BrakeLands
CHECK_DEADLOCK FALSE

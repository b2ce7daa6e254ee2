SPECIFICATION HostSpec
CONSTANTS
    MaxFlips = 2
    MaxDeaths = 1
    MaxPosts = 1
    PipeCap = 2
PROPERTIES
    ReleaseHandedOver
    KillTold

SPECIFICATION FairSpec
CONSTANTS
    None = None
    Cli = cli
    Hosts = {h1}
    MaxKeys = 2
    MaxNonces = 2
    MaxFaults = 1
    QueueCap = 1
INVARIANTS
    RevokedMeansGone
    NoStaleProof
PROPERTIES
    RevokeSettles
    DeadKeyNoticed

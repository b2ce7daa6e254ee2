SPECIFICATION FairSpec
CONSTANTS
    Own = own
    r1 = r1
    r2 = r2
    signer = signer
    Relays = {r1, r2}
    hash = hash
    Names = {n1}
    Anchors = {signer, hash}
    Matches <- MCMatches
    MaxClients = 2
    MaxPending = 2
INVARIANTS
    RefCountExact
    NoneAfterLatch
    RegistryExact
PROPERTIES
    RevocationReaches
    BrokerExits

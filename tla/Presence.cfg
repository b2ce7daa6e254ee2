SPECIFICATION Spec
CONSTANTS
    h1 = h1
    h2 = h2
    Hosts = {h1, h2}
    Fronts <- MCFronts
    c1 = c1
    c2 = c2
    Creds = {c1, c2}
    Counting = {c1}
    None = None
    Flaws = {"origin"}
    MaxStatements = 3
    MaxResponses = 3
    MaxRevokes = 1
    MaxFaults = 1
INVARIANTS
    OneActPerAttestation
    OneRootOfTrust
PROPERTIES
    VouchedByItsOwn
    CounterNeverBack
CHECK_DEADLOCK FALSE

SPECIFICATION ElectionSpec
CONSTANTS
    Nobody = Nobody
    Procs = {p1, p2, p3}
    Pids = {i1, i2, i3}
    Builds = {old, new}
    MaxTries = 2
SYMMETRY Symmetry
INVARIANT BrokerNamed

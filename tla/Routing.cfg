\* An evaluation and a decision on a trip, while roads close and the
\* network is rebuilt.
SPECIFICATION Spec
CONSTANTS
    highway = highway
    bypass = bypass
    ferry = ferry
    expressway = expressway
    Edge = {highway, bypass, ferry, expressway}
    Network <- Networks
    EdgesOf <- EdgesOfVersion
    Index <- IndexOf
    Path <- Paths
    Unfit = {ferry}
    Trip = {t1}
    Evaluation = {p1}
    Decider = {d1}
    Lifetime = 1
    MaxClock = 2
    MaxVersion = 3
    None = None
CHECK_DEADLOCK FALSE
INVARIANTS
    RoutesAreSound
PROPERTIES
    DecisionsAreFresh
    FirstNetworkIsABoard

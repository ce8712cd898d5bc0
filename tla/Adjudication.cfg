\* Six requests: four on two reports, any two of which may overlap, or three on three
\* active incidents.
SPECIFICATION MCSpec
CONSTANTS
    officer = officer
    verifier = verifier
    district = district
    highway = highway
    bypass = bypass
    Request = {1, 2, 3, 4, 5, 6}
    Report = {1, 2}
    Edge = {highway, bypass}
    User = {officer, verifier}
    Verifier = {verifier}
    Home <- HomeOf
    Scope <- ScopeOf
    Submission <- Observations
    Impact <- Impacts
    Match = {1, 4}
    None = None
CHECK_DEADLOCK FALSE
INVARIANTS
    DecisionsAreSound
    IncidentKeepsRoadFromOpening
PROPERTIES
    CoverageEndsByResolution

\* Two operators race with each other and with one risk pass.
SPECIFICATION Spec
CONSTANTS
    Edge = {e1, e2}
    Declarer = {d1, d2}
    RiskPass = {w1}
    NoTxn = NoTxn
    NoEdge = NoEdge
SYMMETRY Symmetry
INVARIANTS
    VersionsAreSound
    SerialProjectionRebuildable
PROPERTIES
    ImplementsBoard
    SerialRiskOnlyEscalates

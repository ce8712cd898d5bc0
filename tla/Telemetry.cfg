\* Three batches of two devices: overlapping first batches, torn updates, deadlock.
SPECIFICATION Spec
CONSTANTS
    obd = obd
    phone = phone
    Device = {obd, phone}
    Rank <- RankOf
    Batch = {b1, b2, b3}
    Payload <- Payloads
    MaxSkew = 1
    MaxBackward = 1
    MaxAge = 0
    MaxClock = 1
    Vehicle = Vehicle
    None = None
SYMMETRY Symmetry
INVARIANTS
    HistoryIsSound
    PositionIsSound

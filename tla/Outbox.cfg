\* A process for each of two consumers, with crashes and failing handlers.
SPECIFICATION FairSpec
CONSTANTS
    evaluator = evaluator
    archive = archive
    w1 = w1
    w2 = w2
    e1 = e1
    Event = {1, 2}
    Edge = {e1}
    EdgeOf <- EdgeOfEvent
    NoEdge = NoEdge
    Consumer = {evaluator, archive}
    Evaluator = evaluator
    Worker = {w1, w2}
    ConsumerOf <- WorkerEach
    NoWorker = NoWorker
    BatchSize = 2
    MaxRetries = 2
    CrashLimit = 1
INVARIANTS
    ReceiptsAreSound
PROPERTIES
    EventuallySettled
    DeliversOnce

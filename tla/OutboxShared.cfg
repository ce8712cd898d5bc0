\* Two processes share a consumer: nothing is lost, though an event may be
\* handled twice.
SPECIFICATION FairSpec
CONSTANTS
    evaluator = evaluator
    archive = archive
    w1 = w1
    w2 = w2
    e1 = e1
    Event = {1, 2}
    Edge = {e1}
    EdgeOf <- EdgeOfEvent
    NoEdge = NoEdge
    Consumer = {evaluator}
    Evaluator = evaluator
    Worker = {w1, w2}
    ConsumerOf <- TwoEvaluators
    NoWorker = NoWorker
    BatchSize = 2
    MaxRetries = 1
    CrashLimit = 1
PROPERTIES
    EventuallySettled

SPECIFICATION Safety
CONSTANTS
    Images = {}
    Pdfs = {p1}
    Others = {}
    GroupA = {w1, w2}
    GroupB = {}
    Sweepers = {}
    Forced = {}
    Limit = 1
    DownloadLimit = 1
    Horizon = 0
    LongTTL = FALSE
    TTL = 1
    Faults = {"stop"}
    NoJob = NoJob
    g1 = g1
    g2 = g2
    Jobs <- MCJobs
    MediaType <- MCMedia
    Workers <- MCWorkers
    QueueGroup <- MCQueues
    p1 = p1
    w1 = w1
    w2 = w2
INVARIANTS PendingIsQueued
CHECK_DEADLOCK FALSE

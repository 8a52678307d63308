SPECIFICATION Safety
CONSTANTS
    Images = {}
    Pdfs = {p1}
    Others = {}
    GroupA = {w1}
    GroupB = {}
    Sweepers = {s1}
    Forced = {}
    Limit = 1
    DownloadLimit = 1
    Horizon = 1
    LongTTL = FALSE
    TTL = 1
    Faults = {}
    NoJob = NoJob
    g1 = g1
    g2 = g2
    Jobs <- MCJobs
    MediaType <- MCMedia
    Workers <- MCWorkers
    QueueGroup <- MCQueues
    p1 = p1
    s1 = s1
    w1 = w1
INVARIANTS ReapedIsClean
CHECK_DEADLOCK FALSE

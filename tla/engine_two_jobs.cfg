SPECIFICATION Safety
CONSTANTS
    Images = {}
    Pdfs = {p1, p2}
    Others = {}
    GroupA = {w1, w2}
    GroupB = {}
    Sweepers = {s1}
    Forced = {}
    Limit = 1
    DownloadLimit = 1
    Horizon = 2
    LongTTL = FALSE
    TTL = 1
    Faults = {"db", "crash", "ack", "fs", "media"}
    NoJob = NoJob
    g1 = g1
    g2 = g2
    Jobs <- MCJobs
    MediaType <- MCMedia
    Workers <- MCWorkers
    QueueGroup <- MCQueues
    p1 = p1
    p2 = p2
    s1 = s1
    w1 = w1
    w2 = w2
SYMMETRY Symmetry
INVARIANTS LiveFilesKept LinksWork
CHECK_DEADLOCK FALSE

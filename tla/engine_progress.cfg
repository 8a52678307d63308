SPECIFICATION Spec
CONSTANTS
    Images = {i1}
    Pdfs = {p1}
    Others = {}
    GroupA = {w1, w2}
    GroupB = {}
    Sweepers = {s1}
    Forced = {}
    Limit = 1
    DownloadLimit = 1
    Horizon = 2
    LongTTL = FALSE
    TTL = 1
    Faults = {"media"}
    NoJob = NoJob
    g1 = g1
    g2 = g2
    Jobs <- MCJobs
    MediaType <- MCMedia
    Workers <- MCWorkers
    QueueGroup <- MCQueues
    i1 = i1
    p1 = p1
    s1 = s1
    w1 = w1
    w2 = w2
INVARIANTS ProcessingIsOwned PendingIsQueued SettledIsAnnounced CompletedIsComplete
PROPERTIES FeedSpec AcceptedIsSettled ExpiredIsRemoved
CHECK_DEADLOCK FALSE

SPECIFICATION Safety
CONSTANTS
    Images = {}
    Pdfs = {p1}
    Others = {}
    GroupA = {w1}
    GroupB = {w2}
    Sweepers = {s1, a1}
    Forced = {a1}
    Limit = 1
    DownloadLimit = 1
    Horizon = 2
    LongTTL = FALSE
    TTL = 1
    Faults = {"db", "ack", "fs", "bus", "drop", "media", "crash", "stop"}
    NoJob = NoJob
    g1 = g1
    g2 = g2
    Jobs <- MCJobs
    MediaType <- MCMedia
    Workers <- MCWorkers
    QueueGroup <- MCQueues
    a1 = a1
    p1 = p1
    s1 = s1
    w1 = w1
    w2 = w2
SYMMETRY Symmetry
INVARIANTS TypeOK EventsFollowRows ClaimIsExclusive OutcomesAgree
PROPERTIES OnlyExpiredRemoved LifecycleSpec OwnershipSpec FeedSpec
CHECK_DEADLOCK FALSE

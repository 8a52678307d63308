SPECIFICATION Safety
CONSTANTS
    Images = {i1}
    Pdfs = {p1}
    Others = {o1}
    GroupA = {w1}
    GroupB = {}
    Sweepers = {s1, s2}
    Forced = {}
    Limit = 1
    DownloadLimit = 1
    Horizon = 2
    LongTTL = TRUE
    TTL = 1
    Faults = {"crash", "bus", "drop", "stop", "media"}
    NoJob = NoJob
    g1 = g1
    g2 = g2
    Jobs <- MCJobs
    MediaType <- MCMedia
    Workers <- MCWorkers
    QueueGroup <- MCQueues
    i1 = i1
    o1 = o1
    p1 = p1
    s1 = s1
    s2 = s2
    w1 = w1
SYMMETRY Symmetry
INVARIANTS CompletedLeavesNothing RejectedLeavesNothing
PROPERTIES FilesGoFirst
CHECK_DEADLOCK FALSE

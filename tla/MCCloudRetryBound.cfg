CONSTANTS
    MaxAttempts = 2
    WorkerIds = {id1, id2}
    NoWorker = NoWorker
    Jobs <- MCJobs
    w1 = w1
    w2 = w2
    id1 = id1
    id2 = id2
    Workers = {w1, w2}
    WorkerId <- MCWorkerId
    Unequipped <- MCUnequipped
    Requests = {r1}
    NoJob = NoJob
    MaxClaims = 3
    MaxCrashes = 0
SPECIFICATION Spec
INVARIANT RetriedAtMost

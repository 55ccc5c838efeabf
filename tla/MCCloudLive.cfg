CONSTANTS
    MaxAttempts = 2
    WorkerIds = {id1}
    NoWorker = NoWorker
    Jobs <- MCJobs
    w1 = w1
    id1 = id1
    Workers = {w1}
    WorkerId <- MCWorkerId
    Unequipped = {}
    Requests = {}
    NoJob = NoJob
    MaxClaims = 3
    MaxCrashes = 1
SPECIFICATION FairSpec
PROPERTY JobSettles

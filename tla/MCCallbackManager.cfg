CONSTANTS
    r1 = r1  r2 = r2  w1 = w1  w2 = w2  req = req  tm = tm
    None = None
    Reqs <- MCReqs
    Workers <- MCWorkers
    Requester = req
    Timer = tm
    ExpectCount <- MCExpectCount
    TimeoutSec <- MCTimeoutSec
SPECIFICATION Spec
INVARIANTS TypeOK CallbackAccounting
PROPERTY EventuallyAnswered

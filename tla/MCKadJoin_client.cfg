\* B in client mode, one bootstrap peer: does the join give B a dynamic xip?
CONSTANTS
    a1 = a1
    v1 = v1
    SelfAddr = self
    Boots <- MCBoots
    Virtuals <- MCVirtuals
    AppEndpoints <- MCBoots
    SelfPublic = TRUE
    JoinRetryTimes = 1
    FirstWait = 4
    MaxWait = 8
    VirtualLimit = 5
    MaxLoss = 1
    MaxDrops = 2
    MaxShakes = 1
    ClientMode = TRUE
    MaxDxips = 1
    EmptyDxip = EmptyDxip
SPECIFICATION Spec
INVARIANT ClientAddressed

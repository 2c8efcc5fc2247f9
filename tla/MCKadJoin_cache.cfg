\* One bootstrap peer and one virtual node.  JoinRetryTimes = 1 and
\* MaxWait = 8 stand for the code's 5 and 128: the backoff keeps its flat
\* phase, its doubling and its cap.
CONSTANTS
    a1 = a1
    v1 = v1
    SelfAddr = self
    Boots <- MCBoots
    Virtuals <- MCVirtuals
    AppEndpoints <- MCBoots
    SelfPublic = TRUE
    JoinRetryTimes = 1
    FirstWait = 4
    MaxWait = 8
    VirtualLimit = 5
    MaxLoss = 1
    MaxDrops = 2
    MaxShakes = 1
    ClientMode = FALSE
    MaxDxips = 1
    EmptyDxip = EmptyDxip
SPECIFICATION Spec

PROPERTY IsolationEnds

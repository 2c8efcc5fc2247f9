CONSTANTS
    n = n  b1 = b1  None = None
    Node = n
    Boots <- MCBoots
    NatKinds <- MCCone
    DetectCount = 2
    NodeDelay = 1
    QueueLimit = 1
    MaxStructs = 4
    MaxLoss = 0
    MaxDup = 1
    MaxFaults = 1
SPECIFICATION Spec
INVARIANT EntryAccounted
\* Once classification and the detections are over, the threads wait on
\* empty queues and the timers tick over empty maps.
CHECK_DEADLOCK FALSE

CONSTANTS
    pa = pa  pb = pb
    Peers <- MCPeers
    ConeAbnormal <- MCConeAbnormal
    DetectionTimes = 4
    ConeDelay = 3
    MaxConnects = 2
    MaxLoss = 2
    MaxDrops = 1
SPECIFICATION Spec
INVARIANTS TypeOK ConeDelayHonoured
PROPERTIES DetectionEnds HandshakesSettle
\* Once the bounded connect requests, losses and drops are used up and the
\* handshakes have settled, the peers are idle: their timers tick over
\* empty maps, which changes nothing.
CHECK_DEADLOCK FALSE

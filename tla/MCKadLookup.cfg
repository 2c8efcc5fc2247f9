CONSTANTS
    f = f
    a = a
    c = c
    Nodes <- MCNodes
    First = f
    NatType <- MCNatType
    Id <- MCId
    Addr <- MCAddr
    IdSize = 2
    BucketK = 8
    Targets <- MCTargets
    MaxDrops = 1
SPECIFICATION Spec
INVARIANTS TypeOK CloserMatchesXorDistance BucketMatchesSpec RelayNeverRevisits IsDestinationMatchesSpec
PROPERTIES PublicDiscovery

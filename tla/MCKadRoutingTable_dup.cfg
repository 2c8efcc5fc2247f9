CONSTANTS
    ca = ca  cb = cb  cc = cc  cd = cd  cv = cv  cs = cs  cx = cx
    w1 = w1  w2 = w2  hb = hb
    Self = Self
    None = None
    Workers <- MCWorkers2
    HbThread = hb
    Cands <- MCCands
    NodeId <- MCNodeId
    Hash <- MCHash
    Ep <- MCEp
    Bucket <- MCBucket
    BadCands <- MCBadCands
    SelfId <- MCSelfId
    SelfHash <- MCSelfHash
    K <- MCK
SPECIFICATION Spec
INVARIANT NoDuplicateId

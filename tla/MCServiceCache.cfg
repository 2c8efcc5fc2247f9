\* A root table's helper, two service types.  The code's capacity 8 and
\* eviction 4; a batch of up to 5 nodes, the least that outgrows one
\* eviction, and 6 refreshes or fetches.
CONSTANTS
    s1 = s1
    s2 = s2
    Types = {s1, s2}
    IsRoot = TRUE
    CacheSize = 8
    DeleteSize = 4
    FetchMax = 5
    MaxRounds = 6
    Absent = Absent
SPECIFICATION Spec
INVARIANT CacheBounded

CONSTANTS
    TagClients = {c1, c2}
    TagIds = {t1, t2}
    Images = {i1, i2}
    Classes = {l1, l2}
    Missing = Missing
    PageSize = 1
    MaxRequests = 2
    Clients = {c1, c2}
    Buckets = {t1, t2}
    ImageKeys = {k1, k2, k3}
    Pictures = {i1, i2}
    Models = {m1}
    Sizes = {s1}
    None = None
    MaxStored = 1
    MaxJobs = 2
    MaxFaults = 1
    FaceClients = {c1, c2}
    FaceIds = {k1, k2, k3}
    Vectors = {1, 2, 4}
    ClassIds = {g1}
    Nil = Nil
    MaxCalls = 3
    MaxBreaks = 1
SPECIFICATION Spec
INVARIANT TagsWhole
INVARIANT ImageWhole
INVARIANT NoDuplicates
INVARIANT ClassWhole
INVARIANT FacesOnce
SYMMETRY Symmetry
CHECK_DEADLOCK FALSE

CONSTANTS
    Workers = {c1, c2}
    c1 = c1
    c2 = c2
    Buckets = {pix, default}
    pix = pix
    default = default
    Default = default
    Objects = {cat, dog}
    cat = cat
    dog = dog
    Nobody = Nobody
    Ops = {"create", "drop", "put", "copy", "delete", "deleteAll"}
    MaxPuts = 2
    MaxCrashes = 1
SPECIFICATION Spec
INVARIANT HeadersDescribe
INVARIANT BucketsSound
CHECK_DEADLOCK TRUE

SPECIFICATION Spec
CONSTANTS
    Posts = {m1, m2, m3, m4, m5}
    MaxMillis = 3
    MaxBuckets = 3
    Limit = 2
\* The posts and buckets of the bound are over: nothing is left to do.
CHECK_DEADLOCK FALSE
SYMMETRY Symmetry
INVARIANTS
    TypeOK
    OnlyTwinsAreMissed

\* Does a key whose save returned stay in the file, with two goroutines of
\* one cache (one key) using the shared store at the same time?
CONSTANTS
    k1 = k1
    k2 = k2
    s1 = s1
    s2 = s2
    Keys = {k1}
    Sessions = {s1, s2}
    MaxWrites = 2
SPECIFICATION Spec
INVARIANT SavedKeysKept
CHECK_DEADLOCK FALSE

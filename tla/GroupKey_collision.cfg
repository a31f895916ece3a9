\* Do tuples with different group-by values ever share a group?  One
\* dimension suffices: the integer 1 and the string "1" print alike.
CONSTANTS
    Values <- MCValues
    NDims = 1
    MaxTuples = 2
SPECIFICATION Spec
INVARIANT GroupIffEqualValues

\* Is the final save of the Done branch what the next start loads, while a
\* saveCache goroutine of an earlier tick may still be writing?
CONSTANTS
    Limit = 2
    Threshold = 1
    MaxItems = 3
    MaxRestarts = 1
SPECIFICATION Spec
INVARIANT FinalSaveDurable
CHECK_DEADLOCK FALSE

\* Does the stored offset only count forwarded records?  The source sets
\* its offset when it hands a record to the buffer.
CONSTANTS
    NRecords = 3
    BufCap = 2
    MaxRestarts = 1
SPECIFICATION Spec
INVARIANT OffsetCountsForwarded
CHECK_DEADLOCK FALSE

\* Is a quiescent backlog eventually saved?  Two items are accepted and
\* delivered with no cancellation; after the last Complete the map is empty
\* and nothing changes any more, so the ticks alone must bring the store up
\* to date.
CONSTANTS
    Limit = 2
    Threshold = 1
    MaxItems = 2
    MaxRestarts = 0
SPECIFICATION FairSpec
PROPERTY BacklogEventuallyPersisted

\* Does a graceful stop keep the backlog?  The Done branch saves only when
\* changed is set, and every tick clears changed.
CONSTANTS
    Limit = 2
    Threshold = 1
    MaxItems = 2
    MaxRestarts = 1
SPECIFICATION Spec
INVARIANT StopPersistsBacklog
CHECK_DEADLOCK FALSE

\* Safety of the cache loop, the delivery worker and the asynchronous saves
\* over a cancellation and a restart.  Out holds 2 of the 3 items, so the
\* loop blocks on a full Out while the worker still drains it.
CONSTANTS
    Limit = 2
    Threshold = 1
    MaxItems = 3
    MaxRestarts = 1
SPECIFICATION Spec
INVARIANT TypeOK
INVARIANT QueueMirrorsPending
PROPERTY PendingNeverOverwritten
\* A cancelled rule stops for good after MaxRestarts, so the model may stop.
CHECK_DEADLOCK FALSE

\* Does every accepted item reach the sink when Out is small?  The loop
\* blocks sending on a full Out while the worker blocks sending on the
\* unbuffered Complete channel.
CONSTANTS
    Limit = 1
    Threshold = 1
    MaxItems = 3
    MaxRestarts = 0
SPECIFICATION FairSpec
PROPERTY AcceptedEventuallyDelivered
CHECK_DEADLOCK FALSE

\* Does the Open goroutine of a file source return once the rule stops?
\* A Load that fails (the first one, or a reload of the ticker loop) sends
\* its error on errCh outside a select; the worker may already have taken
\* ctx.Done() and returned.
CONSTANTS
    NRecords = 1
    BufCap = 1
    MaxLoads = 1
    Configs <- MCConfigs
SPECIFICATION FairSpec
PROPERTY OpenReturnsAfterCancel
CHECK_DEADLOCK FALSE

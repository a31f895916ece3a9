\* Replay after crashes: each incarnation forwards the records after the
\* offset it was rewound to, in order, none skipped.  Two crashes at any
\* point, a buffer of two records for three records.
CONSTANTS
    NRecords = 3
    BufCap = 2
    MaxRestarts = 2
SPECIFICATION Spec
INVARIANT TypeOK
INVARIANT ReplayResumesAtOffset
 
\* The model stops for good after the last record or MaxRestarts, and also
\* when the source blocks on a full buffer holding the mutex GetOffset needs.
CHECK_DEADLOCK FALSE

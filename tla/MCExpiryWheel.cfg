SPECIFICATION FairSpec
CONSTANTS
    Entry <- MCEntry
    BucketSize = 3
    MaxEntriesPerRun = 3
    DeleteBatchSize = 2
    MaxTime = 4
INVARIANTS
    TypeOK
    PendingExact
PROPERTIES
    ImplementsExpirySet
    DueIsDeleted

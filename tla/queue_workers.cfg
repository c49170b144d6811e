\* Two worker processes on one record's job, with a crash, an edit, an erasure
\* and a redeploy at any moment.
SPECIFICATION FairSpec
CONSTANTS
    r1 = r1
    w1 = w1
    w2 = w2
    Records = {r1}
    Workers = {w1, w2}
    NoRecord = NoRecord
    MaxAttempts = 2
    MaxEdits = 1
    MaxCrashes = 1
    MaxRedeploys = 1
INVARIANTS
    TypeOK
    DoneMeansDelivered
    NeverReadyNeverSent
    EveryPostAudited
PROPERTIES
    NeverPendingAgain
    ImplementsNotification
    OwedIsSettled
    DeletesEnd

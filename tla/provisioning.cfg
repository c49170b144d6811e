\* Two workers, a replay, a review, a crash.
SPECIFICATION FairSpec
CONSTANTS
    j1 = j1
    w1 = w1
    w2 = w2
    q1 = q1
    Jobs = {j1}
    Workers = {w1, w2}
    Requests = {q1}
    NoJob = NoJob
    MaxAttempts = 2
    MaxReplays = 1
    MaxEdits = 1
    MaxCrashes = 1
CHECK_DEADLOCK FALSE
INVARIANTS
    ResolvedMeansUser
PROPERTIES
    OnlyReplayReopens
    OwedIsSettled

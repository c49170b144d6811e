\* One record from each of two uploads, listed one to a page.
SPECIFICATION Spec
CONSTANTS
    r1 = r1
    r2 = r2
    r3 = r3
    u1 = u1
    u2 = u2
    Records = {r1, r2}
    Runs = {u1, u2}
    RunOf <- SomeRuns
    Flagged = {r2}
    Approved = {}
    Queries <- SomeQueries
    Before <- OneUpload
    Limit = 1
    Loads = {1, 2}
    MaxActs = 3
    All = All
    None = None
CHECK_DEADLOCK FALSE
INVARIANTS
    GoneStaysGone
PROPERTIES
    QuietListingIsWhole
    SpinnersStop

\* Two records, two requests at a time, three in all, a delete at any moment.
SPECIFICATION FairSpec
CONSTANTS
    r1 = r1
    r2 = r2
    q1 = q1
    q2 = q2
    odd = odd
    misread = misread
    Records = {r1, r2}
    Requests = {q1, q2}
    NoRequest = NoRequest
    Values = {odd, misread}
    Doubtful = {odd}
    Misread = {misread}
    MaxRequests = 3
CHECK_DEADLOCK FALSE
INVARIANTS
    FlagDescribesFields
    ReadyIsReviewed
    CountersDescribeRun
PROPERTIES
    EveryRequestEnds

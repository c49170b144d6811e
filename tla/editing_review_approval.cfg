\* One record, one request at a time: an approval, then a mapping review.
SPECIFICATION Spec
CONSTANTS
    r1 = r1
    r2 = r2
    q1 = q1
    q2 = q2
    odd = odd
    misread = misread
    Records = {r1}
    Requests = {q1}
    NoRequest = NoRequest
    Values = {odd, misread}
    Doubtful = {odd}
    Misread = {misread}
    MaxRequests = 3
CHECK_DEADLOCK FALSE
INVARIANTS
    NoPathSkipsReview

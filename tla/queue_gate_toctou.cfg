\* Expected to fail: see the findings in PROJECT.json.
SPECIFICATION Spec
CONSTANTS
    r1 = r1
    w1 = w1
    Records = {r1}
    Workers = {w1}
    NoRecord = NoRecord
    MaxAttempts = 2
    MaxEdits = 1
    MaxCrashes = 0
    MaxRedeploys = 0
INVARIANT
    OnlyReadyLeaves

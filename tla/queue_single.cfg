\* One worker process, two records, three attempts, a crash.
SPECIFICATION Spec
CONSTANTS
    r1 = r1
    r2 = r2
    w1 = w1
    Records = {r1, r2}
    Workers = {w1}
    NoRecord = NoRecord
    MaxAttempts = 3
    MaxEdits = 1
    MaxCrashes = 1
    MaxRedeploys = 0
SYMMETRY Symmetry
INVARIANTS
    DeadMeansExhausted
    AttemptBudget
PROPERTIES
    SettledOnce

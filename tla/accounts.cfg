\* A firm to be invited and a GitHub account from before, two tabs.
SPECIFICATION Spec
CONSTANTS
    w1 = w1
    w2 = w2
    firm = firm
    old = old
    Tabs = {w1, w2}
    Emails = {firm, old}
    Old = {old}
    MaxActs = 5
    None = None
CHECK_DEADLOCK FALSE
INVARIANTS
    OldSessionsEnd
    PagesTellTheTruth
PROPERTIES
    LinksWorkOnce

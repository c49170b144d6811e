\* Two tabs, two accounts, four tokens.
SPECIFICATION Spec
CONSTANTS
    w1 = w1
    w2 = w2
    ana = ana
    bea = bea
    Tabs = {w1, w2}
    Accounts = {ana, bea}
    MaxTokens = 4
    MaxActs = 3
    None = None
CHECK_DEADLOCK FALSE
INVARIANTS
    ActsAsShown
    RejectedGivesWay
PROPERTIES
    TabsSettle

\* A record held for review and a clean one.
SPECIFICATION Spec
CONSTANTS
    a = a
    b = b
    date = date
    amount = amount
    good = good
    spaced = spaced
    odd = odd
    Records = {a, b}
    Fields = {date, amount}
    Values = {good, spaced, odd}
    Odd = {odd}
    Coerced <- Stored
    Before <- SomeText
    MaxActs = 5
    None = None
CHECK_DEADLOCK FALSE
INVARIANTS
    AtRestShowsServer
PROPERTIES
    UntouchedIsNotSent
    TypedIsSaved

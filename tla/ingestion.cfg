\* Two uploads at a time, two other requests at any moment.
SPECIFICATION Spec
CONSTANTS
    u1 = u1
    u2 = u2
    a = a
    b = b
    none = none
    email = email
    mail = mail
    Uploads = {u1, u2}
    Keys = {a, b, none}
    Blank = none
    Names = {email, mail}
    Files <- SomeFiles
    MaxChanges = 2
SYMMETRY Symmetry
CHECK_DEADLOCK FALSE
INVARIANTS
    DuplicatesRaced
    NoRowLost
    RunsAddUp

\* Two uploads and two saves in any order.
SPECIFICATION MappingSpec
CONSTANTS
    age = age
    email = email
    NoTarget = NoTarget
    Files <- SomeFiles
    Targets <- SomeTargets
    MaxUploads = 2
    MaxReviews = 2
CHECK_DEADLOCK FALSE
INVARIANTS
    ValuesFollowTheirColumns
    ValuesStayWhole
    DefaultsKeepColumnsApart
    FailsOnSpellingOnly

SPECIFICATION FairSpec
CONSTANTS
    Requests = {r1, r2}
    Last = 2
    MaxSize = 1
    Gated = TRUE
INVARIANTS
    TypeOK
    AnswersAreTrue
    OpenBeforeUse
    SignalsAgree
PROPERTIES
    EveryRequestAnswered
    Drains
CHECK_DEADLOCK FALSE

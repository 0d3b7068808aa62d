SPECIFICATION FairSpec
CONSTANTS
    Rounds = 4
    LocalCap = 1
    SendCap = 1
    RemoteCap = 1
    HandlerCap = 1
    MaxAnswers = 4
    MaxBreaks = 2
INVARIANTS TypeOK SendsOnPublished OkWasReached
PROPERTIES Reconnects CommandEnds
CHECK_DEADLOCK FALSE

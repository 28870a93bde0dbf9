SPECIFICATION FairSpec
CONSTANTS
    Runs = {r1, r2}
    Users = {1, 2, 3, 4}
    Environments <- NowOrSwapped
    GoodNames = {"kim", "lee"}
    GoodPins = {"0000", "1111"}
    MaxScore = 1
    Modes = {"default", "check", "reconcile"}
    Setups <- AllSetups
CHECK_DEADLOCK FALSE
INVARIANTS
    TypeOK
    AnswersWereTrue
    FailsOnlyInARace
PROPERTIES
    WholeSetups
    RunsEnd

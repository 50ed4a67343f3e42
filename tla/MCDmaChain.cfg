\* A static test, and a dynamic and a static one under one common module.
CONSTANTS
    StaticCount = 2
    DynamicCount = 3
    TRANSFER_ROUNDS = 2
    POLL_COUNT = 2
    Scenarios <- OneOrTwo
SPECIFICATION FairSpec
INVARIANTS DynamicPassedMeansVerified VerdictIsOwn PassedMeansReleased LeakBounded
PROPERTIES NoBadRoundForgotten ChainScenarioEnds

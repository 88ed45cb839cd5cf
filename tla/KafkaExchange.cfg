SPECIFICATION FairSpec
CONSTANTS
    Requests = {r1, r2}
    Foreign = foreign
    NoRequest = none
    Environments <- AllSettings
    WaitUnits = 1
    MaxResponses = 2
INVARIANTS
    Inv
    AnswersAreEarned
    NoResponseSkipped
    RequestCanBeAnswered
    CommanderImpliesBroker
    BrokerFlagIsEarned
    ClientsReleased
PROPERTIES
    RequestorSpec
    LoopKeepsRunning

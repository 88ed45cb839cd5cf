SPECIFICATION FairSpec
CONSTANTS
    Requests = {r1, r2}
    Foreign = foreign
    NoRequest = none
    Environments <- MqttSettings
    WaitUnits = 1
INVARIANTS
    Inv
    AnswersAreEarned
    SubscribedInTime
    WaitEndsWithVerdict
    BrokerFlagIsEarned
    ConnectionClosed
PROPERTIES
    RequestorSpec
    LoopKeepsRunning

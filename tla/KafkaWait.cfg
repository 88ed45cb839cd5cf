SPECIFICATION Spec
CONSTANTS
    Requests = {r1}
    Foreign = foreign
    NoRequest = none
    Environments <- KafkaSettings
    WaitUnits = 1
    MaxResponses = 2
INVARIANTS
    WaitIsBounded

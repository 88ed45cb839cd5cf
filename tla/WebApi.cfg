CONSTANTS
    w1 = w1
    w2 = w2
    Base = Base
    Own = Own
    Other = Other
    App = App
    A = A
    B = B
    Null = Null
    Writers <- MCWriters
    Tags <- MCTags
    DefaultNamespace = Base
    UriPrefixes <- MCPrefixes
    Hour = 0
    Day = 1
    Month = 1
    Addresses = {A, B}
    NodeIds <- MCNodeIds
    Window = 2
    MaxTime = 2
    Scenarios <- AllScenarios
SPECIFICATION Spec
INVARIANTS
    Inv
    AtMostTwicePerWindow
    PermitsCountAnswers
    BrowsedNodesReadBack
    LatestIsFresh
    
    ReadStaysInNamespace
CHECK_DEADLOCK FALSE

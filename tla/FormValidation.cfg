SPECIFICATION Spec
CONSTANTS
    Fields = {"name", "code", "note"}
    Rendered = {"name", "code"}
    Pages <- MCPages
    MaxLength <- MCMaxLength
    Replace = {"name", "note"}
    Additional <- MCAdditional
    Rejected <- MCRejected
INVARIANTS
    Inv
    SentIsValid
    ContainerShowsVerdict
    ErrorsAreRechecked
PROPERTIES
    RefusalIsExplained
    ResetForgets
CHECK_DEADLOCK FALSE

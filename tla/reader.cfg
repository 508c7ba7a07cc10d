CONSTANTS
    Message <- MCMessage
    Encoding <- MCEncoding
    Items <- MCItems
    Meaning <- MCMeaning
    WellFormed <- MCWellFormed
    MaxMessages = 2
    MaxDepth = 2
    TrimAt = 4
    MayFail = TRUE
SPECIFICATION FairSpec
INVARIANTS TypeOK StackDescribesReply Faithful ErrorJustified
PROPERTIES AllAnswered
CHECK_DEADLOCK FALSE

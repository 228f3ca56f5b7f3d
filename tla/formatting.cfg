SPECIFICATION FairSpec
CONSTANTS
    Pages = 3
    Texts <- AllTexts
    TokenSize = 1
    PromptTokens = 1
    SliceTokens = 1
    MaxInputTokens = 5
    Reserve = 3
    Windows = {3, 4, 5, 8}
    MaxPages = 2
    MaxAttempts = 2
    None = None
INVARIANTS
    SealAccepts
    RefusalsExplained
PROPERTIES
    FormattingEnds
CHECK_DEADLOCK FALSE

\* Three requests, three chats, storage for two turns that may refuse a write:
\* clicks at any moment, calls that end or throw, replies
\* that freeze the page, reloads.
SPECIFICATION FairSpec
CONSTANTS
    Callers <- MCCallers
    NoOne = 0
    Texts <- MCTexts
    MaxStoredTurns = 2
    MaxRequests = 3
    MaxChats = 2
INVARIANTS
    PageTypeOK
    ButtonTellsTruth
    ClearedStaysCleared
    StoreFollowsConversation
    AnsweredOnce
    ReloadUnfreezes
PROPERTIES
    ButtonComesBack
CHECK_DEADLOCK FALSE

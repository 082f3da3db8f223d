SPECIFICATION Spec
CONSTANTS
    Tokens <- MCTokens
    MaxToken = 3
    MaxCalls = 2
INVARIANT TypeOK
INVARIANT RestTokenIsSessions
INVARIANT NeverStranded
PROPERTY RestoresSession
PROPERTY TriesAgain

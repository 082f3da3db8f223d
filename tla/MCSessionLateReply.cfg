SPECIFICATION Spec
CONSTANTS
    Tokens <- MCTokens
    MaxToken = 3
    MaxCalls = 2
INVARIANT LoggedOutStaysOut

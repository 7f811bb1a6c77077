SPECIFICATION Spec
CONSTANTS
    MAX_LAST_ERROR_BYTES = 3
    MAX_HEADERS_BYTES = 12
    MaxAttempts = 2
    MaxClaims = 3
    MaxChars = 3
    MaxMembers = 3
INVARIANTS TextAccepted LongestFit SameTextBothSides HeadersGap
CHECK_DEADLOCK FALSE

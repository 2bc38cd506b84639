\* Small limits stand for 512, 255, 63 and 998.
SPECIFICATION Spec
CONSTANTS
    MaxCommandLength = 7
    MaxHostname = 4
    MaxLabel = 2
    LineLimits = {0, 5}
    SizeLimits = {0, 7}
    Codes <- MCCodes
    Texts <- MCTexts
    ReplyBound = 2
    Chars <- MCChars
    Starts <- MCStarts
    Alphabet <- MCAlphabet
    TypeBound <- MCTypeBound
INVARIANTS
    BlanksMakeNoDifference
    ArgumentsExact
    PathAndParamsMeet
    DataRoundTrip
    DataLimitsExact
    RepliesFramed
\* Texts end, and nobody has to send them.
CHECK_DEADLOCK FALSE

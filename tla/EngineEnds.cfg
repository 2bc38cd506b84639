\* Sessions on a NetConn end, with TLS and without: liveness, every event but Close.
SPECIFICATION Spec
CONSTANTS
    TLSPolicy = "TLSOptional"
    HasTLSProvider = TRUE
    HasStorage = TRUE
    Extensions = {"VRFY", "HELP", "STARTTLS", "SIZE"}
    MaxMessageSize = 2
    MaxRecipients = 0
    MaxLineLength = 2
    MaxErrors = 2
    MaxTransactions = 0
    CommandTimeout = TRUE
    HookErrors = {}
    PolicyCodes = {250, 450}
    NetConn = TRUE
    EnforcesDeadlines = TRUE
    Events = {"cancel", "hangup", "break", "stall"}
    Senders = {s1}
    Recipients = {r1}
    Hosts = {h1}
    LineLengths = {1, 3}
    DeclaredSizes = {0}
    Int64Max = 4
    Nil = Nil
    NoSender = NoSender
    NoHost = NoHost
    ErrBound = 2
    TxnBound = 1
    RcptBound = 1
    SizeBound = 2
    AheadBound = 1
PROPERTIES
    CancelEnds
    HangupEnds
    QuitEnds
    IdleEnds
    PlainBreakEnds
\* Run returns at the end of a session, and a client may fall silent.
CHECK_DEADLOCK FALSE

\* A PipeConn as in the test harness, STARTTLS without a provider, no limits, two transactions.
SPECIFICATION Spec
CONSTANTS
    TLSPolicy = "TLSOptional"
    HasTLSProvider = FALSE
    HasStorage = TRUE
    Extensions = {}
    MaxMessageSize = 0
    MaxRecipients = 0
    MaxLineLength = 0
    MaxErrors = 0
    MaxTransactions = 0
    CommandTimeout = FALSE
    HookErrors = {}
    PolicyCodes = {550}
    NetConn = FALSE
    EnforcesDeadlines = FALSE
    Events = {"close", "hangup"}
    Senders = {s1}
    Recipients = {r1}
    Hosts = {h1}
    LineLengths = {1}
    DeclaredSizes = {0}
    Int64Max = 4
    Nil = Nil
    NoSender = NoSender
    NoHost = NoHost
    ErrBound = 1
    TxnBound = 2
    RcptBound = 2
    SizeBound = 1
    AheadBound = 1
PROPERTIES
    CloseEnds
\* Run returns at the end of a session, and a client may fall silent.
CHECK_DEADLOCK FALSE

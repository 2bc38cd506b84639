\* After a failed DATA the session accepts no command.
SPECIFICATION Spec
CONSTANTS
    TLSPolicy = "TLSOptional"
    HasTLSProvider = TRUE
    HasStorage = TRUE
    Extensions = {"VRFY", "HELP", "STARTTLS", "SIZE"}
    MaxMessageSize = 2
    MaxRecipients = 0
    MaxLineLength = 2
    MaxErrors = 2
    MaxTransactions = 0
    CommandTimeout = TRUE
    HookErrors = {}
    PolicyCodes = {550}
    NetConn = TRUE
    EnforcesDeadlines = TRUE
    Events = {}
    Senders = {s1}
    Recipients = {r1}
    Hosts = {h1}
    LineLengths = {1, 3}
    DeclaredSizes = {0}
    Int64Max = 4
    Nil = Nil
    NoSender = NoSender
    NoHost = NoHost
    ErrBound = 2
    TxnBound = 1
    RcptBound = 1
    SizeBound = 2
    AheadBound = 1
INVARIANTS
    CommandLoopReady
\* Run returns at the end of a session, and a client may fall silent.
CHECK_DEADLOCK FALSE

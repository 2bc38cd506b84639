\* TLS required, every limit small and every kind of event: safety.
SPECIFICATION Spec
CONSTANTS
    TLSPolicy = "TLSRequired"
    HasTLSProvider = TRUE
    HasStorage = TRUE
    Extensions = {"VRFY", "HELP", "STARTTLS", "SIZE"}
    MaxMessageSize = 2
    MaxRecipients = 1
    MaxLineLength = 2
    MaxErrors = 2
    MaxTransactions = 1
    CommandTimeout = TRUE
    HookErrors = {"other", "timeout", "io"}
    PolicyCodes = {0, 450, 550}
    NetConn = TRUE
    EnforcesDeadlines = TRUE
    Events = {"cancel", "hangup", "break", "stall", "close"}
    Senders = {s1, null}
    Recipients = {r1}
    Hosts = {h1, h2}
    LineLengths = {1, 2, 3}
    DeclaredSizes = {0, 3, 5}
    Int64Max = 4
    Nil = Nil
    NoSender = NoSender
    NoHost = NoHost
    ErrBound = 3
    TxnBound = 2
    RcptBound = 2
    SizeBound = 3
    AheadBound = 1
INVARIANTS
    TypeOK
    EnvelopeReady
    BodyNeverExecuted
    EnvelopeMatchesSession
    StoredUnderTLS
    StoredWithinLimits
    StateAgreement
    EndReported
PROPERTIES
    ImplementsService
\* Run returns at the end of a session, and a client may fall silent.
CHECK_DEADLOCK FALSE

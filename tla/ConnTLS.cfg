\* STARTTLS, an injected line, a hello and a line under TLS; one renewal; two names.
SPECIFICATION Spec
CONSTANTS
    Kinds = {"none", "reloadable", "sni"}
    Names = {"a", "b"}
    VersionBound = 2
    SendBound = 4
INVARIANTS
    TypeOK
    ClearNeverExecuted
    DeadlinesScoped
    ServedCurrent
PROPERTIES
    UpgradeEnds
    RenewalInstalled
\* Nobody has to send or to renew anything, and the session ends.
CHECK_DEADLOCK FALSE

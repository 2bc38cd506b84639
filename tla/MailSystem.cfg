\* Two sessions, two mailboxes of one domain, two recipients, three changes of the registry.
SPECIFICATION Spec
CONSTANTS
    s1 = s1
    s2 = s2
    u1 = u1
    u2 = u2
    Sessions = {s1, s2}
    Users = {u1, u2}
    Domains = {"d"}
    TxnBound = 2
    RcptBound = 2
    OpBound = 3
SYMMETRY Symmetry
INVARIANTS
    TypeOK
    DeliveredWasAcceptable
    AcknowledgedDelivered
    RegistrationHolds
\* The bounds stop the clients and the program.
CHECK_DEADLOCK FALSE

--------------------------- MODULE EngineService ---------------------------
(* The service a session of Engine provides.                               *)
EXTENDS Engine

Transactions == [from : Senders, rcpts : Seq(Recipients), size : Nat]

\* Nil is none of the transactions either.
ASSUME TransactionAssumption == Nil \notin Transactions

\* The transaction a client was told it has: an envelope whose sender failed
\* is none.
Transaction ==
    IF envelope = Nil \/ envelope.from = NoSender THEN Nil
    ELSE [from |-> envelope.from, rcpts |-> envelope.rcpts, size |-> envelope.size]

PendingAnswer ==
    IF run # "reply" THEN "none" ELSE IF IsPositive(resp) THEN "yes" ELSE "no"

Upgrading == st = "StartTLS"
Leaving == IsTerminal(sm)
Over == run = "done"

Service == INSTANCE SmtpService WITH
    NoRequest <- Unknown, NoTxn <- Nil, Nothing <- Nil,
    SecureOnly <- TLSPolicy = "TLSRequired", Delivers <- HasStorage,
    MaxSize <- MaxMessageSize, MaxRcpts <- MaxRecipients, MaxTxns <- MaxTransactions,
    request <- cmd.verb, answer <- PendingAnswer,
    upgrading <- Upgrading, leaving <- Leaving, over <- Over,
    secure <- tls, peer <- host, txn <- Transaction, delivered <- stored, count <- txns

\* Every session keeps the promises of SmtpService, whatever limits, failures, races
\* and disconnections it goes through: the codes it answers with (engine.go:285-683)
\* say what became of the request, and the message handed to Storage (536) is the
\* transaction the client was told had been accepted.
ImplementsService == Service!Spec

\* The service is promised for callbacks that refuse with a code that says so. The engine
\* returns their Response unread (engine.go:375, 433): one that does not accept and
\* answers with a positive code tells the client yes and changes nothing.
PoliciesRefuse == \A code \in PolicyCodes : ~IsPositive(code)

-----------------------------------------------------------------------------
(* What the refinement needs beyond Inv.                                   *)

\* A command is held exactly while it is executed, and DATA while its body is.
RequestInv ==
    /\ run \in {"start", "greet", "loop", "read", "tls", "done"} => cmd.verb = Unknown
    /\ run = "exec" => cmd.verb # Unknown
    /\ Receiving => cmd.verb = "DATA"

\* Where a new transaction can begin, none is open.
NoneOpen ==
    \/ sm \in {"Disconnected", "Connected", "Greeted", "Identified"}
    \/ run = "exec" /\ cmd.verb = "MAIL"
    => ~HasSender

ServiceInv == RequestInv /\ NoneOpen
=============================================================================

---------------------------- MODULE MailSystem -----------------------------
(***************************************************************************)
(* Sessions that share one mem.Mailbox and one mem.Storage, while the      *)
(* embedding program changes the registry: a recipient is validated at     *)
(* RCPT, entered afterwards, and delivered when DATA ends.  Of a session   *)
(* the model keeps its transaction (engine.go); Engine has the rest.       *)
(***************************************************************************)
EXTENDS MemMailbox, Naturals, Sequences, FiniteSets

CONSTANTS
    Sessions,
    TxnBound,   \* transactions of all sessions, for TLC
    RcptBound,  \* recipients of a transaction, for TLC
    OpBound     \* changes of the registry, for TLC

ASSUME SystemAssumption == {TxnBound, RcptBound, OpBound} \subseteq Nat

VARIABLES
    phase,      \* where the session is in its transaction
    id,         \* the identifier of its envelope
    rcpts,      \* the recipients in its envelope
    result,     \* what ValidateRecipient returned, while handleRCPT holds it
    messages,   \* the storage: from identifiers to recipients
    boxes,      \* history: mailboxes added and not removed since, whatever the spelling
    window,     \* history: what was acceptable at some moment of the transaction
    answered,   \* history: the recipients answered 250 in the transaction
    acked,      \* history: the messages answered 250, with those recipients
    ops,        \* changes of the registry so far
    txns        \* transactions so far

envelope == <<id, rcpts>>
vars == <<registry, phase, envelope, result, messages, boxes, window, answered, acked, ops, txns>>

NoResult ==
    [addr |-> [user |-> "none", domain |-> "none", spelling |-> "lower"], accepted |-> FALSE]

Box(a) == <<a.user, a.domain>>
Acceptable == {Box(a) : a \in {x \in Addresses : ValidateRecipient(x)}}

Init ==
    /\ RegistryInit
    /\ phase = [s \in Sessions |-> "ready"]
    /\ id = [s \in Sessions |-> 0]
    /\ rcpts = [s \in Sessions |-> <<>>]
    /\ result = [s \in Sessions |-> NoResult]
    /\ messages = [i \in {} |-> <<>>]
    /\ boxes = {} /\ acked = {}
    /\ window = [s \in Sessions |-> {}]
    /\ answered = [s \in Sessions |-> <<>>]
    /\ ops = 0 /\ txns = 0

-----------------------------------------------------------------------------
(* The embedding program.                                                  *)

Observe ==
    /\ window' = [s \in Sessions |-> window[s] \cup Acceptable']
    /\ ops < OpBound /\ ops' = ops + 1
    /\ UNCHANGED <<phase, envelope, result, messages, answered, acked, txns>>

Register ==
    \E a \in Addresses : AddAddress(a) /\ boxes' = boxes \cup {Box(a)} /\ Observe

Unregister ==
    \E a \in Addresses : RemoveAddress(a) /\ boxes' = boxes \ {Box(a)} /\ Observe

ChangeDomain ==
    \E d \in DomainNames : (AddDomain(d) \/ RemoveDomain(d)) /\ UNCHANGED boxes /\ Observe

SwitchCatchAll ==
    \E b \in BOOLEAN : SetCatchAll(b) /\ UNCHANGED boxes /\ Observe

-----------------------------------------------------------------------------
(* The sessions.                                                           *)

\* Mutant: identifiers are counted by the messages stored.
NextStored == Cardinality(DOMAIN messages) + 1

\* generateEnvelopeID draws 96 random bits: it is taken to repeat none.
generateEnvelopeID == txns + 1

\* handleMAIL: a new builder.
HandleMAIL(s) ==
    /\ phase[s] = "ready" /\ txns < TxnBound
    /\ phase' = [phase EXCEPT ![s] = "mail"]
    /\ id' = [id EXCEPT ![s] = generateEnvelopeID]
    /\ rcpts' = [rcpts EXCEPT ![s] = <<>>]
    /\ window' = [window EXCEPT ![s] = Acceptable]
    /\ answered' = [answered EXCEPT ![s] = <<>>]
    /\ txns' = txns + 1
    /\ UNCHANGED <<registry, result, messages, boxes, acked, ops>>

\* handleRCPT asks the mailbox, which locks the registry for the question only.
Validate(s) ==
    /\ phase[s] = "mail" /\ Len(rcpts[s]) < RcptBound
    /\ \E a \in Addresses :
         result' = [result EXCEPT ![s] = [addr |-> a, accepted |-> ValidateRecipient(a)]]
    /\ phase' = [phase EXCEPT ![s] = "rcpt"]
    /\ UNCHANGED <<registry, envelope, messages, boxes, window, answered, acked, ops, txns>>

\* Mutant: the recipient is entered before the answer is looked at.
EnterAnyway(s) == rcpts' = [rcpts EXCEPT ![s] = Append(@, result[s].addr)]

AddRecipient(s) ==
    IF result[s].accepted
    THEN rcpts' = [rcpts EXCEPT ![s] = Append(@, result[s].addr)]
    ELSE UNCHANGED rcpts

\* The rest of handleRCPT, with its reply.
AnswerRCPT(s) ==
    /\ phase[s] = "rcpt"
    /\ AddRecipient(s)
    /\ answered' = IF result[s].accepted
                   THEN [answered EXCEPT ![s] = Append(@, result[s].addr)]
                   ELSE answered
    /\ result' = [result EXCEPT ![s] = NoResult]
    /\ phase' = [phase EXCEPT ![s] = "mail"]
    /\ UNCHANGED <<registry, id, messages, boxes, window, acked, ops, txns>>

HandleDATA(s) ==
    /\ phase[s] = "mail" /\ rcpts[s] # <<>>
    /\ phase' = [phase EXCEPT ![s] = "data"]
    /\ UNCHANGED <<registry, envelope, result, messages, boxes, window, answered, acked, ops, txns>>

\* Mutant: the recipients outlive the transaction.
KeepRecipients(s) == UNCHANGED rcpts

\* e.envelope = nil, and resetTransaction.
DropEnvelope(s) == rcpts' = [rcpts EXCEPT ![s] = <<>>]

\* Storage.Store and the reply to the message.
FinishMessage(s) ==
    /\ phase[s] = "data"
    /\ messages' = [i \in DOMAIN messages \cup {id[s]} |->
                      IF i = id[s] THEN [rcpts |-> rcpts[s], window |-> window[s]] ELSE messages[i]]
    /\ acked' = acked \cup {[id |-> id[s], rcpts |-> answered[s]]}
    /\ DropEnvelope(s)
    /\ phase' = [phase EXCEPT ![s] = "ready"]
    /\ UNCHANGED <<registry, id, result, boxes, window, answered, ops, txns>>

\* A body that fails leaves the state machine in Data: the session takes no more commands.
DataFails(s) ==
    /\ phase[s] = "data"
    /\ DropEnvelope(s)
    /\ phase' = [phase EXCEPT ![s] = "wedged"]
    /\ UNCHANGED <<registry, id, result, messages, boxes, window, answered, acked, ops, txns>>

\* RSET between commands; HELO and EHLO are refused inside a transaction.
GiveUp(s) ==
    /\ phase[s] = "mail"
    /\ DropEnvelope(s)
    /\ phase' = [phase EXCEPT ![s] = "ready"]
    /\ UNCHANGED <<registry, id, result, messages, boxes, window, answered, acked, ops, txns>>

\* The connection ends, and another session takes the place of this one.
Disconnect(s) ==
    /\ phase[s] \in {"mail", "data", "wedged"}
    /\ rcpts' = [rcpts EXCEPT ![s] = <<>>]
    /\ phase' = [phase EXCEPT ![s] = "ready"]
    /\ UNCHANGED <<registry, id, result, messages, boxes, window, answered, acked, ops, txns>>

SessionStep(s) ==
    \/ HandleMAIL(s) \/ Validate(s) \/ AnswerRCPT(s) \/ HandleDATA(s)
    \/ FinishMessage(s) \/ DataFails(s) \/ GiveUp(s) \/ Disconnect(s)

Next ==
    \/ Register \/ Unregister \/ ChangeDomain \/ SwitchCatchAll
    \/ \E s \in Sessions : SessionStep(s)

Spec == Init /\ [][Next]_vars

-----------------------------------------------------------------------------

Boxes == Users \X Domains

TypeOK ==
    /\ addresses \subseteq Addresses /\ domains \subseteq DomainNames /\ catchAll \in BOOLEAN
    /\ phase \in [Sessions -> {"ready", "mail", "rcpt", "data", "wedged"}]
    /\ id \in [Sessions -> Nat]
    /\ rcpts \in [Sessions -> Seq(Addresses)] /\ answered \in [Sessions -> Seq(Addresses)]
    /\ result \in [Sessions -> [addr : Addresses, accepted : BOOLEAN] \cup {NoResult}]
    /\ window \in [Sessions -> SUBSET Boxes] /\ boxes \subseteq Boxes
    /\ messages \in [DOMAIN messages -> [rcpts : Seq(Addresses), window : SUBSET Boxes]]
    /\ DOMAIN messages \subseteq Nat /\ acked \subseteq [id : Nat, rcpts : Seq(Addresses)]
    /\ {ops, txns} \subseteq Nat
    /\ \A s \in Sessions : phase[s] \in {"ready", "wedged"} => rcpts[s] = <<>>

\* A message is delivered only to mailboxes that were acceptable at some moment of its own
\* transaction: not those of an earlier one, nor of another session, however the registry
\* changes between RCPT, the entry of the recipient and the end of DATA.
DeliveredWasAcceptable ==
    \A i \in DOMAIN messages :
        \A k \in DOMAIN messages[i].rcpts : Box(messages[i].rcpts[k]) \in messages[i].window

\* Every message answered 250 is in the storage, with exactly the recipients that were
\* answered 250, in their order and spelling, whatever the other sessions store.
AcknowledgedDelivered ==
    \A m \in acked : m.id \in DOMAIN messages /\ messages[m.id].rcpts = m.rcpts

\* In a local domain mail is accepted, in every spelling, for the mailboxes added and not
\* removed since, and with catch-all for any address, whatever was registered and removed
\* on the way; elsewhere it is accepted for none that was removed or never added. Whether
\* the mailboxes of a domain that was removed should still be accepted, as the code does
\* (mem/mailbox.go:116), against mailbox.go:152, is left open.
RegistrationHolds ==
    \A a \in Addresses :
        /\ IsLocalDomain(DomainPart(a)) =>
             /\ ValidateRecipient(a) <=> Box(a) \in boxes \/ catchAll
             /\ CanReceive(a) <=> Box(a) \in boxes
        /\ ValidateRecipient(a) /\ ~RelayAllowed(DomainPart(a), FALSE) => Box(a) \in boxes
        /\ Exists(a) <=> Box(a) \in boxes

-----------------------------------------------------------------------------
(* The inductive invariant behind them.                                    *)

InTransaction(s) == phase[s] \in {"mail", "rcpt", "data"}

\* No two transactions under way share an identifier, with each other or with a message.
IdInv ==
    /\ \A s \in Sessions : id[s] <= txns
    /\ \A i \in DOMAIN messages : i <= txns
    /\ \A s \in Sessions : InTransaction(s) => id[s] \notin DOMAIN messages
    /\ \A s, t \in Sessions : s # t /\ InTransaction(s) /\ InTransaction(t) => id[s] # id[t]

\* The envelope holds what was answered 250, and the answer that handleRCPT holds was
\* true at some moment of the transaction.
EnvelopeInv ==
    \A s \in Sessions : InTransaction(s) =>
        /\ rcpts[s] = answered[s]
        /\ \A k \in DOMAIN rcpts[s] : Box(rcpts[s][k]) \in window[s]
        /\ Acceptable \subseteq window[s]
        /\ phase[s] = "rcpt" =>
             result[s].addr \in Addresses
             /\ (result[s].accepted => Box(result[s].addr) \in window[s])

\* The registry knows the mailboxes in lower case, and only those.
RegistryInv == \A a \in Addresses : Box(a) \in boxes <=> ToLower(a) \in addresses

Inv ==
    /\ TypeOK /\ IdInv /\ EnvelopeInv /\ RegistryInv
    /\ DeliveredWasAcceptable /\ AcknowledgedDelivered
=============================================================================

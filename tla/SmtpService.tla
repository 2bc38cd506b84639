---------------------------- MODULE SmtpService ----------------------------
(***************************************************************************)
(* What a session promises its client, without connections, errors, state  *)
(* machines or goroutines: every request is answered before the next one   *)
(* is heard, a yes means that the request took effect and a no that it did *)
(* not, and what is delivered is the transaction the client was told had   *)
(* been accepted.                                                          *)
(***************************************************************************)
EXTENDS Naturals, Sequences

CONSTANTS
    Senders, Recipients, Hosts,
    NoRequest, NoHost, NoTxn, Nothing,  \* none is heard, known, open, delivered
    SecureOnly,                         \* mail is taken under TLS only
    Delivers,                           \* there is a storage to deliver to
    MaxSize, MaxRcpts, MaxTxns          \* limits; 0 means none

VARIABLES
    request,    \* the verb being served
    answer,     \* the answer on its way: "none", "yes" or "no"
    upgrading,  \* STARTTLS was answered yes and the handshake is due
    leaving,    \* nothing more will be heard
    over,       \* the session has ended
    secure,     \* TLS is on
    peer,       \* the name the client gave
    txn,        \* the transaction: sender, recipients, size so far
    delivered,  \* the last message delivered
    count       \* messages delivered

vars == <<request, answer, upgrading, leaving, over, secure, peer, txn, delivered, count>>

Init ==
    /\ request = NoRequest /\ answer = "none" /\ upgrading = FALSE
    /\ leaving = FALSE /\ over = FALSE /\ secure = FALSE /\ peer = NoHost
    /\ txn = NoTxn /\ delivered = Nothing /\ count = 0

Within(n, limit) == limit > 0 => n <= limit

\* The session may be told from outside, at any moment, to leave.
MayLeave == leaving' \in {leaving, TRUE}

\* A request is being served, and gets its answer.
Serving(verbs) == ~over /\ request \in verbs /\ answer = "none" /\ MayLeave

Answer(a) == answer' = a /\ UNCHANGED <<request, over>>

Hear ==
    /\ ~over /\ ~leaving /\ ~upgrading
    /\ request = NoRequest /\ answer = "none"
    /\ request' # NoRequest
    /\ MayLeave
    /\ UNCHANGED <<answer, upgrading, over, secure, peer, txn, delivered, count>>

\* The answer is sent or lost, and the session may end with it.
Answered ==
    /\ ~over /\ answer # "none"
    /\ request' = NoRequest /\ answer' = "none"
    /\ over' \in BOOLEAN /\ MayLeave
    /\ UNCHANGED <<upgrading, secure, peer, txn, delivered, count>>

\* A no changes nothing, except that a failed DATA gives up its transaction,
\* unless the session is given up altogether.
Refuse ==
    /\ ~over /\ answer = "none" /\ MayLeave
    /\ Answer("no")
    /\ \/ txn' = txn /\ (request = "DATA" => leaving')
       \/ txn' = NoTxn /\ request = "DATA"
    /\ UNCHANGED <<upgrading, secure, peer, delivered, count>>

Identify ==
    /\ Serving({"HELO", "EHLO"}) /\ Answer("yes")
    /\ peer' \in Hosts
    /\ txn' = NoTxn
    /\ UNCHANGED <<upgrading, secure, delivered, count>>

Begin ==
    /\ Serving({"MAIL"}) /\ Answer("yes")
    /\ txn = NoTxn /\ peer # NoHost
    /\ SecureOnly => secure
    /\ Within(count + 1, MaxTxns)
    /\ \E s \in Senders : txn' = [from |-> s, rcpts |-> <<>>, size |-> 0]
    /\ UNCHANGED <<upgrading, secure, peer, delivered, count>>

Accept ==
    /\ Serving({"RCPT"}) /\ Answer("yes")
    /\ txn # NoTxn
    /\ \E r \in Recipients : txn' = [txn EXCEPT !.rcpts = Append(txn.rcpts, r)]
    /\ Within(Len(txn'.rcpts), MaxRcpts)
    /\ UNCHANGED <<upgrading, secure, peer, delivered, count>>

\* Part of the body.
Receive ==
    /\ Serving({"DATA"})
    /\ txn # NoTxn /\ txn.rcpts # <<>>
    /\ txn' # NoTxn /\ txn' = [txn EXCEPT !.size = txn'.size]
    /\ txn'.size >= txn.size /\ Within(txn'.size, MaxSize)
    /\ UNCHANGED <<request, answer, upgrading, over, secure, peer, delivered, count>>

Message == [from |-> txn.from, rcpts |-> txn.rcpts, size |-> txn.size,
            tls |-> secure, host |-> peer]

Deliver ==
    /\ Serving({"DATA"}) /\ Answer("yes")
    /\ txn # NoTxn /\ txn.rcpts # <<>>
    /\ delivered' = IF Delivers THEN Message ELSE delivered
    /\ count' = count + 1
    /\ txn' = NoTxn
    /\ UNCHANGED <<upgrading, secure, peer>>

Clear ==
    /\ Serving({"RSET"}) /\ Answer("yes")
    /\ txn' = NoTxn
    /\ UNCHANGED <<upgrading, secure, peer, delivered, count>>

Inform ==
    /\ Serving({"NOOP", "VRFY", "HELP"}) /\ Answer("yes")
    /\ UNCHANGED <<upgrading, secure, peer, txn, delivered, count>>

Quit ==
    /\ Serving({"QUIT"}) /\ Answer("yes")
    /\ leaving' = TRUE
    /\ UNCHANGED <<upgrading, secure, peer, txn, delivered, count>>

StartTLS ==
    /\ Serving({"STARTTLS"}) /\ Answer("yes")
    /\ ~secure
    /\ upgrading' = TRUE
    /\ UNCHANGED <<secure, peer, txn, delivered, count>>

\* The session starts over under TLS and knows nothing of its client.
Upgrade ==
    /\ ~over /\ upgrading /\ request = NoRequest /\ MayLeave
    /\ upgrading' = FALSE /\ secure' = TRUE
    /\ peer' = NoHost /\ txn' = NoTxn
    /\ UNCHANGED <<request, answer, over, delivered, count>>

Leave ==
    /\ leaving' = TRUE
    /\ UNCHANGED <<request, answer, upgrading, over, secure, peer, txn, delivered, count>>

End ==
    /\ over' = TRUE /\ MayLeave
    /\ UNCHANGED <<request, answer, upgrading, secure, peer, txn, delivered, count>>

Next ==
    \/ Hear \/ Answered \/ Refuse \/ Identify \/ Begin \/ Accept \/ Receive \/ Deliver
    \/ Clear \/ Inform \/ Quit \/ StartTLS \/ Upgrade \/ Leave \/ End

Spec == Init /\ [][Next]_vars
=============================================================================

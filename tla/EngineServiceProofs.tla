------------------------ MODULE EngineServiceProofs ------------------------
(***************************************************************************)
(* Engine implements SmtpService, for every configuration: each step of a  *)
(* session is a step of the service, or leaves what its client can see as  *)
(* it is.                                                                  *)
(***************************************************************************)
EXTENDS EngineService, EngineProofs

-----------------------------------------------------------------------------
(* The refinement mapping.                                                 *)

\* Nothing is pending unless Run is about to write.
LEMMA NothingPending ==
    ASSUME run # "reply"
    PROVE  PendingAnswer = "none"
BY DEF PendingAnswer

\* What the codes mean.
LEMMA PendingReply ==
    ASSUME run = "reply"
    PROVE  /\ IsPositive(resp) => PendingAnswer = "yes"
           /\ ~IsPositive(resp) => PendingAnswer = "no"
BY DEF PendingAnswer

\* A session that leaves does not come back.
LEMMA LeavingMaps ==
    ASSUME Leaving => Leaving'
    PROVE  Service!MayLeave
<1>1. Leaving \in BOOLEAN /\ Leaving' \in BOOLEAN
  BY DEF Leaving, IsTerminal
<1> QED BY <1>1, Zenon DEF Service!MayLeave

\* The truth values the service is told of.
LEMMA FlagsKept ==
    /\ st' = st => Upgrading' = Upgrading
    /\ st # "StartTLS" /\ st' # "StartTLS" => Upgrading' = Upgrading
    /\ sm' = sm => Leaving' = Leaving
    /\ run # "done" => Over = FALSE
    /\ run' # "done" => Over' = FALSE
    /\ run' = "done" => Over' = TRUE
BY DEF Upgrading, Leaving, Over, IsTerminal

LEMMA TransactionKept ==
    ASSUME UNCHANGED envelope
    PROVE  Transaction' = Transaction
BY DEF Transaction

LEMMA Dropped ==
    ASSUME envelope = Nil \/ envelope.from = NoSender
    PROVE  Transaction = Nil
BY DEF Transaction

LEMMA Held ==
    ASSUME TypeOK, HasSender
    PROVE  /\ Transaction = [from |-> envelope.from, rcpts |-> envelope.rcpts,
                             size |-> envelope.size]
           /\ Transaction \in Transactions /\ Transaction # Nil
<1>1. envelope \in Envelopes /\ envelope.from \in Senders
  BY DEF TypeOK, HasSender, Envelopes
<1>2. Transaction = [from |-> envelope.from, rcpts |-> envelope.rcpts, size |-> envelope.size]
  BY DEF Transaction, HasSender
<1>3. Transaction \in Transactions
  BY <1>1, <1>2 DEF Envelopes, Transactions
<1> QED BY <1>2, <1>3, TransactionAssumption DEF TransactionAssumption

-----------------------------------------------------------------------------
(* Steps of several actions.                                               *)

\* A step the client cannot tell from none, but for the end of the session.
LEMMA Unseen ==
    ASSUME Inv, run # "reply", run' # "reply", run # "done" \/ run' = "done",
           cmd' = cmd, Upgrading' = Upgrading, Leaving => Leaving',
           UNCHANGED <<tls, host, envelope, stored, txns>>
    PROVE  [Service!Next]_(Service!vars)
<1>1. PendingAnswer = "none" /\ PendingAnswer' = "none"
  BY NothingPending DEF PendingAnswer
<1>2. Transaction' = Transaction
  BY TransactionKept
<1>3. CASE run' = "done"
  <2>1. Over' = TRUE
    BY <1>3, FlagsKept
  <2>2. Service!End
    BY <1>1, <1>2, <2>1, LeavingMaps DEF Service!End
  <2> QED BY <2>2 DEF Service!Next
<1>4. CASE run' # "done"
  <2>1. Over' = Over
    BY <1>4, FlagsKept
  <2>2. CASE Leaving'
    <3>1. Leaving' = TRUE
      BY <2>2 DEF Leaving, IsTerminal
    <3>2. Service!Leave
      BY <1>1, <1>2, <2>1, <3>1 DEF Service!Leave
    <3> QED BY <3>2 DEF Service!Next
  <2>3. CASE ~Leaving'
    <3>1. Leaving' = Leaving
      BY <2>3 DEF Leaving, IsTerminal
    <3> QED BY <1>1, <1>2, <2>1, <3>1 DEF Service!vars
  <2> QED BY <2>2, <2>3
<1> QED BY <1>3, <1>4

\* A negative answer.
LEMMA Refused ==
    ASSUME Inv, run \notin {"reply", "done"}, run' = "reply", ~IsPositive(resp'),
           cmd' = cmd, Upgrading' = Upgrading, Leaving => Leaving',
           UNCHANGED <<tls, host, stored, txns>>,
           \/ envelope' = envelope /\ (cmd.verb = "DATA" => Leaving')
           \/ envelope' = Nil /\ cmd.verb = "DATA"
           \/ Transaction = Nil /\ Transaction' = Nil /\ cmd.verb # "DATA"
    PROVE  Service!Next
<1>1. PendingAnswer = "none" /\ PendingAnswer' = "no"
  BY NothingPending, PendingReply DEF PendingAnswer
<1>2. Over = FALSE /\ Over' = FALSE
  BY FlagsKept
<1>3. \/ Transaction' = Transaction /\ (cmd.verb = "DATA" => Leaving')
      \/ Transaction' = Nil /\ cmd.verb = "DATA"
  BY TransactionKept DEF Transaction
<1>4. Service!Refuse
  BY <1>1, <1>2, <1>3, LeavingMaps DEF Service!Refuse, Service!Answer
<1> QED BY <1>4 DEF Service!Next

\* What the positive answers have in common.
LEMMA Granted ==
    ASSUME run = "exec" \/ Receiving, run' = "reply", IsPositive(resp'), cmd' = cmd,
           Leaving => Leaving'
    PROVE  /\ Service!Answer("yes")
           /\ \A verbs : cmd.verb \in verbs => Service!Serving(verbs)
<1>1. PendingAnswer = "none" /\ PendingAnswer' = "yes"
  BY NothingPending, PendingReply DEF PendingAnswer, Receiving
<1>2. Over = FALSE /\ Over' = FALSE
  BY FlagsKept DEF Receiving
<1> QED BY <1>1, <1>2, LeavingMaps DEF Service!Answer, Service!Serving

-----------------------------------------------------------------------------
(* Each action keeps ServiceInv and is a step of the service.              *)

\* The client, the context and Close, whatever Run is doing meanwhile.
LEMMA AsideMaps ==
    ASSUME Inv, ServiceInv, Cancel \/ ClientGone \/ Stall \/ CloseFlag \/ CloseStep
    PROVE  ServiceInv' /\ [Service!Next]_(Service!vars)
<1>1. /\ UNCHANGED <<run, cmd, resp, st, host, tls, envelope, txns, stored>>
      /\ sm' \in {sm, "Aborted"}
  BY AbortedStays DEF Cancel, ClientGone, Stall, CloseFlag, CloseStep, CloseAbort, CloseConn,
     session, call, history
<1>2. ServiceInv'
  BY <1>1 DEF ServiceInv, RequestInv, NoneOpen, HasSender, Receiving
<1>3. /\ PendingAnswer' = PendingAnswer /\ Transaction' = Transaction
      /\ Upgrading' = Upgrading /\ Over' = Over
  BY <1>1, Zenon DEF PendingAnswer, Transaction, Upgrading, Over
<1>4. CASE sm' = sm
  <2>1. Leaving' = Leaving
    BY <1>4, FlagsKept
  <2> QED BY <1>1, <1>2, <1>3, <2>1 DEF Service!vars
<1>5. CASE sm' = "Aborted"
  <2>1. Leaving' = TRUE
    BY <1>5 DEF Leaving, IsTerminal
  <2>2. Service!Leave
    BY <1>1, <1>3, <2>1 DEF Service!Leave
  <2> QED BY <1>2, <2>2 DEF Service!Next
<1> QED BY <1>1, <1>4, <1>5

\* Up to the greeting nothing has been asked.
LEMMA GreetingMaps ==
    ASSUME Inv, ServiceInv, Start \/ SendGreeting
    PROVE  ServiceInv' /\ [Service!Next]_(Service!vars)
<1>1. /\ run \in {"start", "greet"} /\ run' \in {"greet", "loop", "done"}
      /\ UNCHANGED <<host, tls, envelope, txns, cmd, stored>>
  BY DEF Start, SendGreeting, handleDisconnect, call, history
<1>2. /\ sm \in {"Disconnected", "Connected", "Aborted"} /\ (sm = "Aborted" => sm' = sm)
      /\ st = "Disconnected" /\ st' \in {"Disconnected", "Greeted"}
  <2>1. CASE Start
    BY <2>1 DEF Start, Inv, RunInv
  <2>2. CASE SendGreeting
    BY <2>2 DEF SendGreeting, Inv, RunInv
  <2> QED BY <2>1, <2>2
<1>3. ServiceInv'
  BY <1>1, <1>2 DEF ServiceInv, RequestInv, NoneOpen, HasSender, Receiving
<1>4. Upgrading' = Upgrading /\ (Leaving => Leaving')
  BY <1>2, FlagsKept DEF Leaving, IsTerminal
<1> QED BY <1>1, <1>3, <1>4, Unseen

\* Between commands: the loop goes round, or the session ends.
LEMMA LoopMaps ==
    ASSUME Inv, ServiceInv, Loop \/ ReadCommandFails
    PROVE  ServiceInv' /\ [Service!Next]_(Service!vars)
<1>1. run \in {"loop", "read"} /\ UNCHANGED <<sm, st, host, tls, envelope, txns, cmd, stored>>
  BY DEF Loop, ReadCommandFails, session, call, history
<1>2. run' \in {"loop", "done", "tls", "read"}
  BY Returns DEF Loop, ReadCommandFails, handleDisconnect, Inv
<1>3. ServiceInv'
  BY <1>1, <1>2 DEF ServiceInv, RequestInv, NoneOpen, HasSender, Receiving
<1>4. Upgrading' = Upgrading /\ (Leaving => Leaving')
  BY <1>1, FlagsKept
<1> QED BY <1>1, <1>2, <1>3, <1>4, Unseen

\* A line is heard as a request, or refused at once.
LEMMA ReadCommandMaps ==
    ASSUME Inv, ServiceInv, ReadCommand
    PROVE  ServiceInv' /\ Service!Next
<1>1. /\ run = "read" /\ UNCHANGED <<sm, st, host, tls, envelope, txns, stored>>
      /\ cmd.verb = Unknown
  BY DEF ReadCommand, ServiceInv, RequestInv
<1>2. Upgrading' = Upgrading /\ Leaving' = Leaving
  BY <1>1, FlagsKept
<1>3. CASE run' = "reply" /\ cmd' = cmd /\ resp' \in {421, 500, 554, 503}
  <2>1. ServiceInv'
    BY <1>1, <1>3 DEF ServiceInv, RequestInv, NoneOpen, HasSender, Receiving
  <2>2. Service!Next
    BY <1>1, <1>2, <1>3, Refused DEF IsPositive, Unknown
  <2> QED BY <2>1, <2>2
<1>4. CASE run' = "exec" /\ cmd'.verb # Unknown /\ IsCommandAllowed(sm, cmd'.verb)
  <2>1. /\ sm \in {"Greeted", "Identified", "MailFrom", "RcptTo"}
        /\ cmd'.verb = "MAIL" => sm = "Identified"
    BY <1>4, WhereAllowed
  <2>2. ServiceInv'
    BY <1>1, <1>4, <2>1 DEF ServiceInv, RequestInv, NoneOpen, HasSender, Receiving
  <2>3. PendingAnswer = "none" /\ PendingAnswer' = "none" /\ Transaction' = Transaction
    BY <1>1, <1>4, NothingPending, TransactionKept DEF PendingAnswer
  <2>4. Over = FALSE /\ Over' = FALSE /\ ~Leaving /\ ~Upgrading
    BY <1>1, <1>4, <2>1, FlagsKept DEF Leaving, IsTerminal, Upgrading, Inv, RunInv
  <2>5. Service!Hear
    BY <1>1, <1>2, <1>4, <2>3, <2>4, LeavingMaps DEF Service!Hear
  <2> QED BY <2>2, <2>5 DEF Service!Next
<1>5. \/ run' = "reply" /\ cmd' = cmd /\ resp' \in {421, 500, 554, 503}
      \/ run' = "exec" /\ cmd'.verb # Unknown /\ IsCommandAllowed(sm, cmd'.verb)
  BY DEF ReadCommand, Write, ParseFails
<1> QED BY <1>3, <1>4, <1>5

\* The answer is written or lost.
LEMMA ReplyMaps ==
    ASSUME Inv, ServiceInv, Reply
    PROVE  ServiceInv' /\ Service!Next
<1>1. /\ run = "reply" /\ cmd'.verb = Unknown
      /\ UNCHANGED <<st, host, tls, envelope, txns, stored>> /\ \E e : Returned(e)
  BY DEF Reply, NoCommand, history
<1>2. sm' \in {sm, "Aborted"} /\ run' \in {"loop", "done"}
  BY <1>1, Returns, SmMoves, AbortedStays DEF Reply, Inv
<1>3. ServiceInv'
  BY <1>1, <1>2 DEF ServiceInv, RequestInv, NoneOpen, HasSender, Receiving, Unknown
<1>4. PendingAnswer # "none" /\ PendingAnswer' = "none" /\ Transaction' = Transaction
  BY <1>1, <1>2, PendingReply, TransactionKept DEF PendingAnswer
<1>5. Over = FALSE /\ Over' \in BOOLEAN /\ Upgrading' = Upgrading /\ (Leaving => Leaving')
  BY <1>1, <1>2, FlagsKept DEF Over, Leaving, IsTerminal
<1>6. Service!Answered
  BY <1>1, <1>4, <1>5, LeavingMaps DEF Service!Answered
<1> QED BY <1>3, <1>6 DEF Service!Next

\* Executing a command: what every handler starts from.
LEMMA ExecutingMaps ==
    ASSUME Inv, ServiceInv, run = "exec"
    PROVE  /\ cmd.verb # Unknown /\ st # "StartTLS"
           /\ IsCommandAllowed(sm, cmd.verb) \/ sm = "Aborted"
           /\ Leaving => sm = "Aborted"
<1>1. cmd.verb # Unknown /\ st # "StartTLS" /\ (IsCommandAllowed(sm, cmd.verb) \/ sm = "Aborted")
  BY DEF ServiceInv, RequestInv, Inv, RunInv
<1> QED BY <1>1, WhereAllowed DEF Leaving, IsTerminal

\* A handler that only answers, with a code that is no yes.
LEMMA PlainRefusal ==
    ASSUME Inv, ServiceInv, run = "exec", cmd.verb # "DATA", NEW code, ~IsPositive(code),
           Refuse(code)
    PROVE  ServiceInv' /\ Service!Next
<1>1. /\ run' = "reply" /\ resp' = code /\ cmd' = cmd
      /\ UNCHANGED <<sm, st, host, tls, envelope, txns, stored>>
  BY DEF Refuse, Respond, Write, session, history
<1>2. ServiceInv'
  BY <1>1 DEF ServiceInv, RequestInv, NoneOpen, HasSender, Receiving
<1>3. Upgrading' = Upgrading /\ (Leaving => Leaving')
  BY <1>1, FlagsKept
<1> QED BY <1>1, <1>2, <1>3, Refused

LEMMA NegativeCodes ==
    \A code \in {421, 450, 451, 452, 454, 500, 501, 502, 503, 530, 550, 552, 554} :
        ~IsPositive(code)
BY DEF IsPositive

LEMMA HandleGreetingMaps ==
    ASSUME Inv, ServiceInv, HandleGreeting
    PROVE  ServiceInv' /\ Service!Next
<1>1. run = "exec" /\ cmd.verb \in {"HELO", "EHLO"}
  BY DEF HandleGreeting, Executing
<1>2. CASE Refuse(501)
  BY <1>1, <1>2, PlainRefusal, NegativeCodes
<1>3. CASE /\ host' \in Hosts /\ SmMove(TransitionForCommand(sm, cmd.verb))
           /\ st' = "Identified" /\ envelope' = Nil /\ Respond(250)
           /\ UNCHANGED <<tls, txns, stored>>
  <2>1. run' = "reply" /\ resp' = 250 /\ cmd' = cmd
    BY <1>3 DEF Respond, Write
  <2>2. Leaving => Leaving'
    BY <1>1, <1>3, ExecutingMaps, SmMoves, AbortedStays DEF Leaving, IsTerminal
  <2>3. Upgrading' = Upgrading
    BY <1>1, <1>3, ExecutingMaps, FlagsKept
  <2>4. ServiceInv'
    BY <1>3, <2>1 DEF ServiceInv, RequestInv, NoneOpen, HasSender, Receiving
  <2>5. Transaction' = Nil
    BY <1>3 DEF Transaction
  <2>6. Service!Identify
    BY <1>1, <1>3, <2>1, <2>2, <2>3, <2>5, Granted DEF Service!Identify, IsPositive
  <2> QED BY <2>4, <2>6 DEF Service!Next
<1> QED BY <1>2, <1>3 DEF HandleGreeting, history

\* MAIL opens a transaction only where none is open; the envelope a failed
\* SetMailFrom leaves behind is none.
LEMMA HandleMAILMaps ==
    ASSUME PoliciesRefuse, Inv, ServiceInv, HandleMAIL
    PROVE  ServiceInv' /\ Service!Next
<1>1. /\ run = "exec" /\ cmd.verb = "MAIL"
      /\ envelope = Nil \/ envelope.from = NoSender
  BY DEF HandleMAIL, Executing, ServiceInv, NoneOpen, HasSender
<1>2. Transaction = Nil
  BY <1>1, Dropped
<1>3. CASE \E code \in {530, 421, 501, 552} \cup PolicyCodes : Refuse(code)
  BY <1>1, <1>3, PlainRefusal, NegativeCodes DEF PoliciesRefuse
<1>4. CASE /\ envelope' = NewEnvelope(NoSender) /\ Respond(554)
           /\ UNCHANGED <<sm, st, host, tls, txns, stored>>
  <2>1. run' = "reply" /\ resp' = 554 /\ cmd' = cmd
    BY <1>4 DEF Respond, Write
  <2>2. envelope'.from = NoSender
    BY <1>4 DEF NewEnvelope
  <2>3. Transaction' = Nil
    BY <2>2 DEF Transaction
  <2>4. ServiceInv'
    BY <1>1, <2>1, <2>2 DEF ServiceInv, RequestInv, NoneOpen, HasSender, Receiving
  <2>5. Upgrading' = Upgrading /\ (Leaving => Leaving')
    BY <1>4, FlagsKept
  <2>6. ~IsPositive(resp')
    BY <2>1, NegativeCodes
  <2> QED BY <1>1, <1>2, <1>4, <2>1, <2>3, <2>4, <2>5, <2>6, Refused
<1>5. CASE /\ ~NeedsTLS /\ ~TooManyTransactions
           /\ \E from \in Senders : envelope' = NewEnvelope(from)
           /\ SmMove(TransitionForCommand(sm, "MAIL"))
           /\ st' = "MailFrom" /\ Respond(250)
           /\ UNCHANGED <<host, tls, txns, stored>>
  <2>1. run' = "reply" /\ resp' = 250 /\ cmd' = cmd
    BY <1>5 DEF Respond, Write
  <2>2. /\ sm' \in {"MailFrom", "Aborted"}
        /\ sm = "Aborted" => sm' = "Aborted"
    BY <1>1, <1>5, ExecutingMaps, WhereAllowed, SmMoves, Moves, AbortedStays
  <2>3. (Leaving => Leaving') /\ Upgrading' = Upgrading
    BY <1>1, <1>5, <2>2, ExecutingMaps, FlagsKept DEF Leaving, IsTerminal
  <2>4. ServiceInv'
    BY <1>1, <2>1, <2>2 DEF ServiceInv, RequestInv, NoneOpen, Receiving
  <2>5. PICK from \in Senders : envelope' = NewEnvelope(from)
    BY <1>5
  <2>6. /\ envelope' \in Envelopes
        /\ envelope'.from = from /\ envelope'.rcpts = <<>> /\ envelope'.size = 0
    BY <2>5 DEF NewEnvelope, Envelopes, Inv, TypeOK
  <2>7. envelope' # Nil /\ envelope'.from # NoSender
    BY <2>6, SentinelAssumption DEF SentinelAssumption
  <2>8. Transaction' = [from |-> from, rcpts |-> <<>>, size |-> 0]
    BY <2>6, <2>7 DEF Transaction
  <2>9. host # NoHost /\ (TLSPolicy = "TLSRequired" => tls)
    BY <1>1, <1>5 DEF Inv, SessionInv, NeedsTLS
  <2>10. Service!Within(txns + 1, MaxTransactions)
    BY <1>5, ConfigAssumption DEF ConfigAssumption, Service!Within, TooManyTransactions, Inv, TypeOK
  <2>11. Service!Begin
    BY <1>1, <1>2, <1>5, <2>1, <2>3, <2>8, <2>9, <2>10, Granted DEF Service!Begin, IsPositive
  <2> QED BY <2>4, <2>11 DEF Service!Next
<1>6. ASSUME NEW n, \/ DeclaredTooBig(n) /\ Refuse(552)
                    \/ ~DeclaredTooBig(n) /\ \E code \in PolicyCodes : Refuse(code)
      PROVE  \E code \in {530, 421, 501, 552} \cup PolicyCodes : Refuse(code)
  <2>1. CASE Refuse(552)
    BY <2>1
  <2>2. CASE \E code \in PolicyCodes : Refuse(code)
    BY <2>2, Zenon
  <2> QED BY <1>6, <2>1, <2>2
<1> QED BY <1>3, <1>4, <1>5, <1>6 DEF HandleMAIL, history

LEMMA RecipientAdded ==
    ASSUME NEW f, NEW rs, NEW more, NEW n
    PROVE  [[from |-> f, rcpts |-> rs, size |-> n] EXCEPT !.rcpts = more]
           = [from |-> f, rcpts |-> more, size |-> n]
OBVIOUS

LEMMA HandleRCPTMaps ==
    ASSUME PoliciesRefuse, Inv, ServiceInv, HandleRCPT
    PROVE  ServiceInv' /\ Service!Next
<1>1. run = "exec" /\ cmd.verb = "RCPT" /\ HasSender
  BY DEF HandleRCPT, Executing, Inv, EnvelopeInv
<1>2. CASE \E code \in {501, 452, 554} \cup PolicyCodes : Refuse(code)
  BY <1>1, <1>2, PlainRefusal, NegativeCodes DEF PoliciesRefuse
<1>3. CASE /\ ~TooManyRecipients
           /\ \E r \in Recipients :
                envelope' = [envelope EXCEPT !.rcpts = Append(envelope.rcpts, r)]
           /\ SmMove(TransitionForCommand(sm, "RCPT"))
           /\ st' = "RcptTo" /\ Respond(250)
           /\ UNCHANGED <<host, tls, txns, stored>>
  <2>1. run' = "reply" /\ resp' = 250 /\ cmd' = cmd
    BY <1>3 DEF Respond, Write
  <2>2. sm' \in {"RcptTo", "Aborted"} /\ (sm = "Aborted" => sm' = "Aborted")
    BY <1>1, <1>3, ExecutingMaps, WhereAllowed, SmMoves, Moves, AbortedStays
  <2>3. (Leaving => Leaving') /\ Upgrading' = Upgrading
    BY <1>1, <1>3, <2>2, ExecutingMaps, FlagsKept DEF Leaving, IsTerminal
  <2>4. ServiceInv'
    BY <1>1, <2>1, <2>2 DEF ServiceInv, RequestInv, NoneOpen, Receiving
  <2>5. PICK r \in Recipients :
          envelope' = [envelope EXCEPT !.rcpts = Append(envelope.rcpts, r)]
    BY <1>3
  <2>6. envelope \in Envelopes
    BY <1>1 DEF Inv, TypeOK, HasSender
  <2>7. /\ envelope' \in Envelopes /\ envelope'.from = envelope.from
        /\ envelope'.rcpts = Append(envelope.rcpts, r) /\ envelope'.size = envelope.size
    <3>1. envelope.rcpts \in Seq(Recipients)
      BY <2>6 DEF Envelopes
    <3>2. Append(envelope.rcpts, r) \in Seq(Recipients)
      BY <3>1
    <3> QED BY <2>5, <2>6, <3>2 DEF Envelopes
  <2>8. envelope' # Nil /\ envelope'.from # NoSender
    BY <1>1, <2>7, SentinelAssumption DEF SentinelAssumption, HasSender
  <2>9. Transaction # Nil /\ Transaction = [from |-> envelope.from,
                               rcpts |-> envelope.rcpts, size |-> envelope.size]
    BY <1>1, Held DEF Inv
  <2>10. Transaction' = [Transaction EXCEPT !.rcpts = Append(Transaction.rcpts, r)]
    <3>1. Transaction' = [from |-> envelope'.from, rcpts |-> envelope'.rcpts,
                          size |-> envelope'.size]
      BY <2>8 DEF Transaction
    <3>2. Transaction' = [from |-> envelope.from, rcpts |-> Append(envelope.rcpts, r),
                          size |-> envelope.size]
      BY <2>7, <3>1, Zenon
    <3>3. Transaction.rcpts = envelope.rcpts
      BY <2>9
    <3>4. [[from |-> envelope.from, rcpts |-> envelope.rcpts, size |-> envelope.size]
             EXCEPT !.rcpts = Append(envelope.rcpts, r)]
          = [from |-> envelope.from, rcpts |-> Append(envelope.rcpts, r),
             size |-> envelope.size]
      BY RecipientAdded
    <3> QED BY <2>9, <3>2, <3>3, <3>4, Zenon
  <2>11. Transaction'.rcpts = Append(envelope.rcpts, r)
    BY <2>7, <2>8 DEF Transaction
  <2>12. Service!Within(Len(Transaction'.rcpts), MaxRecipients)
    BY <1>3, <2>6, <2>11, ConfigAssumption DEF ConfigAssumption, Service!Within,
       TooManyRecipients, Envelopes
  <2>13. Service!Accept
    <3>1. Service!Serving({"RCPT"}) /\ Service!Answer("yes")
      BY <1>1, <2>1, <2>3, Granted DEF IsPositive
    <3> QED BY <1>3, <2>3, <2>9, <2>10, <2>12, <3>1 DEF Service!Accept
  <2> QED BY <2>4, <2>13 DEF Service!Next
<1> QED BY <1>2, <1>3 DEF HandleRCPT, history

LEMMA HandleRSETMaps ==
    ASSUME Inv, ServiceInv, HandleRSET
    PROVE  ServiceInv' /\ Service!Next
<1>1. /\ run = "exec" /\ cmd.verb = "RSET" /\ envelope' = Nil
      /\ SmMove(Reset(sm)) /\ st' # "StartTLS" /\ UNCHANGED <<host, tls, txns, stored>>
  BY DEF HandleRSET, Executing, history
<1>2. run' = "reply" /\ resp' = 250 /\ cmd' = cmd
  BY DEF HandleRSET, Respond, Write
<1>3. (Leaving => Leaving') /\ Upgrading' = Upgrading
  BY <1>1, ExecutingMaps, SmMoves, AbortedStays, FlagsKept DEF Leaving, IsTerminal
<1>4. ServiceInv'
  BY <1>1, <1>2 DEF ServiceInv, RequestInv, NoneOpen, HasSender, Receiving
<1>5. Transaction' = Nil
  BY <1>1 DEF Transaction
<1>6. Service!Clear
  BY <1>1, <1>2, <1>3, <1>5, Granted DEF Service!Clear, IsPositive
<1> QED BY <1>4, <1>6 DEF Service!Next

LEMMA HandleQUITMaps ==
    ASSUME Inv, ServiceInv, HandleQUIT
    PROVE  ServiceInv' /\ Service!Next
<1>1. /\ run = "exec" /\ cmd.verb = "QUIT"
      /\ SmMove(Terminate(TransitionForCommand(sm, "QUIT")))
      /\ UNCHANGED <<st, host, tls, envelope, txns, stored>>
  BY DEF HandleQUIT, Executing, history
<1>2. run' = "reply" /\ resp' = 221 /\ cmd' = cmd
  BY DEF HandleQUIT, Respond, Write
<1>3. sm' \in {"Terminated", "Aborted"}
  BY <1>1, ExecutingMaps, WhereAllowed, SmMoves, Moves, AbortedStays
<1>4. Leaving' = TRUE /\ Upgrading' = Upgrading /\ Transaction' = Transaction
  BY <1>1, <1>3, FlagsKept, TransactionKept DEF Leaving, IsTerminal
<1>5. ServiceInv'
  BY <1>1, <1>2, <1>3 DEF ServiceInv, RequestInv, NoneOpen, Receiving
<1>6. Service!Quit
  BY <1>1, <1>2, <1>4, Granted DEF Service!Quit, IsPositive
<1> QED BY <1>5, <1>6 DEF Service!Next

\* VRFY, HELP, NOOP and the verbs without a case.
LEMMA AnswerMaps ==
    ASSUME Inv, ServiceInv, HandleVRFY \/ HandleHELP \/ HandleOther
    PROVE  ServiceInv' /\ Service!Next
<1>1. run = "exec" /\ cmd.verb \in {"VRFY", "HELP", "NOOP", "EXPN", "AUTH"}
  BY DEF HandleVRFY, HandleHELP, HandleOther, Executing
<1>2. CASE Refuse(502)
  BY <1>1, <1>2, PlainRefusal, NegativeCodes
<1>3. CASE cmd.verb \in {"VRFY", "HELP", "NOOP"} /\ \E code \in {252, 214, 250} : Refuse(code)
  <2>1. /\ run' = "reply" /\ resp' \in {252, 214, 250} /\ cmd' = cmd
        /\ UNCHANGED <<sm, st, host, tls, envelope, txns, stored>>
    BY <1>3 DEF Refuse, Respond, Write, session, history
  <2>2. (Leaving => Leaving') /\ Upgrading' = Upgrading /\ Transaction' = Transaction
    BY <2>1, FlagsKept, TransactionKept
  <2>3. ServiceInv'
    BY <1>1, <2>1 DEF ServiceInv, RequestInv, NoneOpen, HasSender, Receiving
  <2>4. Service!Inform
    BY <1>1, <1>3, <2>1, <2>2, Granted DEF Service!Inform, IsPositive
  <2> QED BY <2>3, <2>4 DEF Service!Next
<1> QED BY <1>2, <1>3 DEF HandleVRFY, HandleHELP, HandleOther, Executing

LEMMA HandleSTARTTLSMaps ==
    ASSUME Inv, ServiceInv, HandleSTARTTLS
    PROVE  ServiceInv' /\ Service!Next
<1>1. run = "exec" /\ cmd.verb = "STARTTLS"
  BY DEF HandleSTARTTLS, Executing
<1>2. CASE \E code \in {502, 503, 454} : Refuse(code)
  BY <1>1, <1>2, PlainRefusal, NegativeCodes
<1>3. CASE /\ ~tls /\ SmMove(TransitionForCommand(sm, "STARTTLS"))
           /\ st' = "StartTLS" /\ Respond(220)
           /\ UNCHANGED <<host, tls, envelope, txns, stored>>
  <2>1. run' = "reply" /\ resp' = 220 /\ cmd' = cmd
    BY <1>3 DEF Respond, Write
  <2>2. sm' \in {"StartTLS", "Aborted"} /\ (sm = "Aborted" => sm' = "Aborted")
    BY <1>1, <1>3, ExecutingMaps, WhereAllowed, SmMoves, Moves, AbortedStays
  <2>3. (Leaving => Leaving') /\ Upgrading' = TRUE /\ Transaction' = Transaction
    BY <1>1, <1>3, <2>2, ExecutingMaps, TransactionKept DEF Leaving, IsTerminal, Upgrading
  <2>4. ServiceInv'
    BY <1>1, <2>1, <2>2 DEF ServiceInv, RequestInv, NoneOpen, Receiving
  <2>5. Service!StartTLS
    BY <1>1, <1>3, <2>1, <2>3, Granted DEF Service!StartTLS, IsPositive
  <2> QED BY <2>4, <2>5 DEF Service!Next
<1> QED BY <1>2, <1>3 DEF HandleSTARTTLS, history

\* The handshake fails and ends the session, or the service starts over.
LEMMA PerformTLSUpgradeMaps ==
    ASSUME Inv, ServiceInv, PerformTLSUpgrade
    PROVE  ServiceInv' /\ [Service!Next]_(Service!vars)
<1>1. /\ run = "tls" /\ cmd' = cmd /\ cmd.verb = Unknown /\ stored' = stored
      /\ st = "StartTLS" /\ sm \in {"StartTLS", "Aborted"}
  BY DEF PerformTLSUpgrade, Inv, RunInv, ServiceInv, RequestInv, call, history
<1>2. CASE handleDisconnect("TLSFailure") /\ UNCHANGED session
  <2>1. run' = "done" /\ UNCHANGED <<sm, st, host, tls, envelope, txns>>
    BY <1>2 DEF handleDisconnect, session
  <2>2. ServiceInv'
    BY <1>1, <2>1 DEF ServiceInv, RequestInv, NoneOpen, HasSender, Receiving
  <2>3. Upgrading' = Upgrading /\ (Leaving => Leaving')
    BY <2>1, FlagsKept
  <2> QED BY <1>1, <2>1, <2>2, <2>3, Unseen
<1>3. CASE /\ tls' = TRUE /\ SmMove(TLSComplete(sm)) /\ st' = "Greeted"
           /\ envelope' = Nil /\ host' = NoHost /\ run' = "loop" /\ UNCHANGED txns
  <2>1. Upgrading /\ Upgrading' = FALSE /\ Over = FALSE /\ Over' = FALSE
    BY <1>1, <1>3, FlagsKept DEF Upgrading
  <2>2. Leaving => Leaving'
    BY <1>1, <1>3, SmMoves, AbortedStays DEF Leaving, IsTerminal
  <2>3. PendingAnswer = "none" /\ PendingAnswer' = "none" /\ Transaction' = Nil
    BY <1>1, <1>3 DEF PendingAnswer, Transaction
  <2>4. ServiceInv'
    BY <1>1, <1>3 DEF ServiceInv, RequestInv, NoneOpen, HasSender, Receiving
  <2>5. Service!Upgrade
    BY <1>1, <1>3, <2>1, <2>2, <2>3, LeavingMaps DEF Service!Upgrade
  <2> QED BY <2>4, <2>5 DEF Service!Next
<1> QED BY <1>2, <1>3 DEF PerformTLSUpgrade

-----------------------------------------------------------------------------
(* DATA.                                                                   *)

\* What every step of the reception starts from.
LEMMA ReceivingMaps ==
    ASSUME Inv, ServiceInv, Receiving
    PROVE  /\ cmd.verb = "DATA" /\ run \notin {"exec", "reply", "done"} /\ st # "StartTLS"
           /\ sm \in {"Data", "Aborted"} /\ HasRecipient
BY DEF ServiceInv, RequestInv, Inv, RunInv, EnvelopeInv, Receiving

LEMMA HandleDATAMaps ==
    ASSUME Inv, ServiceInv, HandleDATA
    PROVE  ServiceInv' /\ [Service!Next]_(Service!vars)
<1>1. /\ run = "exec" /\ cmd.verb = "DATA" /\ run' = "data354" /\ st' = "Data"
      /\ SmMove(TransitionForCommand(sm, "DATA"))
      /\ UNCHANGED <<host, tls, envelope, txns, cmd, stored>>
  BY DEF HandleDATA, Executing, call, history
<1>2. sm' \in {"Data", "Aborted"} /\ (sm = "Aborted" => sm' = "Aborted")
  BY <1>1, ExecutingMaps, WhereAllowed, SmMoves, Moves, AbortedStays
<1>3. (Leaving => Leaving') /\ Upgrading' = Upgrading
  BY <1>1, <1>2, ExecutingMaps, FlagsKept DEF Leaving, IsTerminal
<1>4. ServiceInv'
  BY <1>1, <1>2 DEF ServiceInv, RequestInv, NoneOpen, Receiving
<1> QED BY <1>1, <1>3, <1>4, Unseen

\* A reception that is given up takes its transaction with it.
LEMMA FailDataMaps ==
    ASSUME Inv, ServiceInv, Receiving, NEW code \in {451, 500, 552}, FailData(code),
           UNCHANGED <<host, tls, txns, stored>>
    PROVE  ServiceInv' /\ Service!Next
<1>1. /\ SmMove(Reset(sm)) /\ st' = "Identified" /\ envelope' = Nil
      /\ run' = "reply" /\ resp' = code /\ cmd' = cmd
  BY DEF FailData, Respond, Write
<1>2. (Leaving => Leaving') /\ Upgrading' = Upgrading
  BY <1>1, ReceivingMaps, SmMoves, AbortedStays, FlagsKept DEF Leaving, IsTerminal
<1>3. ServiceInv'
  BY <1>1, ReceivingMaps DEF ServiceInv, RequestInv, NoneOpen, HasSender, Receiving
<1>4. ~IsPositive(resp')
  BY <1>1, NegativeCodes
<1> QED BY <1>1, <1>2, <1>3, <1>4, ReceivingMaps, Refused

\* A reception that goes on.
LEMMA ReceiveOnMaps ==
    ASSUME Inv, ServiceInv, Receiving, run' \in {"stream", "streamread", "store"},
           UNCHANGED <<sm, st, host, tls, envelope, txns, cmd, stored>>
    PROVE  ServiceInv' /\ [Service!Next]_(Service!vars)
<1>1. ServiceInv'
  BY DEF ServiceInv, RequestInv, NoneOpen, HasSender, Receiving
<1>2. (Leaving => Leaving') /\ Upgrading' = Upgrading
  BY FlagsKept
<1> QED BY <1>1, <1>2, ReceivingMaps, Unseen

LEMMA SendStartMailInputMaps ==
    ASSUME Inv, ServiceInv, SendStartMailInput
    PROVE  ServiceInv' /\ [Service!Next]_(Service!vars)
<1>1. run = "data354" /\ Receiving /\ UNCHANGED <<host, tls, txns, stored>>
  BY DEF SendStartMailInput, Receiving
<1>2. CASE SmMove(Abort(sm)) /\ Respond(0) /\ UNCHANGED <<st, envelope>>
  <2>1. run' = "reply" /\ resp' = 0 /\ cmd' = cmd
    BY <1>2 DEF Respond, Write
  <2>2. sm' = "Aborted" /\ ~IsPositive(resp')
    BY <1>1, <1>2, <2>1, ReceivingMaps, SmMoves, AbortedStays DEF IsPositive
  <2>3. Leaving' /\ Upgrading' = Upgrading
    BY <1>2, <2>2, FlagsKept DEF Leaving, IsTerminal
  <2>4. ServiceInv'
    BY <1>1, <2>1, <2>2, ReceivingMaps DEF ServiceInv, RequestInv, NoneOpen, Receiving
  <2> QED BY <1>1, <1>2, <2>1, <2>2, <2>3, <2>4, Refused
<1>3. CASE FailData(451)
  BY <1>1, <1>3, FailDataMaps
<1>4. CASE run' = "stream" /\ UNCHANGED <<sm, st, envelope, call>>
  BY <1>1, <1>4, ReceiveOnMaps DEF call
<1> QED BY <1>2, <1>3, <1>4 DEF SendStartMailInput

LEMMA StreamCheckMaps ==
    ASSUME Inv, ServiceInv, StreamCheck \/ StreamReadFails
    PROVE  ServiceInv' /\ [Service!Next]_(Service!vars)
<1>1. Receiving /\ UNCHANGED <<host, tls, txns, stored>>
  BY DEF StreamCheck, StreamReadFails, Receiving, history
<1>2. CASE FailData(451)
  BY <1>1, <1>2, FailDataMaps
<1>3. CASE run' = "streamread" /\ UNCHANGED <<sm, st, envelope, call>>
  BY <1>1, <1>3, ReceiveOnMaps DEF call
<1> QED BY <1>2, <1>3 DEF StreamCheck, StreamReadFails

\* Part of the body, within the limit.
LEMMA StreamLineMaps ==
    ASSUME Inv, ServiceInv, StreamLine
    PROVE  ServiceInv' /\ [Service!Next]_(Service!vars)
<1>1. run = "streamread" /\ Receiving /\ UNCHANGED <<host, tls, txns, stored>>
  BY DEF StreamLine, Receiving
<1>2. CASE run' = "store" /\ UNCHANGED <<sm, st, envelope, call>>
  BY <1>1, <1>2, ReceiveOnMaps DEF call
<1>3. ASSUME NEW n \in Nat, NEW added \in Nat, StreamBodyLine(n, added)
      PROVE  ServiceInv' /\ [Service!Next]_(Service!vars)
  <2>1. CASE \E code \in {500, 552, 451} : FailData(code)
    BY <1>1, <2>1, FailDataMaps
  <2>2. CASE /\ ~MessageTooLarge(added)
             /\ envelope' = [envelope EXCEPT !.size = envelope.size + added]
             /\ run' = "stream" /\ UNCHANGED <<sm, st, call>>
    <3>1. envelope \in Envelopes /\ HasRecipient
      BY <1>1, ReceivingMaps DEF Inv, TypeOK, HasRecipient, HasSender
    <3>2. /\ envelope' \in Envelopes /\ envelope' # Nil
          /\ envelope'.from = envelope.from /\ envelope'.rcpts = envelope.rcpts
          /\ envelope'.size = envelope.size + added
      BY <2>2, <3>1, SentinelAssumption DEF SentinelAssumption, Envelopes
    <3>3. /\ Transaction = [from |-> envelope.from, rcpts |-> envelope.rcpts,
                            size |-> envelope.size]
          /\ Transaction # Nil
      BY <3>1, Held DEF Inv, HasRecipient
    <3>4. Transaction' = [from |-> envelope.from, rcpts |-> envelope.rcpts,
                          size |-> envelope.size + added]
      BY <3>1, <3>2 DEF Transaction, HasRecipient, HasSender
    <3>5. Transaction' # Nil
      <4>1. Transaction' \in Transactions
        BY <3>1, <3>4 DEF Transactions, Envelopes, HasRecipient, HasSender
      <4> QED BY <4>1, TransactionAssumption DEF TransactionAssumption
    <3>6. /\ Transaction' = [Transaction EXCEPT !.size = Transaction'.size]
          /\ Transaction'.size >= Transaction.size /\ Transaction.rcpts # <<>>
      BY <3>1, <3>3, <3>4 DEF Envelopes, HasRecipient
    <3>7. Service!Within(Transaction'.size, MaxMessageSize)
      BY <2>2, <3>1, <3>4, ConfigAssumption DEF ConfigAssumption, Service!Within,
         MessageTooLarge, Envelopes
    <3>8. PendingAnswer = "none" /\ PendingAnswer' = "none" /\ Over = FALSE /\ Over' = FALSE
      BY <1>1, <2>2, FlagsKept DEF PendingAnswer
    <3>9. (Leaving => Leaving') /\ Upgrading' = Upgrading /\ cmd' = cmd
      BY <2>2, FlagsKept DEF call
    <3>10. ServiceInv'
      BY <1>1, <2>2, <3>9, ReceivingMaps DEF ServiceInv, RequestInv, NoneOpen, Receiving
    <3>11. Service!Receive
      BY <1>1, <3>3, <3>5, <3>6, <3>7, <3>8, <3>9, ReceivingMaps, LeavingMaps
         DEF Service!Receive, Service!Serving
    <3> QED BY <3>10, <3>11 DEF Service!Next
  <2> QED BY <1>3, <2>1, <2>2 DEF StreamBodyLine
<1>4. \A n \in LineLengths : n \in Nat /\ n - 1 \in Nat
  BY ClientAssumption DEF ClientAssumption
<1> QED BY <1>2, <1>3, <1>4 DEF StreamLine

\* What Storage is handed is the transaction, under the session's name and TLS flag.
LEMMA FinishMessageMaps ==
    ASSUME Inv, ServiceInv, FinishMessage
    PROVE  ServiceInv' /\ Service!Next
<1>1. /\ run = "store" /\ Receiving /\ UNCHANGED <<host, tls>>
      /\ HasRecipient /\ envelope \in Envelopes
  BY ReceivingMaps DEF FinishMessage, Receiving, HasRecipient, HasSender, Inv, TypeOK
<1>2. CASE FailData(451) /\ UNCHANGED <<txns, stored>>
  BY <1>1, <1>2, FailDataMaps
<1>3. CASE /\ stored' = IF HasStorage THEN envelope ELSE stored
           /\ txns' = txns + 1 /\ SmMove(Reset(DataComplete(sm)))
           /\ st' = "Identified" /\ envelope' = Nil /\ Respond(250)
  <2>1. run' = "reply" /\ resp' = 250 /\ cmd' = cmd
    BY <1>3 DEF Respond, Write
  <2>2. (Leaving => Leaving') /\ Upgrading' = Upgrading
    BY <1>1, <1>3, ReceivingMaps, SmMoves, AbortedStays, FlagsKept DEF Leaving, IsTerminal
  <2>3. ServiceInv'
    BY <1>1, <1>3, <2>1, ReceivingMaps DEF ServiceInv, RequestInv, NoneOpen, HasSender, Receiving
  <2>4. /\ Transaction = [from |-> envelope.from, rcpts |-> envelope.rcpts,
                          size |-> envelope.size]
        /\ Transaction # Nil /\ Transaction.rcpts # <<>>
    BY <1>1, Held DEF Inv, HasRecipient
  <2>5. Transaction' = Nil
    BY <1>3 DEF Transaction
  <2>6. envelope.tls = tls /\ envelope.host = host
    BY <1>1 DEF Inv, SessionInv, EnvelopeMatchesSession, HasRecipient, HasSender
  <2>7. envelope = Service!Message
    BY <1>1, <2>4, <2>6 DEF Service!Message, Envelopes
  <2>8. Service!Serving({"DATA"}) /\ Service!Answer("yes")
    BY <1>1, <2>1, <2>2, Granted, ReceivingMaps DEF IsPositive
  <2>9. Service!Deliver
    BY <1>1, <1>3, <2>2, <2>4, <2>5, <2>7, <2>8 DEF Service!Deliver
  <2> QED BY <2>3, <2>9 DEF Service!Next
<1> QED BY <1>2, <1>3 DEF FinishMessage

-----------------------------------------------------------------------------
(* The theorem.                                                            *)

LEMMA InitMaps == Init => ServiceInv /\ Service!Init
<1> SUFFICES ASSUME Init PROVE ServiceInv /\ Service!Init
  OBVIOUS
<1>1. ServiceInv
  BY DEF Init, ServiceInv, RequestInv, NoneOpen, HasSender, Receiving, NoCommand
<1>2. Upgrading = FALSE /\ Leaving = FALSE /\ Over = FALSE
  BY DEF Init, Upgrading, Leaving, IsTerminal, Over
<1>3. PendingAnswer = "none" /\ Transaction = Nil /\ cmd.verb = Unknown
  BY DEF Init, PendingAnswer, Transaction, NoCommand
<1> QED BY <1>1, <1>2, <1>3 DEF Init, Service!Init

LEMMA NextMaps ==
    ASSUME PoliciesRefuse, Inv, ServiceInv, [Next]_vars
    PROVE  ServiceInv' /\ [Service!Next]_(Service!vars)
<1>1. CASE Handle
  BY <1>1, HandleGreetingMaps, HandleMAILMaps, HandleRCPTMaps, HandleDATAMaps, HandleRSETMaps,
     HandleQUITMaps, AnswerMaps, HandleSTARTTLSMaps DEF Handle
<1>2. CASE RunStep
  BY <1>1, <1>2, GreetingMaps, LoopMaps, ReplyMaps, PerformTLSUpgradeMaps,
     SendStartMailInputMaps, StreamCheckMaps, FinishMessageMaps DEF RunStep
<1>3. CASE ReadStep
  BY <1>3, ReadCommandMaps, StreamLineMaps DEF ReadStep
<1>4. CASE CloseStep \/ Cancel \/ ClientGone \/ Stall \/ CloseFlag
  BY <1>4, AsideMaps
<1>5. CASE UNCHANGED vars
  <2>1. ServiceInv'
    BY <1>5 DEF ServiceInv, RequestInv, NoneOpen, HasSender, Receiving, vars, session, call
  <2>2. /\ PendingAnswer' = PendingAnswer /\ Transaction' = Transaction
        /\ Upgrading' = Upgrading /\ Leaving' = Leaving /\ Over' = Over
    BY <1>5, Zenon DEF PendingAnswer, Transaction, Upgrading, Leaving, Over, vars, session, call
  <2> QED BY <1>5, <2>1, <2>2 DEF Service!vars, vars, session, call, history
<1> QED BY <1>2, <1>3, <1>4, <1>5 DEF Next

\* Engine implements SmtpService: whatever its limits, callbacks, failures and races, a
\* session answers every request as the service does, and what it hands to Storage
\* (engine.go:536) is the transaction its client was told had been accepted. The callbacks
\* may answer with any code that is not positive, the zero Response included.
THEOREM EngineImplementsService ==
    ASSUME PoliciesRefuse
    PROVE  Spec => ImplementsService
<1>1. Spec => []Inv
  BY Invariance
<1> QED BY <1>1, InitMaps, NextMaps, PTL DEF Spec, ImplementsService, Service!Spec
=============================================================================

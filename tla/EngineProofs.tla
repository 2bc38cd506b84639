---------------------------- MODULE EngineProofs ----------------------------
(***************************************************************************)
(* The safety properties of Engine hold for every configuration: Inv is    *)
(* preserved by every step.  The two tables of the state machine are       *)
(* settled first; the proofs of the actions cite them and never look at    *)
(* the tables again.                                                       *)
(***************************************************************************)
EXTENDS Engine, TLAPS

-----------------------------------------------------------------------------
(* The state machine.                                                      *)

\* The two tables that say where a command is accepted, AllowedCommands in
\* command.go and CommandStateRequirements in statemachine.go, agree.
THEOREM TablesAgree ==
    ASSUME NEW s \in States, NEW verb \in Verbs
    PROVE  IsCommandAllowed(s, verb) <=> IsStateValidForCommand(s, verb)
BY DEF States, Verbs, IsCommandAllowed, AllowedCommands, IsStateValidForCommand,
       CommandStateRequirements

\* The handlers drop the error of TransitionForCommand.  For a command that was
\* found allowed there is none to drop: the machine gets where the command leads.
THEOREM AcceptedCommandMoves ==
    ASSUME NEW s \in States, NEW verb \in Verbs, IsCommandAllowed(s, verb)
    PROVE  TransitionForCommand(s, verb) = nextStateForCommand(s, verb)
<1>1. s \in {"Greeted", "Identified", "MailFrom", "RcptTo"}
  BY DEF IsCommandAllowed, AllowedCommands
<1>2. CASE verb \in {"HELO", "EHLO", "MAIL", "RCPT", "DATA", "QUIT", "STARTTLS"}
  BY <1>1, <1>2 DEF IsCommandAllowed, AllowedCommands, TransitionForCommand,
     nextStateForCommand, Transition, canTransition, validTransitions
<1>3. CASE verb \in {"RSET", "NOOP", "VRFY", "EXPN", "HELP", "AUTH"}
  BY <1>1, <1>3 DEF TransitionForCommand, nextStateForCommand, Transition,
     canTransition, validTransitions, InTransaction
<1> QED BY <1>2, <1>3 DEF Verbs

\* Where each command can be executed.
LEMMA WhereAllowed ==
    ASSUME NEW s, NEW verb, IsCommandAllowed(s, verb)
    PROVE  /\ s \in {"Greeted", "Identified", "MailFrom", "RcptTo"}
           /\ verb \in {"HELO", "EHLO"} => s \in {"Greeted", "Identified"}
           /\ verb \in {"MAIL", "STARTTLS"} => s = "Identified"
           /\ verb = "RCPT" => s \in {"MailFrom", "RcptTo"}
           /\ verb = "DATA" => s = "RcptTo"
BY DEF IsCommandAllowed, AllowedCommands

\* Where the calls of the engine lead from the states they are made in.
LEMMA Moves ==
    /\ Connect("Disconnected") = "Connected"
    /\ Greet("Connected") = "Greeted"
    /\ \A s \in {"Greeted", "Identified"}, v \in {"HELO", "EHLO"} :
         TransitionForCommand(s, v) = "Identified"
    /\ TransitionForCommand("Identified", "MAIL") = "MailFrom"
    /\ \A s \in {"MailFrom", "RcptTo"} : TransitionForCommand(s, "RCPT") = "RcptTo"
    /\ TransitionForCommand("RcptTo", "DATA") = "Data"
    /\ TransitionForCommand("Identified", "STARTTLS") = "StartTLS"
    /\ \A s \in {"Greeted", "Identified", "MailFrom", "RcptTo"} :
         Terminate(TransitionForCommand(s, "QUIT")) = "Terminated"
    /\ Reset("Greeted") = "Greeted"
    /\ \A s \in {"Identified", "MailFrom", "RcptTo"} : Reset(s) = "Identified"
    /\ Reset("Data") = "Data"
    /\ Reset(DataComplete("Data")) = "Identified"
    /\ TLSComplete("StartTLS") = "Greeted"
BY DEF Connect, Greet, TransitionForCommand, nextStateForCommand, Terminate, Reset,
       DataComplete, TLSComplete, Transition, canTransition, validTransitions,
       InTransaction

\* Nothing leaves Aborted, and an abort leads there or nowhere.
LEMMA AbortedStays ==
    /\ \A v : TransitionForCommand("Aborted", v) = "Aborted"
    /\ Terminate("Aborted") = "Aborted"
    /\ Reset("Aborted") = "Aborted" /\ DataComplete("Aborted") = "Aborted"
    /\ TLSComplete("Aborted") = "Aborted"
    /\ \A s : Abort(s) \in {s, "Aborted"}
    /\ ~canTransition("Disconnected", "Aborted")
    /\ Abort("Disconnected") = "Disconnected"
    /\ Abort("Data") = "Aborted" /\ Abort("Aborted") = "Aborted"
BY DEF TransitionForCommand, Terminate, Reset, DataComplete, TLSComplete, Abort,
       Transition, canTransition, validTransitions, InTransaction

\* What SmMove does, the race included.
LEMMA SmMoves ==
    ASSUME NEW target, SmMove(target)
    PROVE  /\ sm' \in {target, "Aborted"}
           /\ closer' # closer => closer = "abort" /\ closer' = "connclose"
                                  /\ canTransition(sm, "Aborted")
           /\ closer' = closer => sm' = target
BY DEF SmMove

\* What handleDisconnect leaves behind.
LEMMA Disconnects ==
    ASSUME TypeOK, NEW r \in Reasons, handleDisconnect(r)
    PROVE  /\ run' = "done" /\ closed' \in BOOLEAN /\ reason' \in Reasons \cup {Nil}
           /\ closed \/ reason' # Nil
<1>1. run' = "done" /\ closed' \in BOOLEAN
  BY Zenon DEF handleDisconnect
<1>2. CASE closed
  <2>1. reason' = reason
    BY <1>2, Zenon DEF handleDisconnect
  <2> QED BY <1>1, <1>2, <2>1 DEF TypeOK
<1>3. CASE ~closed
  <2>1. reason' = r
    BY <1>3, Zenon DEF handleDisconnect
  <2> QED BY <1>1, <2>1, SentinelAssumption DEF SentinelAssumption
<1> QED BY <1>2, <1>3

\* After processOneCommand the loop goes round, or Run disconnects.
LEMMA Returns ==
    ASSUME TypeOK, NEW e, Returned(e)
    PROVE  /\ run' \in {"loop", "done"}
           /\ closed' \in BOOLEAN /\ reason' \in Reasons \cup {Nil}
           /\ run' = "done" => closed \/ reason' # Nil
           /\ run' # "done" => closed' = closed
<1>1. CASE Verdict(e, sm') = "loop"
  BY <1>1 DEF Returned, TypeOK, life
<1>2. CASE Verdict(e, sm') # "loop"
  <2>1. Verdict(e, sm') \in Reasons /\ handleDisconnect(Verdict(e, sm'))
    BY <1>2 DEF Returned, Verdict, Reasons
  <2> QED BY <2>1, Disconnects
<1> QED BY <1>1, <1>2

-----------------------------------------------------------------------------
(* Each action preserves Inv.                                              *)

\* Steps that leave the session, the call and the history alone.
LEMMA EnvironmentStep ==
    ASSUME Inv, Cancel \/ ClientGone \/ Stall \/ CloseFlag \/ CloseConn
    PROVE  Inv'
<1> USE DEF Inv
<1>1. UNCHANGED <<run, session, call, reason, history>>
  BY DEF Cancel, ClientGone, Stall, CloseFlag, CloseConn, life
<1>2. closer' = "idle" => closer = "idle" /\ closed' = closed
  BY DEF Cancel, ClientGone, Stall, CloseFlag, CloseConn, life, TypeOK
<1>3. AheadBound \in Nat
  BY ClientAssumption DEF ClientAssumption
<1>4. closed' \in BOOLEAN /\ ctxDone' \in BOOLEAN
  BY Zenon DEF Cancel, ClientGone, Stall, CloseFlag, CloseConn, life, world, TypeOK
<1>5. ahead' \in Nat
  BY <1>3 DEF Cancel, ClientGone, Stall, CloseFlag, CloseConn, life, world, TypeOK
<1>6. /\ closer' \in {"idle", "abort", "connclose", "closed"}
      /\ conn' \in {"open", "stalled", "eof", "broken", "closed"}
  BY DEF Cancel, ClientGone, Stall, CloseFlag, CloseConn, life, world, TypeOK
<1>7. TypeOK'
  BY <1>1, <1>4, <1>5, <1>6 DEF TypeOK, session, call, history
<1>8. RunInv' /\ StateAgreement' /\ BodyInv' /\ EnvelopeInv' /\ SessionInv'
  BY <1>1, <1>2 DEF RunInv, StateAgreement, BodyInv, EnvelopeInv, SessionInv,
     EnvelopeMatchesSession, HasSender, HasRecipient, Receiving, session, call, history
<1>9. LimitInv' /\ StoredUnderTLS' /\ StoredWithinLimits'
  BY <1>1 DEF LimitInv, StoredUnderTLS, StoredWithinLimits, session, history
<1>10. EndInv'
  BY <1>1, <1>2 DEF EndInv, EndReported
<1> QED BY <1>7, <1>8, <1>9, <1>10

\* Close aborts the state machine from outside.
LEMMA CloseAbortStep ==
    ASSUME Inv, CloseAbort
    PROVE  Inv'
<1> USE DEF Inv
<1>1. /\ closer = "abort" /\ closer' = "connclose"
      /\ UNCHANGED <<run, st, host, tls, envelope, errs, txns, call, life, world, history>>
  BY DEF CloseAbort
<1>2. sm' \in {sm, "Aborted"} /\ (sm = "Disconnected" => sm' = sm)
  BY AbortedStays DEF CloseAbort
<1>3. TypeOK'
  BY <1>1, <1>2 DEF TypeOK, States, call, life, world, history
<1>4. RunInv'
  BY <1>1, <1>2 DEF RunInv, Receiving, call
<1>5. StateAgreement' /\ BodyInv' /\ EnvelopeInv' /\ SessionInv'
  BY <1>1, <1>2 DEF StateAgreement, IsTerminal, BodyInv, EnvelopeInv, SessionInv,
     EnvelopeMatchesSession, HasSender, HasRecipient, Receiving, call, history
<1>6. LimitInv' /\ StoredUnderTLS' /\ StoredWithinLimits' /\ EndInv'
  BY <1>1 DEF LimitInv, StoredUnderTLS, StoredWithinLimits, EndInv, EndReported,
     life, history
<1> QED BY <1>3, <1>4, <1>5, <1>6

\* sm.Connect and the greeting.
LEMMA StartStep ==
    ASSUME Inv, Start
    PROVE  Inv'
<1> USE DEF Inv
<1>1. /\ run = "start" /\ run' = "greet" /\ sm = "Disconnected"
      /\ UNCHANGED <<st, host, tls, envelope, errs, txns, call, life, world, history>>
  BY DEF Start, RunInv
<1>2. sm' = "Connected" /\ closer' = closer
  BY <1>1, Moves, AbortedStays DEF Start, SmMove
<1>3. TypeOK'
  BY <1>1, <1>2 DEF TypeOK, States, RunStates, call, life, world, history
<1>4. RunInv' /\ StateAgreement' /\ BodyInv'
  BY <1>1, <1>2 DEF RunInv, StateAgreement, BodyInv, Receiving, history
<1>5. EnvelopeInv' /\ SessionInv'
  BY <1>1, <1>2 DEF EnvelopeInv, SessionInv, EnvelopeMatchesSession, Receiving
<1>6. LimitInv' /\ StoredUnderTLS' /\ StoredWithinLimits' /\ EndInv'
  BY <1>1, <1>2 DEF LimitInv, StoredUnderTLS, StoredWithinLimits, EndInv, EndReported,
     life, history
<1> QED BY <1>3, <1>4, <1>5, <1>6

LEMMA SendGreetingStep ==
    ASSUME Inv, SendGreeting
    PROVE  Inv'
<1> USE DEF Inv
<1>1. /\ run = "greet" /\ st = "Disconnected"
      /\ sm = "Connected" \/ (sm = "Aborted" /\ closer # "idle")
      /\ UNCHANGED <<host, tls, envelope, errs, txns, call, world, history>>
  BY DEF SendGreeting, RunInv
<1>2. CASE /\ sm = "Connected" /\ SmMove(Greet(sm))
           /\ st' = "Greeted" /\ run' = "loop" /\ UNCHANGED life
  <2>1. sm' \in {"Greeted", "Aborted"} /\ closer' \in {closer, "connclose"}
    BY <1>2, SmMoves, Moves
  <2>2. TypeOK'
    BY <1>1, <1>2, <2>1 DEF TypeOK, States, RunStates, call, life, world, history
  <2>3. RunInv' /\ StateAgreement' /\ BodyInv' /\ EndInv'
    BY <1>1, <1>2, <2>1 DEF RunInv, StateAgreement, IsTerminal, BodyInv, EndInv,
       EndReported, Receiving, life, history
  <2>4. EnvelopeInv' /\ SessionInv'
    BY <1>1, <1>2, <2>1 DEF EnvelopeInv, SessionInv, EnvelopeMatchesSession, Receiving
  <2> QED BY <1>1, <2>2, <2>3, <2>4 DEF LimitInv, StoredUnderTLS, StoredWithinLimits, history
<1>3. CASE /\ run' = "done" /\ UNCHANGED <<sm, closer, st>>
           /\ \/ sm # "Connected" /\ UNCHANGED life
              \/ handleDisconnect("Error")
  <2>1. /\ closed' \in BOOLEAN /\ reason' \in Reasons \cup {Nil}
        /\ closer # "idle" \/ closed \/ reason' # Nil
    BY <1>1, <1>3, Disconnects DEF TypeOK, life, Reasons
  <2>2. TypeOK'
    BY <1>1, <1>3, <2>1 DEF TypeOK, RunStates, call, world, history
  <2>3. RunInv' /\ StateAgreement' /\ BodyInv' /\ EndInv'
    BY <1>1, <1>3, <2>1 DEF RunInv, StateAgreement, BodyInv, EndInv, EndReported, Receiving,
       history
  <2>4. EnvelopeInv' /\ SessionInv'
    BY <1>1, <1>3 DEF EnvelopeInv, SessionInv, EnvelopeMatchesSession, Receiving
  <2> QED BY <1>1, <2>2, <2>3, <2>4 DEF LimitInv, StoredUnderTLS, StoredWithinLimits, history
<1> QED BY <1>2, <1>3 DEF SendGreeting, handleDisconnect

\* The session ends, or the loop goes round, with the session untouched.
LEMMA LoopStep ==
    ASSUME Inv, Loop
    PROVE  Inv'
<1> USE DEF Inv
<1>1. /\ run = "loop" /\ UNCHANGED <<session, call, closer, world, history>>
  BY DEF Loop
<1>2. \/ \E r \in {"Timeout", "Normal"} : handleDisconnect(r)
      \/ /\ run' = IF st = "StartTLS" THEN "tls" ELSE "read"
         /\ UNCHANGED life
  BY DEF Loop
<1>3. /\ run' \in {"done", "tls", "read"}
      /\ run' = "tls" => st = "StartTLS"
      /\ run' = "read" => st # "StartTLS"
  BY <1>2 DEF handleDisconnect
<1>4. /\ closed' \in BOOLEAN /\ reason' \in Reasons \cup {Nil}
      /\ run' = "done" => closed \/ reason' # Nil
      /\ run' # "done" => closed' = closed
  <2>1. CASE \E r \in {"Timeout", "Normal"} : handleDisconnect(r)
    BY <2>1, Disconnects DEF Reasons
  <2>2. CASE UNCHANGED life /\ run' # "done"
    BY <2>2 DEF life, TypeOK
  <2> QED BY <1>2, <2>1, <2>2
<1>5. TypeOK'
  BY <1>1, <1>3, <1>4 DEF TypeOK, RunStates, session, call, world, history
<1>6. RunInv' /\ StateAgreement' /\ BodyInv' /\ EnvelopeInv' /\ SessionInv'
  BY <1>1, <1>3 DEF RunInv, StateAgreement, BodyInv, EnvelopeInv, SessionInv, HasSender,
     HasRecipient, EnvelopeMatchesSession, Receiving, session, history
<1>7. LimitInv' /\ StoredUnderTLS' /\ StoredWithinLimits'
  BY <1>1 DEF LimitInv, StoredUnderTLS, StoredWithinLimits, session, history
<1>8. EndInv'
  BY <1>1, <1>3, <1>4 DEF EndInv, EndReported
<1> QED BY <1>5, <1>6, <1>7, <1>8

\* A response is pending and nothing else has changed.
LEMMA RefuseStep ==
    ASSUME Inv, run = "exec", NEW code \in Nat, Refuse(code), UNCHANGED <<life, world>>
    PROVE  Inv'
<1> USE DEF Inv
<1>1. /\ run' = "reply" /\ resp' = code /\ ret' = "handled" /\ cmd' = cmd
      /\ UNCHANGED <<session, closer, history, life, world>>
  BY DEF Refuse, Respond, Write
<1>2. TypeOK'
  BY <1>1 DEF TypeOK, RunStates, session, life, world, history
<1>3. RunInv' /\ StateAgreement' /\ BodyInv' /\ EnvelopeInv' /\ SessionInv'
  BY <1>1 DEF RunInv, StateAgreement, BodyInv, EnvelopeInv, SessionInv, HasSender,
     HasRecipient, EnvelopeMatchesSession, Receiving, session, history
<1>4. LimitInv' /\ StoredUnderTLS' /\ StoredWithinLimits' /\ EndInv'
  BY <1>1 DEF LimitInv, StoredUnderTLS, StoredWithinLimits, EndInv, EndReported,
     session, history, life
<1> QED BY <1>2, <1>3, <1>4

LEMMA ReadCommandStep ==
    ASSUME Inv, ReadCommand
    PROVE  Inv'
<1> USE DEF Inv
<1>1. /\ run = "read"
      /\ UNCHANGED <<sm, st, host, tls, envelope, txns, life, closer, stored>>
      /\ UNCHANGED <<ctxDone, conn>>
  BY DEF ReadCommand, TakeLine
<1>2. ahead' \in Nat
  BY DEF ReadCommand, TakeLine, Readable, TypeOK
<1>3. inBody' \in BOOLEAN /\ (inBody' => inBody)
  BY DEF ReadCommand, TypeOK
<1>4. CASE /\ run' = "reply" /\ cmd' = cmd /\ errs' \in Nat /\ resp' \in Nat
           /\ ret' \in {"none", "limit", "timeout", "io", "other"}
  <2>1. TypeOK'
    BY <1>1, <1>2, <1>3, <1>4 DEF TypeOK, RunStates, life
  <2>2. RunInv' /\ StateAgreement' /\ BodyInv' /\ EnvelopeInv' /\ SessionInv'
    BY <1>1, <1>3, <1>4 DEF RunInv, StateAgreement, BodyInv, EnvelopeInv, SessionInv,
       HasSender, HasRecipient, EnvelopeMatchesSession, Receiving
  <2>3. LimitInv' /\ StoredUnderTLS' /\ StoredWithinLimits' /\ EndInv'
    BY <1>1, <1>4 DEF LimitInv, StoredUnderTLS, StoredWithinLimits, EndInv, EndReported, life
  <2> QED BY <2>1, <2>2, <2>3
<1>5. CASE \E line \in Lines :
             /\ IsCommandAllowed(sm, line.verb)
             /\ cmd' = [verb |-> line.verb, arg |-> line.arg]
             /\ run' = "exec" /\ UNCHANGED <<errs, resp, ret>>
  <2>1. PICK line \in Lines : IsCommandAllowed(sm, line.verb)
                              /\ cmd' = [verb |-> line.verb, arg |-> line.arg]
                              /\ run' = "exec" /\ UNCHANGED <<errs, resp, ret>>
    BY <1>5
  <2>2. cmd'.verb = line.verb /\ IsCommandAllowed(sm', cmd'.verb)
    BY <1>1, <2>1
  <2>3. TypeOK'
    BY <1>1, <1>2, <1>3, <2>1 DEF TypeOK, RunStates, Lines, life
  <2>4. RunInv' /\ StateAgreement' /\ BodyInv'
    BY <1>1, <1>3, <2>1, <2>2, WhereAllowed DEF RunInv, StateAgreement, BodyInv, Receiving
  <2>5. EnvelopeInv' /\ SessionInv'
    BY <1>1, <2>1, <2>2, WhereAllowed DEF EnvelopeInv, SessionInv, HasSender, HasRecipient,
       EnvelopeMatchesSession, Receiving
  <2>6. LimitInv' /\ StoredUnderTLS' /\ StoredWithinLimits' /\ EndInv'
    BY <1>1, <2>1 DEF LimitInv, StoredUnderTLS, StoredWithinLimits, EndInv, EndReported, life
  <2> QED BY <2>3, <2>4, <2>5, <2>6
<1>6. \/ /\ run' = "reply" /\ cmd' = cmd /\ errs' \in Nat /\ resp' \in Nat
         /\ ret' \in {"none", "limit", "timeout", "io", "other"}
      \/ \E line \in Lines :
             /\ IsCommandAllowed(sm, line.verb)
             /\ cmd' = [verb |-> line.verb, arg |-> line.arg]
             /\ run' = "exec" /\ UNCHANGED <<errs, resp, ret>>
  BY ConfigAssumption DEF ConfigAssumption, ReadCommand, Write, TypeOK
<1> QED BY <1>4, <1>5, <1>6

LEMMA ReadCommandFailsStep ==
    ASSUME Inv, ReadCommandFails
    PROVE  Inv'
<1> USE DEF Inv
<1>1. PICK e \in {"timeout", "io", "other"} :
        FailRead(e, CommandTimeout /\ EnforcesDeadlines) /\ Returned(e)
  BY DEF ReadCommandFails
<1>2. /\ run = "read" /\ sm' = sm
      /\ UNCHANGED <<st, host, tls, envelope, errs, txns, call, closer, history>>
  BY DEF ReadCommandFails
<1>3. /\ run' \in {"loop", "done"}
      /\ closed' \in BOOLEAN /\ reason' \in Reasons \cup {Nil}
      /\ run' = "done" => closed \/ reason' # Nil
      /\ run' # "done" => closed' = closed
  BY <1>1, Returns
<1>4. conn' \in {conn, "eof"} /\ UNCHANGED <<ctxDone, ahead>>
  BY <1>1 DEF FailRead
<1>5. TypeOK'
  BY <1>2, <1>3, <1>4 DEF TypeOK, RunStates, call, history
<1>6. RunInv' /\ StateAgreement' /\ BodyInv' /\ EnvelopeInv' /\ SessionInv'
  BY <1>2, <1>3 DEF RunInv, StateAgreement, BodyInv, EnvelopeInv, SessionInv, HasSender,
     HasRecipient, EnvelopeMatchesSession, Receiving, history
<1>7. LimitInv' /\ StoredUnderTLS' /\ StoredWithinLimits' /\ EndInv'
  BY <1>2, <1>3 DEF LimitInv, StoredUnderTLS, StoredWithinLimits, EndInv, EndReported, history
<1> QED BY <1>5, <1>6, <1>7

LEMMA ReplyStep ==
    ASSUME Inv, Reply
    PROVE  Inv'
<1> USE DEF Inv
<1>1. /\ run = "reply" /\ cmd' = NoCommand /\ resp' = 0 /\ ret' = "none"
      /\ UNCHANGED <<st, host, tls, envelope, txns, world, history>>
      /\ \E e : Returned(e)
  BY DEF Reply
<1>2. sm' \in {sm, "Aborted"} /\ closer' \in {closer, "connclose"} /\ errs' \in Nat
  BY SmMoves, AbortedStays DEF Reply, ErrorsAfter, TypeOK
<1>3. /\ run' \in {"loop", "done"}
      /\ closed' \in BOOLEAN /\ reason' \in Reasons \cup {Nil}
      /\ run' = "done" => closed \/ reason' # Nil
      /\ run' # "done" => closed' = closed
  BY <1>1, Returns
<1>4. TypeOK'
  BY <1>1, <1>2, <1>3 DEF TypeOK, RunStates, States, NoCommand, world, history
<1>5. RunInv' /\ StateAgreement' /\ BodyInv'
  BY <1>1, <1>2, <1>3 DEF RunInv, StateAgreement, IsTerminal, BodyInv, Receiving, history
<1>6. EnvelopeInv' /\ SessionInv'
  BY <1>1, <1>2, <1>3 DEF EnvelopeInv, SessionInv, HasSender, HasRecipient,
     EnvelopeMatchesSession, Receiving
<1>7. LimitInv' /\ StoredUnderTLS' /\ StoredWithinLimits' /\ EndInv'
  BY <1>1, <1>2, <1>3 DEF LimitInv, StoredUnderTLS, StoredWithinLimits, EndInv, EndReported,
     history
<1> QED BY <1>4, <1>5, <1>6, <1>7

LEMMA HandleGreetingStep ==
    ASSUME Inv, HandleGreeting
    PROVE  Inv'
<1> USE DEF Inv
<1>1. run = "exec" /\ cmd.verb \in {"HELO", "EHLO"} /\ UNCHANGED <<life, world>>
  BY DEF HandleGreeting, Executing
<1>2. CASE Refuse(501)
  BY <1>1, <1>2, RefuseStep
<1>3. CASE /\ host' \in Hosts /\ SmMove(TransitionForCommand(sm, cmd.verb))
           /\ st' = "Identified" /\ envelope' = Nil /\ Respond(250)
           /\ UNCHANGED <<tls, errs, txns, history>>
  <2>1. sm \in {"Greeted", "Identified", "Aborted"} /\ ~inBody
    BY <1>1, WhereAllowed DEF RunInv, BodyInv
  <2>2. sm' \in {"Identified", "Aborted"} /\ closer' \in {closer, "connclose"}
    BY <1>1, <1>3, <2>1, SmMoves, Moves, AbortedStays
  <2>3. run' = "reply" /\ resp' = 250 /\ ret' = "handled" /\ cmd' = cmd
    BY <1>3 DEF Respond, Write
  <2>4. TypeOK'
    BY <1>1, <1>3, <2>2, <2>3 DEF TypeOK, RunStates, States, life, world, history
  <2>5. RunInv' /\ StateAgreement' /\ BodyInv'
    BY <1>3, <2>1, <2>2, <2>3 DEF RunInv, StateAgreement, IsTerminal, BodyInv, Receiving,
       history
  <2>6. EnvelopeInv' /\ SessionInv' /\ LimitInv'
    BY <1>3, <2>2, <2>3, SentinelAssumption DEF SentinelAssumption, EnvelopeInv, SessionInv,
       EnvelopeMatchesSession, LimitInv, Receiving
  <2>7. StoredUnderTLS' /\ StoredWithinLimits' /\ EndInv'
    BY <1>1, <1>3, <2>2, <2>3 DEF StoredUnderTLS, StoredWithinLimits, EndInv, EndReported,
       history, life
  <2> QED BY <2>4, <2>5, <2>6, <2>7
<1> QED BY <1>2, <1>3 DEF HandleGreeting

LEMMA HandleMAILStep ==
    ASSUME Inv, HandleMAIL
    PROVE  Inv'
<1> USE DEF Inv
<1>1. /\ run = "exec" /\ cmd.verb = "MAIL" /\ UNCHANGED <<life, world>>
      /\ sm \in {"Identified", "Aborted"} /\ ~inBody /\ host # NoHost
      /\ st # "StartTLS"
  BY WhereAllowed DEF HandleMAIL, Executing, RunInv, BodyInv, SessionInv
<1>2. CASE \/ Refuse(530) \/ Refuse(421) \/ Refuse(501) \/ Refuse(552)
           \/ \E code \in PolicyCodes : Refuse(code)
  BY <1>1, <1>2, RefuseStep, ConfigAssumption DEF ConfigAssumption
<1>3. CASE /\ ~NeedsTLS /\ ~TooManyTransactions
           /\ \/ /\ envelope' = NewEnvelope(NoSender)
                 /\ Respond(554)
                 /\ UNCHANGED <<sm, st, host, tls, errs, txns, closer, history>>
              \/ /\ \E from \in Senders : envelope' = NewEnvelope(from)
                 /\ SmMove(TransitionForCommand(sm, "MAIL"))
                 /\ st' = "MailFrom"
                 /\ Respond(250)
                 /\ UNCHANGED <<host, tls, errs, txns, history>>
  <2>1. /\ run' = "reply" /\ resp' \in Nat /\ ret' = "handled" /\ cmd' = cmd
        /\ UNCHANGED <<host, tls, errs, txns, history>>
    BY <1>3 DEF Respond, Write
  <2>2. /\ closer' \in {closer, "connclose"}
        /\ \/ sm' = sm /\ st' = st
           \/ sm' \in {"MailFrom", "Aborted"} /\ st' = "MailFrom"
    BY <1>1, <1>3, SmMoves, Moves, AbortedStays
  <2>3. PICK from \in Senders \cup {NoSender} :
          /\ envelope' = [from |-> from, rcpts |-> <<>>, size |-> 0, tls |-> tls, host |-> host]
          /\ sm' = "MailFrom" => from # NoSender
    BY <1>1, <1>3, SentinelAssumption DEF SentinelAssumption, NewEnvelope
  <2>4. envelope' \in Envelopes /\ envelope' # Nil
    <3>1. <<>> \in Seq(Recipients)
      OBVIOUS
    <3>2. tls \in BOOLEAN /\ host \in Hosts \cup {NoHost}
      BY DEF TypeOK
    <3>3. envelope' \in Envelopes
      BY <2>3, <3>1, <3>2 DEF Envelopes
    <3> QED BY <3>3, SentinelAssumption DEF SentinelAssumption
  <2>5. TypeOK'
    BY <1>1, <2>1, <2>2, <2>4 DEF TypeOK, RunStates, States, life, world, history
  <2>6. RunInv' /\ StateAgreement' /\ BodyInv'
    BY <1>1, <2>1, <2>2 DEF RunInv, StateAgreement, IsTerminal, BodyInv, Receiving, history
  <2>7. EnvelopeInv'
    BY <1>1, <2>1, <2>2, <2>3, <2>4 DEF EnvelopeInv, HasSender, Receiving
  <2>8. SessionInv'
    BY <1>1, <2>1, <2>2, <2>3 DEF SessionInv, EnvelopeMatchesSession
  <2>9. LimitInv'
    BY <1>3, <2>1, <2>3, ConfigAssumption DEF ConfigAssumption, LimitInv, NeedsTLS,
       TooManyTransactions, TypeOK
  <2>10. StoredUnderTLS' /\ StoredWithinLimits' /\ EndInv'
    BY <1>1, <2>1, <2>2 DEF StoredUnderTLS, StoredWithinLimits, EndInv, EndReported,
       history, life
  <2> QED BY <2>5, <2>6, <2>7, <2>8, <2>9, <2>10
<1>4. \/ Refuse(530) \/ Refuse(421) \/ Refuse(501) \/ Refuse(552)
      \/ \E code \in PolicyCodes : Refuse(code)
      \/ /\ ~NeedsTLS /\ ~TooManyTransactions
         /\ \/ /\ envelope' = NewEnvelope(NoSender)
               /\ Respond(554)
               /\ UNCHANGED <<sm, st, host, tls, errs, txns, closer, history>>
            \/ /\ \E from \in Senders : envelope' = NewEnvelope(from)
               /\ SmMove(TransitionForCommand(sm, "MAIL"))
               /\ st' = "MailFrom"
               /\ Respond(250)
               /\ UNCHANGED <<host, tls, errs, txns, history>>
  <2>1. CASE NeedsTLS \/ TooManyTransactions \/ cmd.arg = "bad"
    BY <2>1 DEF HandleMAIL
  <2>2. CASE ~NeedsTLS /\ ~TooManyTransactions /\ cmd.arg # "bad"
    <3>1. PICK n \in DeclaredSizes :
            \/ Refuse(552)
            \/ \E code \in PolicyCodes : Refuse(code)
            \/ /\ envelope' = NewEnvelope(NoSender)
               /\ Respond(554)
               /\ UNCHANGED <<sm, st, host, tls, errs, txns, closer, history>>
            \/ /\ \E from \in Senders : envelope' = NewEnvelope(from)
               /\ SmMove(TransitionForCommand(sm, "MAIL"))
               /\ st' = "MailFrom"
               /\ Respond(250)
               /\ UNCHANGED <<host, tls, errs, txns, history>>
      BY <2>2, Zenon DEF HandleMAIL
    <3> QED BY <2>2, <3>1, Zenon
  <2> QED BY <2>1, <2>2
<1> QED BY <1>2, <1>3, <1>4

LEMMA HandleRCPTStep ==
    ASSUME Inv, HandleRCPT
    PROVE  Inv'
<1> USE DEF Inv
<1>1. /\ run = "exec" /\ cmd.verb = "RCPT" /\ UNCHANGED <<life, world>>
      /\ sm \in {"MailFrom", "RcptTo", "Aborted"} /\ ~inBody /\ st # "StartTLS"
      /\ HasSender
  BY WhereAllowed DEF HandleRCPT, Executing, RunInv, BodyInv, EnvelopeInv
<1>2. CASE \E code \in {501, 452, 554} \cup PolicyCodes : Refuse(code)
  BY <1>1, <1>2, RefuseStep, ConfigAssumption DEF ConfigAssumption
<1>3. CASE /\ ~TooManyRecipients
           /\ \E r \in Recipients :
                envelope' = [envelope EXCEPT !.rcpts = Append(envelope.rcpts, r)]
           /\ SmMove(TransitionForCommand(sm, "RCPT"))
           /\ st' = "RcptTo" /\ Respond(250)
           /\ UNCHANGED <<host, tls, errs, txns, history>>
  <2>1. run' = "reply" /\ resp' = 250 /\ ret' = "handled" /\ cmd' = cmd
    BY <1>3 DEF Respond, Write
  <2>2. sm' \in {"RcptTo", "Aborted"} /\ closer' \in {closer, "connclose"}
    BY <1>1, <1>3, SmMoves, Moves, AbortedStays
  <2>3. envelope \in Envelopes
    BY <1>1 DEF TypeOK, HasSender
  <2>4. PICK r \in Recipients :
          envelope' = [envelope EXCEPT !.rcpts = Append(envelope.rcpts, r)]
    BY <1>3
  <2>5. /\ Append(envelope.rcpts, r) \in Seq(Recipients)
        /\ Append(envelope.rcpts, r) # <<>>
        /\ Len(Append(envelope.rcpts, r)) = Len(envelope.rcpts) + 1
        /\ Len(envelope.rcpts) \in Nat
    BY <2>3 DEF Envelopes
  <2>6. /\ envelope' \in Envelopes /\ envelope' # Nil
        /\ envelope'.from = envelope.from /\ envelope'.rcpts = Append(envelope.rcpts, r)
        /\ envelope'.size = envelope.size /\ envelope'.tls = envelope.tls
        /\ envelope'.host = envelope.host
    BY <2>3, <2>4, <2>5, SentinelAssumption DEF SentinelAssumption, Envelopes
  <2>7. TypeOK'
    BY <1>1, <1>3, <2>1, <2>2, <2>6 DEF TypeOK, RunStates, States, life, world, history
  <2>8. RunInv' /\ StateAgreement' /\ BodyInv'
    BY <1>1, <1>3, <2>1, <2>2 DEF RunInv, StateAgreement, IsTerminal, BodyInv, Receiving,
       history
  <2>9. EnvelopeInv'
    BY <1>1, <2>1, <2>2, <2>5, <2>6 DEF EnvelopeInv, HasSender, HasRecipient, Receiving
  <2>10. SessionInv'
    BY <1>1, <1>3, <2>1, <2>6 DEF SessionInv, EnvelopeMatchesSession, HasSender
  <2>11. LimitInv'
    BY <1>1, <1>3, <2>5, <2>6, ConfigAssumption DEF ConfigAssumption, LimitInv, HasSender,
       TooManyRecipients
  <2>12. StoredUnderTLS' /\ StoredWithinLimits' /\ EndInv'
    BY <1>1, <1>3, <2>1, <2>2 DEF StoredUnderTLS, StoredWithinLimits, EndInv, EndReported,
       history, life
  <2> QED BY <2>7, <2>8, <2>9, <2>10, <2>11, <2>12
<1> QED BY <1>2, <1>3 DEF HandleRCPT

\* RSET leaves a session open for a new transaction, or aborted.
LEMMA HandleRSETStep ==
    ASSUME Inv, HandleRSET
    PROVE  Inv'
<1> USE DEF Inv
<1>1. /\ run = "exec" /\ cmd.verb = "RSET" /\ UNCHANGED <<life, world>> /\ ~inBody
      /\ sm \in {"Greeted", "Identified", "MailFrom", "RcptTo", "Aborted"}
  BY WhereAllowed DEF HandleRSET, Executing, RunInv, BodyInv
<1>2. /\ envelope' = Nil /\ SmMove(Reset(sm))
      /\ st' = IF sm' \in {"Greeted", "Identified"} THEN sm' ELSE "Identified"
      /\ run' = "reply" /\ resp' = 250 /\ ret' = "handled" /\ cmd' = cmd
      /\ UNCHANGED <<host, tls, errs, txns, history>>
  BY DEF HandleRSET, Respond, Write
<1>3. /\ sm' \in {"Greeted", "Identified", "Aborted"} /\ closer' \in {closer, "connclose"}
      /\ sm' = "Identified" => sm \in {"Identified", "MailFrom", "RcptTo"}
  BY <1>1, <1>2, SmMoves, Moves, AbortedStays
<1>4. st' \in {"Greeted", "Identified"} /\ (st' = sm' \/ sm' = "Aborted")
  BY <1>2, <1>3
<1>5. TypeOK'
  BY <1>1, <1>2, <1>3, <1>4 DEF TypeOK, RunStates, States, life, world, history
<1>6. RunInv' /\ StateAgreement' /\ BodyInv'
  BY <1>1, <1>2, <1>3, <1>4 DEF RunInv, StateAgreement, IsTerminal, BodyInv, Receiving,
     history
<1>7. EnvelopeInv' /\ SessionInv' /\ LimitInv'
  BY <1>2, <1>3 DEF EnvelopeInv, SessionInv, EnvelopeMatchesSession, LimitInv, Receiving
<1>8. StoredUnderTLS' /\ StoredWithinLimits' /\ EndInv'
  BY <1>1, <1>2, <1>3 DEF StoredUnderTLS, StoredWithinLimits, EndInv, EndReported,
     history, life
<1> QED BY <1>5, <1>6, <1>7, <1>8

\* QUIT terminates, or finds the session aborted; the envelope is left as it is.
LEMMA HandleQUITStep ==
    ASSUME Inv, HandleQUIT
    PROVE  Inv'
<1> USE DEF Inv
<1>1. /\ run = "exec" /\ cmd.verb = "QUIT" /\ UNCHANGED <<life, world>> /\ ~inBody
      /\ sm \in {"Greeted", "Identified", "MailFrom", "RcptTo", "Aborted"}
      /\ st # "StartTLS"
  BY WhereAllowed DEF HandleQUIT, Executing, RunInv, BodyInv
<1>2. /\ SmMove(Terminate(TransitionForCommand(sm, "QUIT")))
      /\ run' = "reply" /\ resp' = 221 /\ ret' = "handled" /\ cmd' = cmd
      /\ UNCHANGED <<st, host, tls, envelope, errs, txns, history>>
  BY DEF HandleQUIT, Respond, Write
<1>3. sm' \in {"Terminated", "Aborted"} /\ closer' \in {closer, "connclose"}
  BY <1>1, <1>2, SmMoves, Moves, AbortedStays
<1>4. TypeOK'
  BY <1>1, <1>2, <1>3 DEF TypeOK, RunStates, States, life, world, history
<1>5. RunInv' /\ StateAgreement' /\ BodyInv'
  BY <1>1, <1>2, <1>3 DEF RunInv, StateAgreement, IsTerminal, BodyInv, Receiving, history
<1>6. EnvelopeInv' /\ SessionInv' /\ LimitInv'
  BY <1>2, <1>3 DEF EnvelopeInv, SessionInv, EnvelopeMatchesSession, LimitInv, Receiving
<1>7. StoredUnderTLS' /\ StoredWithinLimits' /\ EndInv'
  BY <1>1, <1>2, <1>3 DEF StoredUnderTLS, StoredWithinLimits, EndInv, EndReported,
     history, life
<1> QED BY <1>4, <1>5, <1>6, <1>7

\* The handlers that only answer.
LEMMA AnswerStep ==
    ASSUME Inv, HandleVRFY \/ HandleHELP \/ HandleOther
    PROVE  Inv'
<1>1. run = "exec" /\ UNCHANGED <<life, world>>
  BY DEF HandleVRFY, HandleHELP, HandleOther, Executing
<1>2. Refuse(250) \/ Refuse(252) \/ Refuse(214) \/ Refuse(502)
  BY DEF HandleVRFY, HandleHELP, HandleOther
<1> QED BY <1>1, <1>2, RefuseStep

LEMMA HandleSTARTTLSStep ==
    ASSUME Inv, HandleSTARTTLS
    PROVE  Inv'
<1> USE DEF Inv
<1>1. /\ run = "exec" /\ cmd.verb = "STARTTLS" /\ UNCHANGED <<life, world>> /\ ~inBody
      /\ sm \in {"Identified", "Aborted"}
  BY WhereAllowed DEF HandleSTARTTLS, Executing, RunInv, BodyInv
<1>2. CASE Refuse(502) \/ Refuse(503) \/ Refuse(454)
  BY <1>1, <1>2, RefuseStep
<1>3. CASE /\ SmMove(TransitionForCommand(sm, "STARTTLS")) /\ st' = "StartTLS"
           /\ Respond(220)
           /\ UNCHANGED <<host, tls, envelope, errs, txns, history>>
  <2>1. run' = "reply" /\ resp' = 220 /\ ret' = "handled" /\ cmd' = cmd
    BY <1>3 DEF Respond, Write
  <2>2. /\ sm' \in {"StartTLS", "Aborted"} /\ closer' \in {closer, "connclose"}
        /\ sm' = "StartTLS" => sm = "Identified"
    BY <1>1, <1>3, SmMoves, Moves, AbortedStays
  <2>3. TypeOK'
    BY <1>1, <1>3, <2>1, <2>2 DEF TypeOK, RunStates, States, life, world, history
  <2>4. RunInv' /\ StateAgreement' /\ BodyInv'
    BY <1>1, <1>3, <2>1, <2>2 DEF RunInv, StateAgreement, IsTerminal, BodyInv, Receiving,
       history
  <2>5. EnvelopeInv' /\ SessionInv' /\ LimitInv'
    BY <1>3, <2>1, <2>2 DEF EnvelopeInv, SessionInv, EnvelopeMatchesSession, LimitInv,
       Receiving
  <2>6. StoredUnderTLS' /\ StoredWithinLimits' /\ EndInv'
    BY <1>1, <1>3, <2>1, <2>2 DEF StoredUnderTLS, StoredWithinLimits, EndInv, EndReported,
       history, life
  <2> QED BY <2>3, <2>4, <2>5, <2>6
<1> QED BY <1>2, <1>3 DEF HandleSTARTTLS

\* The handshake fails and Run disconnects, or the session starts over.
LEMMA PerformTLSUpgradeStep ==
    ASSUME Inv, PerformTLSUpgrade
    PROVE  Inv'
<1> USE DEF Inv
<1>1. /\ run = "tls" /\ UNCHANGED <<call, world, history>>
      /\ sm \in {"StartTLS", "Aborted"} /\ st = "StartTLS"
  BY DEF PerformTLSUpgrade, RunInv
<1>2. CASE handleDisconnect("TLSFailure") /\ UNCHANGED <<session, closer>>
  <2>1. /\ run' = "done" /\ closed' \in BOOLEAN /\ reason' \in Reasons \cup {Nil}
        /\ closed \/ reason' # Nil
    BY <1>2, Disconnects DEF Reasons
  <2>2. TypeOK'
    BY <1>1, <1>2, <2>1 DEF TypeOK, RunStates, session, call, world, history
  <2>3. RunInv' /\ StateAgreement' /\ BodyInv' /\ EndInv'
    BY <1>1, <1>2, <2>1 DEF RunInv, StateAgreement, BodyInv, EndInv, EndReported,
       Receiving, session, history
  <2>4. EnvelopeInv' /\ SessionInv'
    BY <1>1, <1>2, <2>1 DEF EnvelopeInv, SessionInv, EnvelopeMatchesSession, Receiving,
       session
  <2>5. LimitInv' /\ StoredUnderTLS' /\ StoredWithinLimits'
    BY <1>1, <1>2 DEF LimitInv, StoredUnderTLS, StoredWithinLimits, session, history
  <2> QED BY <2>2, <2>3, <2>4, <2>5
<1>3. CASE /\ tls' = TRUE /\ SmMove(TLSComplete(sm)) /\ st' = "Greeted"
           /\ envelope' = Nil /\ host' = NoHost /\ run' = "loop"
           /\ UNCHANGED <<errs, txns, life>>
  <2>1. /\ sm' \in {"Greeted", "Aborted"} /\ closer' \in {closer, "connclose"}
        /\ sm' = "Greeted" => sm = "StartTLS"
    BY <1>1, <1>3, SmMoves, Moves, AbortedStays
  <2>2. TypeOK'
    BY <1>1, <1>3, <2>1 DEF TypeOK, RunStates, States, call, life, world, history
  <2>3. RunInv' /\ StateAgreement' /\ BodyInv'
    BY <1>1, <1>3, <2>1 DEF RunInv, StateAgreement, IsTerminal, BodyInv, Receiving, history
  <2>4. EnvelopeInv' /\ SessionInv' /\ LimitInv'
    BY <1>3, <2>1 DEF EnvelopeInv, SessionInv, EnvelopeMatchesSession, LimitInv, Receiving
  <2>5. StoredUnderTLS' /\ StoredWithinLimits' /\ EndInv'
    BY <1>1, <1>3, <2>1 DEF StoredUnderTLS, StoredWithinLimits, EndInv, EndReported,
       history, life
  <2> QED BY <2>2, <2>3, <2>4, <2>5
<1> QED BY <1>2, <1>3 DEF PerformTLSUpgrade

LEMMA HandleDATAStep ==
    ASSUME Inv, HandleDATA
    PROVE  Inv'
<1> USE DEF Inv
<1>1. /\ run = "exec" /\ cmd.verb = "DATA" /\ UNCHANGED <<life, world>> /\ ~inBody
      /\ sm \in {"RcptTo", "Aborted"} /\ HasRecipient
  BY WhereAllowed DEF HandleDATA, Executing, RunInv, BodyInv, EnvelopeInv
<1>2. /\ SmMove(TransitionForCommand(sm, "DATA")) /\ st' = "Data" /\ run' = "data354"
      /\ UNCHANGED <<host, tls, envelope, errs, txns, call, history>>
  BY DEF HandleDATA
<1>3. /\ sm' \in {"Data", "Aborted"} /\ closer' \in {closer, "connclose"}
      /\ sm' = "Data" => sm = "RcptTo"
  BY <1>1, <1>2, SmMoves, Moves, AbortedStays
<1>4. TypeOK'
  BY <1>1, <1>2, <1>3 DEF TypeOK, RunStates, States, call, life, world, history
<1>5. RunInv' /\ StateAgreement' /\ BodyInv'
  BY <1>1, <1>2, <1>3 DEF RunInv, StateAgreement, IsTerminal, BodyInv, Receiving, history
<1>6. EnvelopeInv' /\ SessionInv' /\ LimitInv'
  BY <1>1, <1>2, <1>3 DEF EnvelopeInv, HasSender, HasRecipient, SessionInv,
     EnvelopeMatchesSession, LimitInv, Receiving
<1>7. StoredUnderTLS' /\ StoredWithinLimits' /\ EndInv'
  BY <1>1, <1>2, <1>3 DEF StoredUnderTLS, StoredWithinLimits, EndInv, EndReported,
     history, life
<1> QED BY <1>4, <1>5, <1>6, <1>7

\* A reception that fails: the machine stays in Data, where the ignored error of
\* sm.Reset leaves it, and the copy says Identified.
LEMMA FailDataStep ==
    ASSUME Inv, Receiving, NEW code \in Nat, FailData(code),
           inBody' \in BOOLEAN, inBody' => run # "store", inBody => inBody',
           conn' \in {"open", "stalled", "eof", "broken", "closed"}, ahead' \in Nat,
           UNCHANGED <<host, tls, errs, txns, life, ctxDone, stored>>
    PROVE  Inv'
<1> USE DEF Inv
<1>1. sm \in {"Data", "Aborted"}
  BY DEF RunInv
<1>2. /\ SmMove(Reset(sm)) /\ st' = "Identified" /\ envelope' = Nil
      /\ run' = "reply" /\ resp' = code /\ ret' = "handled" /\ cmd' = cmd
  BY DEF FailData, Respond, Write
<1>3. /\ sm' \in {"Data", "Aborted"} /\ closer' \in {closer, "connclose"}
      /\ sm' = "Data" => sm = "Data"
  BY <1>1, <1>2, SmMoves, Moves, AbortedStays
<1>4. TypeOK'
  BY <1>2, <1>3 DEF TypeOK, RunStates, States, life
<1>5. RunInv' /\ StateAgreement' /\ BodyInv'
  BY <1>2, <1>3 DEF RunInv, StateAgreement, IsTerminal, BodyInv, Receiving
<1>6. EnvelopeInv' /\ SessionInv' /\ LimitInv'
  BY <1>2, <1>3 DEF EnvelopeInv, SessionInv, EnvelopeMatchesSession, LimitInv, Receiving
<1>7. StoredUnderTLS' /\ StoredWithinLimits' /\ EndInv'
  BY <1>2, <1>3 DEF StoredUnderTLS, StoredWithinLimits, EndInv, EndReported, Receiving, life
<1> QED BY <1>4, <1>5, <1>6, <1>7

\* A reception that goes on, with the envelope as it is.
LEMMA ReceiveOnStep ==
    ASSUME Inv, Receiving, run' \in {"stream", "streamread", "store"},
           UNCHANGED <<sm, st, envelope, call, closer, host, tls, errs, txns, life,
                       ctxDone, conn, stored>>,
           ahead' \in Nat, inBody' \in BOOLEAN, inBody' => run' # "store"
    PROVE  Inv'
<1> USE DEF Inv
<1>1. TypeOK'
  BY DEF TypeOK, RunStates, call, life
<1>2. RunInv' /\ StateAgreement' /\ BodyInv'
  BY DEF RunInv, StateAgreement, BodyInv, Receiving
<1>3. EnvelopeInv' /\ SessionInv' /\ LimitInv'
  BY DEF EnvelopeInv, HasSender, HasRecipient, SessionInv, EnvelopeMatchesSession,
     LimitInv, Receiving
<1>4. StoredUnderTLS' /\ StoredWithinLimits' /\ EndInv'
  BY DEF StoredUnderTLS, StoredWithinLimits, EndInv, EndReported, Receiving, life
<1> QED BY <1>1, <1>2, <1>3, <1>4

LEMMA SendStartMailInputStep ==
    ASSUME Inv, SendStartMailInput
    PROVE  Inv'
<1> USE DEF Inv
<1>1. /\ run = "data354" /\ Receiving /\ sm \in {"Data", "Aborted"}
      /\ UNCHANGED <<host, tls, errs, txns, life, world, stored>>
  BY DEF SendStartMailInput, Receiving, RunInv
<1>2. CASE SmMove(Abort(sm)) /\ Respond(0) /\ UNCHANGED <<st, envelope, inBody>>
  <2>1. run' = "reply" /\ resp' = 0 /\ ret' = "handled" /\ cmd' = cmd
    BY <1>2 DEF Respond, Write
  <2>2. sm' = "Aborted" /\ closer' \in {closer, "connclose"}
    BY <1>1, <1>2, SmMoves, AbortedStays
  <2>3. TypeOK'
    BY <1>1, <1>2, <2>1, <2>2 DEF TypeOK, RunStates, States, life, world
  <2>4. RunInv' /\ StateAgreement' /\ BodyInv'
    BY <1>1, <1>2, <2>1, <2>2 DEF RunInv, StateAgreement, IsTerminal, BodyInv, Receiving
  <2>5. EnvelopeInv' /\ SessionInv' /\ LimitInv'
    BY <1>1, <1>2, <2>1, <2>2 DEF EnvelopeInv, SessionInv, EnvelopeMatchesSession, LimitInv,
       Receiving
  <2>6. StoredUnderTLS' /\ StoredWithinLimits' /\ EndInv'
    BY <1>1, <2>1, <2>2 DEF StoredUnderTLS, StoredWithinLimits, EndInv, EndReported, life
  <2> QED BY <2>3, <2>4, <2>5, <2>6
<1>3. CASE inBody' = TRUE /\ FailData(451)
  BY <1>1, <1>3, FailDataStep DEF TypeOK, world
<1>4. CASE inBody' = TRUE /\ run' = "stream" /\ UNCHANGED <<sm, st, envelope, call, closer>>
  BY <1>1, <1>4, ReceiveOnStep DEF TypeOK, world
<1> QED BY <1>2, <1>3, <1>4 DEF SendStartMailInput

LEMMA StreamCheckStep ==
    ASSUME Inv, StreamCheck
    PROVE  Inv'
<1> USE DEF Inv
<1>1. /\ run = "stream" /\ Receiving
      /\ UNCHANGED <<host, tls, errs, txns, life, world, history>>
  BY DEF StreamCheck, Receiving
<1>2. CASE FailData(451)
  BY <1>1, <1>2, FailDataStep DEF TypeOK, world, history
<1>3. CASE run' = "streamread" /\ UNCHANGED <<sm, st, envelope, call, closer>>
  BY <1>1, <1>3, ReceiveOnStep DEF TypeOK, world, history
<1> QED BY <1>2, <1>3 DEF StreamCheck

LEMMA StreamReadFailsStep ==
    ASSUME Inv, StreamReadFails
    PROVE  Inv'
<1> USE DEF Inv
<1>1. /\ run = "streamread" /\ Receiving /\ FailData(451)
      /\ UNCHANGED <<host, tls, errs, txns, life, history>>
  BY DEF StreamReadFails, Receiving
<1>2. conn' \in {conn, "eof"} /\ UNCHANGED <<ctxDone, ahead>>
  BY DEF StreamReadFails, FailRead
<1> QED BY <1>1, <1>2, FailDataStep DEF TypeOK, history

\* A body line is written only when the message stays within its limit.
LEMMA StreamLineStep ==
    ASSUME Inv, StreamLine
    PROVE  Inv'
<1> USE DEF Inv
<1>1. /\ run = "streamread" /\ Receiving /\ HasRecipient
      /\ UNCHANGED <<host, tls, errs, txns, life, stored, ctxDone, conn>>
  BY DEF StreamLine, Receiving, TakeLine, EnvelopeInv
<1>2. ahead' \in Nat
  BY DEF StreamLine, TakeLine, Readable, TypeOK
<1>3. CASE run' = "store" /\ inBody' = FALSE /\ UNCHANGED <<sm, st, envelope, call, closer>>
  BY <1>1, <1>2, <1>3, ReceiveOnStep
<1>4. ASSUME NEW n \in Nat, NEW added \in Nat, StreamBodyLine(n, added)
      PROVE  Inv'
  <2>1. CASE UNCHANGED inBody /\ \E code \in {500, 552, 451} : FailData(code)
    BY <1>1, <1>2, <2>1, FailDataStep DEF TypeOK
  <2>2. CASE /\ ~MessageTooLarge(added)
             /\ envelope' = [envelope EXCEPT !.size = envelope.size + added]
             /\ run' = "stream"
             /\ UNCHANGED <<sm, st, call, closer, inBody>>
    <3>1. envelope \in Envelopes
      BY <1>1 DEF TypeOK, HasRecipient, HasSender
    <3>2. /\ envelope' \in Envelopes /\ envelope' # Nil
          /\ envelope'.from = envelope.from /\ envelope'.rcpts = envelope.rcpts
          /\ envelope'.size = envelope.size + added /\ envelope'.tls = envelope.tls
          /\ envelope'.host = envelope.host
      BY <3>1, <2>2, SentinelAssumption DEF SentinelAssumption, Envelopes
    <3>3. TypeOK'
      BY <1>1, <1>2, <2>2, <3>2 DEF TypeOK, RunStates, call, life
    <3>4. RunInv' /\ StateAgreement' /\ BodyInv'
      BY <1>1, <2>2 DEF RunInv, StateAgreement, BodyInv, Receiving
    <3>5. EnvelopeInv' /\ SessionInv'
      BY <1>1, <2>2, <3>2 DEF EnvelopeInv, HasSender, HasRecipient, SessionInv,
         EnvelopeMatchesSession, Receiving
    <3>6. LimitInv'
      BY <1>1, <3>1, <2>2, <3>2, ConfigAssumption DEF ConfigAssumption, LimitInv, HasSender,
         HasRecipient, MessageTooLarge, Envelopes
    <3>7. StoredUnderTLS' /\ StoredWithinLimits' /\ EndInv'
      BY <1>1, <2>2 DEF StoredUnderTLS, StoredWithinLimits, EndInv, EndReported, life
    <3> QED BY <3>3, <3>4, <3>5, <3>6, <3>7
  <2> QED BY <1>4, <2>1, <2>2 DEF StreamBodyLine
<1>5. \A n \in LineLengths : n \in Nat /\ n - 1 \in Nat
  BY ClientAssumption DEF ClientAssumption
<1> QED BY <1>3, <1>4, <1>5 DEF StreamLine

\* The message in progress becomes the stored one, and with it all that is known
\* of its limits.
LEMMA FinishMessageStep ==
    ASSUME Inv, FinishMessage
    PROVE  Inv'
<1> USE DEF Inv
<1>1. /\ run = "store" /\ Receiving /\ HasRecipient /\ ~inBody
      /\ sm \in {"Data", "Aborted"}
      /\ UNCHANGED <<host, tls, errs, life, world, inBody>>
  BY DEF FinishMessage, Receiving, EnvelopeInv, BodyInv, RunInv
<1>2. CASE FailData(451) /\ UNCHANGED <<txns, stored>>
  BY <1>1, <1>2, FailDataStep DEF TypeOK, world
<1>3. CASE /\ stored' = IF HasStorage THEN envelope ELSE stored
           /\ txns' = txns + 1 /\ SmMove(Reset(DataComplete(sm)))
           /\ st' = "Identified" /\ envelope' = Nil /\ Respond(250)
  <2>1. run' = "reply" /\ resp' = 250 /\ ret' = "handled" /\ cmd' = cmd
    BY <1>3 DEF Respond, Write
  <2>2. /\ sm' \in {"Identified", "Aborted"} /\ closer' \in {closer, "connclose"}
        /\ sm' = "Identified" => sm = "Data"
    BY <1>1, <1>3, SmMoves, Moves, AbortedStays
  <2>3. stored' \in {envelope, stored} /\ txns' \in Nat
    BY <1>3 DEF TypeOK
  <2>4. TypeOK'
    BY <1>1, <1>3, <2>1, <2>2, <2>3 DEF TypeOK, RunStates, States, life, world
  <2>5. RunInv' /\ StateAgreement' /\ BodyInv'
    BY <1>1, <1>3, <2>1, <2>2 DEF RunInv, StateAgreement, IsTerminal, BodyInv, Receiving
  <2>6. EnvelopeInv' /\ SessionInv' /\ LimitInv'
    BY <1>1, <1>3, <2>1, <2>2 DEF EnvelopeInv, SessionInv, EnvelopeMatchesSession, LimitInv,
       Receiving
  <2>7. StoredUnderTLS' /\ StoredWithinLimits'
    BY <1>1, <1>3, <2>3, ConfigAssumption DEF ConfigAssumption, StoredUnderTLS,
       StoredWithinLimits, LimitInv, HasRecipient, HasSender, TypeOK
  <2>8. EndInv'
    BY <1>1, <2>1, <2>2 DEF EndInv, EndReported, life
  <2> QED BY <2>4, <2>5, <2>6, <2>7, <2>8
<1> QED BY <1>2, <1>3 DEF FinishMessage

-----------------------------------------------------------------------------
(* The theorems.                                                           *)

LEMMA InitInv == Init => Inv
<1> SUFFICES ASSUME Init PROVE Inv
  OBVIOUS
<1>1. TypeOK
  BY DEF Init, TypeOK, RunStates, States, NoCommand, Unknown
<1>2. RunInv /\ StateAgreement /\ BodyInv /\ EnvelopeInv
  BY DEF Init, RunInv, StateAgreement, BodyInv, EnvelopeInv, Receiving
<1>3. SessionInv /\ LimitInv /\ StoredUnderTLS /\ EndInv
  BY DEF Init, SessionInv, EnvelopeMatchesSession, LimitInv, StoredUnderTLS, EndInv,
     EndReported
<1>4. StoredWithinLimits
  BY ConfigAssumption DEF ConfigAssumption, Init, StoredWithinLimits
<1> QED BY <1>1, <1>2, <1>3, <1>4 DEF Inv

LEMMA StutterInv ==
    ASSUME Inv, UNCHANGED vars
    PROVE  Inv'
<1> USE DEF Inv, vars, session, call, life, world, history
<1>1. TypeOK'
  BY DEF TypeOK
<1>2. RunInv' /\ StateAgreement' /\ BodyInv' /\ EnvelopeInv' /\ SessionInv'
  BY DEF RunInv, StateAgreement, BodyInv, EnvelopeInv, SessionInv, HasSender, HasRecipient,
     EnvelopeMatchesSession, Receiving
<1>3. LimitInv' /\ StoredUnderTLS' /\ StoredWithinLimits' /\ EndInv'
  BY DEF LimitInv, StoredUnderTLS, StoredWithinLimits, EndInv, EndReported
<1> QED BY <1>1, <1>2, <1>3

LEMMA NextInv ==
    ASSUME Inv, [Next]_vars
    PROVE  Inv'
<1>1. CASE Handle
  BY <1>1, HandleGreetingStep, HandleMAILStep, HandleRCPTStep, HandleDATAStep,
     HandleRSETStep, HandleQUITStep, AnswerStep, HandleSTARTTLSStep DEF Handle
<1>2. CASE RunStep
  BY <1>1, <1>2, StartStep, SendGreetingStep, LoopStep, ReadCommandFailsStep, ReplyStep,
     PerformTLSUpgradeStep, SendStartMailInputStep, StreamCheckStep, StreamReadFailsStep,
     FinishMessageStep DEF RunStep
<1>3. CASE ReadStep
  BY <1>3, ReadCommandStep, StreamLineStep DEF ReadStep
<1>4. CASE CloseStep \/ Cancel \/ ClientGone \/ Stall \/ CloseFlag
  BY <1>4, CloseAbortStep, EnvironmentStep DEF CloseStep
<1>5. CASE UNCHANGED vars
  BY <1>5, StutterInv
<1> QED BY <1>2, <1>3, <1>4, <1>5 DEF Next

\* Inv holds of every session, whatever its configuration, its client, its
\* callbacks and the goroutine that may close it.
THEOREM Invariance == Spec => []Inv
BY InitInv, NextInv, PTL DEF Spec

\* Every variable of the engine stays within its type.
THEOREM TypeCorrect == Spec => []TypeOK
<1>1. Inv => TypeOK
  BY DEF Inv
<1> QED BY <1>1, Invariance, PTL

\* handleRCPT and handleDATA never dereference a nil envelope, and what reaches
\* Storage has a sender and a recipient.
THEOREM EnvelopeAlwaysReady == Spec => []EnvelopeReady
<1>1. Inv => EnvelopeReady
  BY DEF Inv, EnvelopeInv, EnvelopeReady, HasSender, HasRecipient
<1> QED BY <1>1, Invariance, PTL

\* No line of a body whose reception was given up is executed as a command.
THEOREM BodySafety == Spec => []BodyNeverExecuted
<1>1. Inv => BodyNeverExecuted
  BY DEF Inv, BodyInv, BodyNeverExecuted
<1> QED BY <1>1, Invariance, PTL

\* The metadata of the envelope in progress is never stale.
THEOREM MetadataFresh == Spec => []EnvelopeMatchesSession
<1>1. Inv => EnvelopeMatchesSession
  BY DEF Inv, SessionInv
<1> QED BY <1>1, Invariance, PTL

\* Under TLSRequired nothing received in the clear is stored.
THEOREM TLSEnforced == Spec => []StoredUnderTLS
<1>1. Inv => StoredUnderTLS
  BY DEF Inv
<1> QED BY <1>1, Invariance, PTL

\* Stored messages respect MaxMessageSize and MaxRecipients, and their number
\* MaxTransactions.
THEOREM LimitsEnforced == Spec => []StoredWithinLimits
<1>1. Inv => StoredWithinLimits
  BY DEF Inv
<1> QED BY <1>1, Invariance, PTL

\* The engine's copy of the protocol state leaves the machine's only where
\* StateAgreement says.
THEOREM CopyAgrees == Spec => []StateAgreement
<1>1. Inv => StateAgreement
  BY DEF Inv
<1> QED BY <1>1, Invariance, PTL

\* Run reports the end of a session that Close was not called on.
THEOREM EndsReported == Spec => []EndReported
<1>1. Inv => EndReported
  BY DEF Inv, EndInv
<1> QED BY <1>1, Invariance, PTL
=============================================================================

------------------------------- MODULE Engine -------------------------------
(***************************************************************************)
(* One SMTP session of engine.go: the goroutine in Run, the client and the *)
(* connection it talks to, the context that cancels it and the goroutine   *)
(* that may call Close.  run is the program counter of Run; it stops only  *)
(* where the code can block or where another goroutine can be noticed (a   *)
(* read, a write, a callback, the top of the loop), and everything between *)
(* two such points is one action.                                          *)
(*                                                                         *)
(* SenderPolicy, Mailbox, EnvelopeFactory, Storage and the hooks are       *)
(* supplied by the embedding program: their answers are nondeterministic.  *)
(***************************************************************************)
EXTENDS StateMachine, Integers, Sequences

CONSTANTS
    \* SessionConfig
    TLSPolicy,          \* "TLSDisabled", "TLSOptional", "TLSRequired" or "TLSImmediate"
    HasTLSProvider,     \* config.TLSProvider # nil
    HasStorage,         \* config.Storage # nil
    Extensions,         \* the switched-on members of ExtensionSet that matter here
    MaxMessageSize, MaxRecipients, MaxLineLength, MaxErrors, MaxTransactions,
                        \* SessionLimits; 0 means no limit
    CommandTimeout,     \* CommandTimeout or IdleTimeout is positive
    HookErrors,         \* classes of error the OnCommand hook may return
    PolicyCodes,        \* codes SenderPolicy and Mailbox choose when they do not accept
    \* the connection
    NetConn,            \* a NetConn, else a PipeConn
    EnforcesDeadlines,  \* a blocked read is woken when its deadline passes
    Events,             \* what may happen around the session: a subset of
                        \* {"cancel", "hangup", "break", "stall", "close"}
    \* what clients send
    Senders, Recipients, Hosts,
    LineLengths,        \* lengths of body lines
    DeclaredSizes,      \* values of the SIZE parameter; 0 also stands for none
    Int64Max,           \* the largest int64 fmt.Sscanf can store
    \* sentinels
    Nil, NoSender, NoHost,
    \* bounds on what a client does, for TLC
    ErrBound, TxnBound, RcptBound, SizeBound, AheadBound

Policies == {"TLSDisabled", "TLSOptional", "TLSRequired", "TLSImmediate"}

\* The members of DisconnectReason the engine uses.
Reasons == {"Normal", "Timeout", "Error", "TLSFailure"}

\* The e.envelope builder: reverse-path, recipients, bytes written so far, and
\* the session metadata copied when MAIL created it.
Envelopes == [from : Senders \cup {NoSender}, rcpts : Seq(Recipients),
              size : Nat, tls : BOOLEAN, host : Hosts \cup {NoHost}]

ASSUME ConfigAssumption ==
    /\ TLSPolicy \in Policies
    /\ {HasTLSProvider, HasStorage, CommandTimeout, NetConn, EnforcesDeadlines} \subseteq BOOLEAN
    /\ {MaxMessageSize, MaxRecipients, MaxLineLength, MaxErrors, MaxTransactions} \subseteq Nat
    /\ HookErrors \subseteq {"other", "timeout", "io"}
    /\ PolicyCodes \subseteq Nat
    /\ NetConn => EnforcesDeadlines

ASSUME ClientAssumption ==
    /\ LineLengths \subseteq Nat \ {0}
    /\ DeclaredSizes \subseteq Nat
    /\ {Int64Max, ErrBound, TxnBound, RcptBound, SizeBound, AheadBound} \subseteq Nat

ASSUME SentinelAssumption ==
    Nil \notin Envelopes \cup Reasons /\ NoSender \notin Senders /\ NoHost \notin Hosts

VARIABLES
    run,        \* where Run is
    sm,         \* e.sm.state
    st,         \* e.state.State, the engine's own copy
    host,       \* e.state.ClientHostname
    tls,        \* e.state.TLSActive
    envelope,   \* e.envelope
    errs,       \* e.state.ConsecutiveErrors
    txns,       \* e.stats.TransactionCount
    cmd,        \* the parsed command being handled
    resp,       \* the code of the response about to be written
    ret,        \* what processOneCommand returns once it is written
    closed,     \* e.closed
    reason,     \* the reason OnDisconnect was called with, or Nil
    closer,     \* where the goroutine calling Close is
    ctxDone,    \* ctx is cancelled
    conn,       \* the state of the connection
    ahead,      \* complete lines still buffered once the client is gone
    inBody,     \* history: the client has not finished the body it was asked for
    stored      \* history: the last envelope handed to Storage, or Nil

session == <<sm, st, host, tls, envelope, errs, txns>>
call    == <<cmd, resp, ret>>
life    == <<closed, reason>>
world   == <<ctxDone, conn, ahead>>
history == <<inBody, stored>>
vars    == <<run, session, call, life, closer, world, history>>

-----------------------------------------------------------------------------
(* Connection: which outcomes a read or a write can have.  An outcome is   *)
(* "none" or the class of the error as Run sorts it: "timeout", "io" (EOF, *)
(* ErrUnexpectedEOF, ErrClosedPipe) or "other" (net.ErrClosed, resets,     *)
(* TLS record errors).                                                     *)

\* Mutant: ErrClosedPipe is not counted as an I/O error.
ClosedPipeIgnored == "other"

\* I/O on a connection that was closed here, or hung up by the peer.
ClosedError == IF NetConn THEN "other" ELSE "io"

\* Writes have no deadline: on a stalled connection none completes.
WriteResults ==
    CASE conn = "open"    -> {"none"}
      [] conn = "stalled" -> {}
      [] conn = "eof"     -> {"none", ClosedError}
      [] conn = "broken"  -> {"none", "other"}
      [] OTHER            -> {ClosedError}

\* Mutant: the end of the input is not counted as an I/O error.
EOFNotAnError(deadline) ==
    CASE conn \in {"open", "stalled"} -> IF deadline THEN {"timeout"} ELSE {}
      [] conn = "eof"                 -> {"other"}
      [] conn = "broken"              -> {"other"}
      [] OTHER                        -> {ClosedError}

\* Mutant: the deadline is never set.
NoReadDeadline(deadline) ==
    CASE conn \in {"open", "stalled"} -> {}
      [] conn = "eof"                 -> {"io"}
      [] conn = "broken"              -> {"other"}
      [] OTHER                        -> {ClosedError}

\* Errors of a read that finds no buffered line, under a deadline or not.
ReadErrors(deadline) ==
    CASE conn \in {"open", "stalled"} -> IF deadline THEN {"timeout"} ELSE {}
      [] conn = "eof"                 -> {"io"}
      [] conn = "broken"              -> {"other"}
      [] OTHER                        -> {ClosedError}

Readable == conn = "open" \/ ahead > 0

\* One complete line leaves the buffered reader.
TakeLine ==
    /\ Readable
    /\ ahead' = IF conn = "open" THEN ahead ELSE ahead - 1
    /\ UNCHANGED <<ctxDone, conn>>

\* A failed read.  A reset is reported once on a plain socket, which then
\* reads EOF; crypto/tls remembers it and reports it on every later read.
FailRead(e, deadline) ==
    /\ ahead = 0
    /\ e \in ReadErrors(deadline)
    /\ conn' = IF conn = "broken" /\ ~tls THEN "eof" ELSE conn
    /\ UNCHANGED <<ctxDone, ahead>>

-----------------------------------------------------------------------------
(* Shared pieces of the Run goroutine.                                     *)

(* sm.state is written without a lock by this goroutine and by Close.      *)
(* While Close is between its check and its write of "Aborted", either     *)
(* write may come last, and then Close has done its part.                  *)
SmMove(target) ==
    \/ sm' = target /\ UNCHANGED closer
    \/ /\ closer = "abort" /\ target # sm /\ canTransition(sm, "Aborted")
       /\ sm' \in {target, "Aborted"}
       /\ closer' = "connclose"

handleDisconnect(r) ==
    /\ run' = "done"
    /\ closed' = TRUE
    /\ reason' = IF closed THEN reason ELSE r

\* What Run does when processOneCommand returned an error of class e in
\* protocol state s: "loop" again, or disconnect for a reason.
Verdict(e, s) ==
    IF e = "none" THEN "loop"
    ELSE IF IsTerminal(s) THEN "Normal"
    ELSE IF e = "timeout" THEN "Timeout"
    ELSE IF e = "io" THEN "Error"
    ELSE "loop"

\* Mutant: an I/O error makes Run return without handleDisconnect.
ReturnedUnreported(e) ==
    IF Verdict(e, sm') = "loop"
    THEN run' = "loop" /\ UNCHANGED life
    ELSE IF Verdict(e, sm') = "Error" THEN run' = "done" /\ UNCHANGED life
    ELSE handleDisconnect(Verdict(e, sm'))

Returned(e) ==
    IF Verdict(e, sm') = "loop"
    THEN run' = "loop" /\ UNCHANGED life
    ELSE handleDisconnect(Verdict(e, sm'))

IsPositive(code) == code >= 200 /\ code < 400

NoCommand == [verb |-> Unknown, arg |-> "none"]

Write(code, after) ==
    /\ run' = "reply"
    /\ resp' = code
    /\ ret' = after
    /\ UNCHANGED cmd

\* The response of a handler: its write error is returned, and a positive
\* one clears the error count.
Respond(code) == Write(code, "handled")

Refuse(code) == Respond(code) /\ UNCHANGED <<session, closer, history>>

-----------------------------------------------------------------------------
(* Run up to the command loop, and the top of the loop.                    *)

Init ==
    /\ run = "start" /\ sm = "Disconnected" /\ st = "Disconnected"
    /\ host = NoHost /\ tls = FALSE /\ envelope = Nil
    /\ errs = 0 /\ txns = 0
    /\ cmd = NoCommand /\ resp = 0 /\ ret = "none"
    /\ closed = FALSE /\ reason = Nil /\ closer = "idle"
    /\ ctxDone = FALSE /\ conn = "open" /\ ahead = 0
    /\ inBody = FALSE /\ stored = Nil

\* sm.Connect and the OnConnect hook.
Start ==
    /\ run = "start"
    /\ run' = "greet"
    /\ SmMove(Connect(sm))
    /\ UNCHANGED <<st, host, tls, envelope, errs, txns, call, life, world, history>>

\* The greeting: a failed write disconnects; a Greet that finds the session
\* aborted makes Run return without handleDisconnect.
SendGreeting ==
    /\ run = "greet"
    /\ \E e \in WriteResults :
         \/ /\ e = "none" /\ sm = "Connected"
            /\ SmMove(Greet(sm))
            /\ st' = "Greeted"
            /\ run' = "loop"
            /\ UNCHANGED life
         \/ /\ e = "none" /\ sm # "Connected"
            /\ run' = "done"
            /\ UNCHANGED <<sm, closer, st, life>>
         \/ /\ e # "none"
            /\ handleDisconnect("Error")
            /\ UNCHANGED <<sm, closer, st>>
    /\ UNCHANGED <<host, tls, envelope, errs, txns, call, world, history>>

\* Mutant: the context is only looked at while a message is being received.
LoopIgnoresContext ==
    /\ run = "loop"
    /\ IF IsTerminal(sm)
       THEN handleDisconnect("Normal")
       ELSE /\ run' = IF st = "StartTLS" THEN "tls" ELSE "read"
            /\ UNCHANGED life
    /\ UNCHANGED <<session, call, closer, world, history>>

Loop ==
    /\ run = "loop"
    /\ IF ctxDone THEN handleDisconnect("Timeout")
       ELSE IF IsTerminal(sm) THEN handleDisconnect("Normal")
       ELSE /\ run' = IF st = "StartTLS" THEN "tls" ELSE "read"
            /\ UNCHANGED life
    /\ UNCHANGED <<session, call, closer, world, history>>

-----------------------------------------------------------------------------
(* processOneCommand: read a line, parse it, ask the hook, check the state. *)

\* A received line: its verb, its argument (absent, or present and badly or
\* well formed for the verb) and whether it exceeds MaxCommandLength.
Lines == [verb : Verbs \cup {Unknown}, arg : {"none", "bad", "ok"}, long : BOOLEAN]

ParseFails(line) ==
    \/ line.long
    \/ line.verb = Unknown
    \/ CommandRequiresArgument(line.verb) /\ line.arg = "none"
    \/ CommandForbidsArgument(line.verb) /\ line.arg # "none"

CheckErrorCount(n) == MaxErrors > 0 /\ n >= MaxErrors

\* The client stays within the bounds while it is there; the lines it left
\* in the buffer are read whatever they are.
WithinBounds(line) ==
    /\ errs < ErrBound
    /\ line.verb = "MAIL" => txns < TxnBound
    /\ line.verb = "RCPT" /\ envelope # Nil => Len(envelope.rcpts) < RcptBound

ReadCommand ==
    /\ run = "read"
    /\ TakeLine
    /\ \E line \in Lines :
         /\ conn = "open" => WithinBounds(line)
         \* "." parses as an unknown verb: the terminator of a body whose
         \* reception was given up may be among the lines read as commands.
         /\ inBody' \in IF inBody /\ line.verb = Unknown THEN BOOLEAN ELSE {inBody}
         /\ \/ /\ ParseFails(line)
               /\ errs' = errs + 1
               /\ IF CheckErrorCount(errs') THEN Write(421, "limit") ELSE Write(500, "other")
            \/ /\ ~ParseFails(line)
               /\ \E e \in HookErrors : Write(554, e)
               /\ UNCHANGED errs
            \/ /\ ~ParseFails(line)
               /\ ~IsCommandAllowed(sm, line.verb)
               /\ errs' = errs + 1
               /\ Write(503, "none")
            \/ /\ ~ParseFails(line)
               /\ IsCommandAllowed(sm, line.verb)
               /\ cmd' = [verb |-> line.verb, arg |-> line.arg]
               /\ run' = "exec"
               /\ UNCHANGED <<errs, resp, ret>>
    /\ UNCHANGED <<sm, st, host, tls, envelope, txns, life, closer, stored>>

ReadCommandFails ==
    /\ run = "read"
    /\ \E e \in {"timeout", "io", "other"} :
         /\ FailRead(e, CommandTimeout /\ EnforcesDeadlines)
         /\ sm' = sm
         /\ Returned(e)
    /\ UNCHANGED <<st, host, tls, envelope, errs, txns, call, closer, history>>

\* Mutant: a success takes one error back.
ErrorsForgiven(e) == IF e = "none" /\ IsPositive(resp) THEN errs - 1 ELSE errs

\* ConsecutiveErrors once the response of a handler is written.
ErrorsAfter(e) == IF e = "none" /\ IsPositive(resp) THEN 0 ELSE errs

\* writeResponse and the rest of processOneCommand.  Only a handler's
\* response lets its write error through; the error limit aborts afterwards.
Reply ==
    /\ run = "reply"
    /\ \E e \in WriteResults :
         \/ /\ ret = "handled"
            /\ errs' = ErrorsAfter(e)
            /\ UNCHANGED <<sm, closer>>
            /\ Returned(e)
         \/ /\ ret = "limit"
            /\ SmMove(Abort(sm))
            /\ Returned("other")
            /\ UNCHANGED errs
         \/ /\ ret \notin {"handled", "limit"}
            /\ UNCHANGED <<sm, closer, errs>>
            /\ Returned(ret)
    /\ cmd' = NoCommand /\ resp' = 0 /\ ret' = "none"
    /\ UNCHANGED <<st, host, tls, envelope, txns, world, history>>

-----------------------------------------------------------------------------
(* The command handlers.                                                   *)

Executing(verbs) ==
    /\ run = "exec" /\ cmd.verb \in verbs
    /\ UNCHANGED <<life, world>>

\* Mutant: an envelope outlives a second greeting.
GreetingKeepsTransaction ==
    /\ Executing({"HELO", "EHLO"})
    /\ \/ cmd.arg = "bad" /\ Refuse(501)
       \/ /\ cmd.arg = "ok"
          /\ host' \in Hosts
          /\ SmMove(TransitionForCommand(sm, cmd.verb))
          /\ st' = "Identified"
          /\ Respond(250)
          /\ UNCHANGED <<tls, envelope, errs, txns, history>>

HandleGreeting ==
    /\ Executing({"HELO", "EHLO"})
    /\ \/ cmd.arg = "bad" /\ Refuse(501)
       \/ /\ cmd.arg = "ok"
          /\ host' \in Hosts
          /\ SmMove(TransitionForCommand(sm, cmd.verb))
          /\ st' = "Identified"
          /\ envelope' = Nil
          /\ Respond(250)
          /\ UNCHANGED <<tls, errs, txns, history>>

\* Mutant: a client that has greeted again is let through.
NeedsTLSOnce == TLSPolicy = "TLSRequired" /\ ~tls /\ st # "Identified"

NeedsTLS == TLSPolicy = "TLSRequired" /\ ~tls

TooManyTransactions == MaxTransactions > 0 /\ txns >= MaxTransactions

\* fmt.Sscanf leaves its zero target alone when the number overflows.
ScanSize(n) == IF n <= Int64Max THEN n ELSE 0

DeclaredTooBig(n) ==
    "SIZE" \in Extensions /\ MaxMessageSize > 0 /\ ScanSize(n) > MaxMessageSize

NewEnvelope(from) ==
    [from |-> from, rcpts |-> <<>>, size |-> 0, tls |-> tls, host |-> host]

\* A SenderPolicy that does not accept answers as it likes; SetMailFrom can fail in a
\* custom builder, and the new envelope then stays.
HandleMAIL ==
    /\ Executing({"MAIL"})
    /\ \/ NeedsTLS /\ Refuse(530)
       \/ ~NeedsTLS /\ TooManyTransactions /\ Refuse(421)
       \/ ~NeedsTLS /\ ~TooManyTransactions /\ cmd.arg = "bad" /\ Refuse(501)
       \/ /\ ~NeedsTLS /\ ~TooManyTransactions /\ cmd.arg = "ok"
          /\ \E n \in DeclaredSizes :
               \/ DeclaredTooBig(n) /\ Refuse(552)
               \/ ~DeclaredTooBig(n) /\ \E code \in PolicyCodes : Refuse(code)
               \/ /\ ~DeclaredTooBig(n)
                  /\ envelope' = NewEnvelope(NoSender)
                  /\ Respond(554)
                  /\ UNCHANGED <<sm, st, host, tls, errs, txns, closer, history>>
               \/ /\ ~DeclaredTooBig(n)
                  /\ \E from \in Senders : envelope' = NewEnvelope(from)
                  /\ SmMove(TransitionForCommand(sm, "MAIL"))
                  /\ st' = "MailFrom"
                  /\ Respond(250)
                  /\ UNCHANGED <<host, tls, errs, txns, history>>

\* Mutant: the limit is noticed one recipient late.
TooManyRecipientsByOne == MaxRecipients > 0 /\ Len(envelope.rcpts) > MaxRecipients

TooManyRecipients == MaxRecipients > 0 /\ Len(envelope.rcpts) >= MaxRecipients

HandleRCPT ==
    /\ Executing({"RCPT"})
    /\ \/ cmd.arg = "bad" /\ Refuse(501)
       \/ cmd.arg = "ok" /\ TooManyRecipients /\ Refuse(452)
       \/ /\ cmd.arg = "ok" /\ ~TooManyRecipients
          /\ \E code \in PolicyCodes \cup {554} : Refuse(code)
       \/ /\ cmd.arg = "ok" /\ ~TooManyRecipients
          /\ \E r \in Recipients :
               envelope' = [envelope EXCEPT !.rcpts = Append(envelope.rcpts, r)]
          /\ SmMove(TransitionForCommand(sm, "RCPT"))
          /\ st' = "RcptTo"
          /\ Respond(250)
          /\ UNCHANGED <<host, tls, errs, txns, history>>

\* resetTransaction, then sm.Reset; the copy follows sm only to a state that
\* is open for a new transaction.
HandleRSET ==
    /\ Executing({"RSET"})
    /\ envelope' = Nil
    /\ SmMove(Reset(sm))
    /\ st' = IF sm' \in {"Greeted", "Identified"} THEN sm' ELSE "Identified"
    /\ Respond(250)
    /\ UNCHANGED <<host, tls, errs, txns, history>>

\* Mutant: QUIT announces the end and does not reach it.
QuitNotTerminated ==
    /\ Executing({"QUIT"})
    /\ SmMove(TransitionForCommand(sm, "QUIT"))
    /\ Respond(221)
    /\ UNCHANGED <<st, host, tls, envelope, errs, txns, history>>

HandleQUIT ==
    /\ Executing({"QUIT"})
    /\ SmMove(Terminate(TransitionForCommand(sm, "QUIT")))
    /\ Respond(221)
    /\ UNCHANGED <<st, host, tls, envelope, errs, txns, history>>

HandleVRFY == Executing({"VRFY"}) /\ Refuse(IF "VRFY" \in Extensions THEN 252 ELSE 502)

HandleHELP == Executing({"HELP"}) /\ Refuse(IF "HELP" \in Extensions THEN 214 ELSE 502)

\* NOOP, and the verbs handleCommand has no case for.
HandleOther ==
    \/ Executing({"NOOP"}) /\ Refuse(250)
    \/ Executing({"EXPN", "AUTH"}) /\ Refuse(502)

HandleSTARTTLS ==
    /\ Executing({"STARTTLS"})
    /\ \/ TLSPolicy # "TLSDisabled" /\ tls /\ Refuse(503)
       \/ /\ TLSPolicy = "TLSDisabled" \/ (~tls /\ ~HasTLSProvider)
          /\ Refuse(IF TLSPolicy = "TLSDisabled" THEN 502 ELSE 454)
       \/ /\ TLSPolicy # "TLSDisabled" /\ ~tls /\ HasTLSProvider
          /\ SmMove(TransitionForCommand(sm, "STARTTLS"))
          /\ st' = "StartTLS"
          /\ Respond(220)
          /\ UNCHANGED <<host, tls, envelope, errs, txns, history>>

\* The provider or the handshake fails, or the session starts over under TLS.
PerformTLSUpgrade ==
    /\ run = "tls"
    /\ \/ /\ conn # "stalled" \/ EnforcesDeadlines
          /\ handleDisconnect("TLSFailure")
          /\ UNCHANGED <<session, closer>>
       \/ /\ conn = "open"
          /\ tls' = TRUE
          /\ SmMove(TLSComplete(sm))
          /\ st' = "Greeted"
          /\ envelope' = Nil
          /\ host' = NoHost
          /\ run' = "loop"
          /\ UNCHANGED <<errs, txns, life>>
    /\ UNCHANGED <<call, world, history>>

-----------------------------------------------------------------------------
(* handleDATA and streamData.                                              *)

HandleDATA ==
    /\ Executing({"DATA"})
    /\ SmMove(TransitionForCommand(sm, "DATA"))
    /\ st' = "Data"
    /\ run' = "data354"
    /\ UNCHANGED <<host, tls, envelope, errs, txns, call, history>>

\* Mutant: the envelope survives a failed DATA.
FailDataKeepsEnvelope(code) ==
    /\ SmMove(Reset(sm))
    /\ st' = "Identified"
    /\ UNCHANGED envelope
    /\ Respond(code)

\* Every failure after the 354 reply: sm.Reset, the copy back to Identified,
\* the envelope dropped, a negative reply.
FailData(code) ==
    /\ SmMove(Reset(sm))
    /\ st' = "Identified"
    /\ envelope' = Nil
    /\ Respond(code)

\* The 354 reply and envelope.DataWriter.
SendStartMailInput ==
    /\ run = "data354"
    /\ \E e \in WriteResults :
         \/ /\ e # "none"
            /\ SmMove(Abort(sm))
            /\ Respond(0)
            /\ UNCHANGED <<st, envelope, inBody>>
         \/ /\ e = "none"
            /\ inBody' = TRUE
            /\ FailData(451)
         \/ /\ e = "none"
            /\ inBody' = TRUE
            /\ run' = "stream"
            /\ UNCHANGED <<sm, st, envelope, call, closer>>
    /\ UNCHANGED <<host, tls, errs, txns, life, world, stored>>

\* The context is looked at before each line.
StreamCheck ==
    /\ run = "stream"
    /\ \/ ctxDone /\ FailData(451)
       \/ /\ ~ctxDone
          /\ run' = "streamread"
          /\ UNCHANGED <<sm, st, envelope, call, closer>>
    /\ UNCHANGED <<host, tls, errs, txns, life, world, history>>

LineTooLong(n) == MaxLineLength > 0 /\ n > MaxLineLength

MessageTooLarge(added) ==
    MaxMessageSize > 0 /\ envelope.size + added > MaxMessageSize

\* A body line of n bytes, of which added are to be written.
StreamBodyLine(n, added) ==
    /\ conn = "open" => envelope.size < SizeBound
    /\ \/ LineTooLong(n) /\ FailData(500)
       \/ ~LineTooLong(n) /\ MessageTooLarge(added) /\ FailData(552)
       \/ ~LineTooLong(n) /\ ~MessageTooLarge(added) /\ FailData(451)
       \/ /\ ~LineTooLong(n) /\ ~MessageTooLarge(added)
          /\ envelope' = [envelope EXCEPT !.size = envelope.size + added]
          /\ run' = "stream"
          /\ UNCHANGED <<sm, st, call, closer>>
    /\ UNCHANGED inBody

\* One line: the terminator, or a body line, which loses its first dot if it
\* was stuffed.
StreamLine ==
    /\ run = "streamread"
    /\ TakeLine
    /\ \/ /\ run' = "store"
          /\ inBody' = FALSE
          /\ UNCHANGED <<sm, st, envelope, call, closer>>
       \/ \E n \in LineLengths : StreamBodyLine(n, n) \/ StreamBodyLine(n, n - 1)
    /\ UNCHANGED <<host, tls, errs, txns, life, stored>>

StreamReadFails ==
    /\ run = "streamread"
    /\ \E e \in {"timeout", "io", "other"} : FailRead(e, EnforcesDeadlines)
    /\ FailData(451)
    /\ UNCHANGED <<host, tls, errs, txns, life, history>>

\* writer.Close, Finalize and Storage.Store: one of them fails, or the
\* message is handed over and the session is ready for the next transaction.
FinishMessage ==
    /\ run = "store"
    /\ \/ FailData(451) /\ UNCHANGED <<txns, stored>>
       \/ /\ stored' = IF HasStorage THEN envelope ELSE stored
          /\ txns' = txns + 1
          /\ SmMove(Reset(DataComplete(sm)))
          /\ st' = "Identified"
          /\ envelope' = Nil
          /\ Respond(250)
    /\ UNCHANGED <<host, tls, errs, life, world, inBody>>

-----------------------------------------------------------------------------
(* What happens around the session.                                        *)

Cancel ==
    /\ "cancel" \in Events /\ ~ctxDone
    /\ ctxDone' = TRUE
    /\ UNCHANGED <<run, session, call, life, closer, conn, ahead, history>>

\* The client hangs up, or the connection breaks under it; lines received
\* before that are still in the buffered reader.
ClientGone ==
    /\ conn \in {"open", "stalled"}
    /\ \/ "hangup" \in Events /\ conn' = "eof"
       \/ "break" \in Events /\ NetConn /\ conn' = "broken"
    /\ ahead' \in 0..AheadBound
    /\ UNCHANGED <<run, session, call, life, closer, ctxDone, history>>

\* The client stops reading and sending, with the buffers full, or resumes.
Stall ==
    /\ "stall" \in Events
    /\ \/ conn = "open" /\ conn' = "stalled"
       \/ conn = "stalled" /\ conn' = "open"
    /\ UNCHANGED <<run, session, call, life, closer, ctxDone, ahead, history>>

\* Close: the flag under the mutex, the unsynchronised Abort, conn.Close.
CloseFlag ==
    /\ "close" \in Events /\ closer = "idle"
    /\ closed' = TRUE
    /\ closer' = "abort"
    /\ UNCHANGED <<run, session, call, reason, world, history>>

CloseAbort ==
    /\ closer = "abort"
    /\ sm' = Abort(sm)
    /\ closer' = "connclose"
    /\ UNCHANGED <<run, st, host, tls, envelope, errs, txns, call, life, world, history>>

CloseConn ==
    /\ closer = "connclose"
    /\ closer' = "closed"
    /\ conn' = "closed"
    /\ ahead' \in IF conn = "open" THEN 0..AheadBound ELSE {ahead}
    /\ UNCHANGED <<run, session, call, life, ctxDone, history>>

-----------------------------------------------------------------------------

Handle ==
    \/ HandleGreeting \/ HandleMAIL \/ HandleRCPT \/ HandleDATA \/ HandleRSET
    \/ HandleQUIT \/ HandleVRFY \/ HandleHELP \/ HandleOther \/ HandleSTARTTLS

\* Steps of Run that need no input from the client.
RunStep ==
    \/ Start \/ SendGreeting \/ Loop \/ ReadCommandFails \/ Handle \/ Reply
    \/ PerformTLSUpgrade \/ SendStartMailInput \/ StreamCheck
    \/ StreamReadFails \/ FinishMessage

\* Steps that consume a line.
ReadStep == ReadCommand \/ StreamLine

CloseStep == CloseAbort \/ CloseConn

Next == RunStep \/ ReadStep \/ CloseStep \/ Cancel \/ ClientGone \/ Stall \/ CloseFlag

(* The Go scheduler runs every runnable goroutine; callbacks return; a     *)
(* blocked read or write proceeds when the connection allows it, and a     *)
(* deadline that is enforced passes.  No client is obliged to send         *)
(* anything: reading a line is fair only once the line is in the buffer.   *)
Fairness ==
    /\ WF_vars(RunStep)
    /\ WF_vars(conn # "open" /\ ReadStep)
    /\ WF_vars(CloseStep)

Spec == Init /\ [][Next]_vars /\ Fairness

-----------------------------------------------------------------------------
(* Safety.                                                                 *)

RunStates == {"start", "greet", "loop", "read", "exec", "reply", "tls", "data354",
              "stream", "streamread", "store", "done"}

\* The variables of Engine and SessionState stay within their types.
TypeOK ==
    /\ run \in RunStates
    /\ sm \in States /\ st \in States
    /\ host \in Hosts \cup {NoHost} /\ tls \in BOOLEAN
    /\ envelope \in Envelopes \cup {Nil}
    /\ errs \in Nat /\ txns \in Nat
    /\ cmd \in [verb : Verbs \cup {Unknown}, arg : {"none", "bad", "ok"}]
    /\ resp \in Nat
    /\ ret \in {"none", "handled", "limit", "timeout", "io", "other"}
    /\ closed \in BOOLEAN
    /\ reason \in Reasons \cup {Nil}
    /\ closer \in {"idle", "abort", "connclose", "closed"}
    /\ ctxDone \in BOOLEAN
    /\ conn \in {"open", "stalled", "eof", "broken", "closed"}
    /\ ahead \in Nat
    /\ inBody \in BOOLEAN
    /\ stored \in Envelopes \cup {Nil}

\* Steps of handleDATA from the 354 reply to the hand-over to Storage.
Receiving == run \in {"data354", "stream", "streamread", "store"}

\* handleRCPT and handleDATA dereference e.envelope without a check (engine.go:425,
\* 476), and the message handed to Storage must have a sender and a recipient:
\* whatever commands, rejections and failures came before, the builder is there
\* with its reverse-path when RCPT runs and with a recipient when DATA runs.
EnvelopeReady ==
    /\ run = "exec" /\ cmd.verb = "RCPT" => envelope # Nil /\ envelope.from # NoSender
    /\ (run = "exec" /\ cmd.verb = "DATA") \/ Receiving =>
         /\ envelope # Nil
         /\ envelope.from # NoSender /\ envelope.rcpts # <<>>

\* When streamData gives up early (engine.go:604, 613) the client goes on sending
\* its body, and the command loop reads those lines: none of them is ever
\* executed as a command.
BodyNeverExecuted == inBody => run # "exec"

\* The metadata copied into the envelope at MAIL (engine.go:379) is still true of
\* the session: no HELO, EHLO or STARTTLS in between has made the hostname or the
\* TLS flag of an envelope in progress stale.
EnvelopeMatchesSession ==
    envelope # Nil =>
        envelope.tls = tls /\ envelope.host = host /\ host # NoHost

\* Under TLSRequired no message received in the clear reaches Storage, on any
\* path through STARTTLS, its failures and the commands around it.
StoredUnderTLS == TLSPolicy = "TLSRequired" /\ stored # Nil => stored.tls

\* No message reaches Storage beyond MaxMessageSize or MaxRecipients, and none
\* after MaxTransactions others, although each limit is checked long before.
StoredWithinLimits ==
    /\ stored # Nil /\ MaxMessageSize > 0 => stored.size <= MaxMessageSize
    /\ stored # Nil /\ MaxRecipients > 0 => Len(stored.rcpts) <= MaxRecipients
    /\ MaxTransactions > 0 => txns <= MaxTransactions

\* The engine ignores every error of the state machine and keeps a copy of the
\* state beside it.  The two agree, except before the greeting is sent, after the
\* end of the session and, the one way the ignored errors matter, after a failed
\* DATA: there the copy says Identified and the machine stays in Data.
StateAgreement ==
    \/ sm = st \/ IsTerminal(sm)
    \/ sm = "Data" /\ st = "Identified"
    \/ sm = "Connected" /\ st = "Disconnected"

\* Whenever Run returns, the OnDisconnect hook has been called (handleDisconnect),
\* unless Close was called on the session.
EndReported == run = "done" /\ closer = "idle" => reason # Nil

-----------------------------------------------------------------------------
(* The inductive invariant behind the safety properties: what each point   *)
(* of Run knows about the protocol state, the envelope and the limits.     *)

\* Where Run is, against the protocol state.  Close may have aborted it anywhere.
RunInv ==
    /\ run = "start" => sm = "Disconnected" /\ st = "Disconnected"
    /\ run = "greet" =>
         st = "Disconnected" /\ (sm = "Connected" \/ (sm = "Aborted" /\ closer # "idle"))
    /\ run = "exec" => IsCommandAllowed(sm, cmd.verb) \/ sm = "Aborted"
    /\ Receiving => sm \in {"Data", "Aborted"}
    /\ run = "tls" => st = "StartTLS"
    /\ st = "StartTLS" =>
         run \in {"reply", "loop", "tls", "done"} /\ sm \in {"StartTLS", "Aborted"}

\* A body the client has not finished pins the protocol state.
BodyInv == inBody => sm \in {"Data", "Aborted"} /\ run \notin {"exec", "store"}

HasSender == envelope # Nil /\ envelope.from # NoSender
HasRecipient == HasSender /\ envelope.rcpts # <<>>

EnvelopeInv ==
    /\ sm = "MailFrom" \/ (run = "exec" /\ cmd.verb = "RCPT") => HasSender
    /\ sm = "RcptTo" \/ (run = "exec" /\ cmd.verb = "DATA") \/ Receiving => HasRecipient

SessionInv ==
    /\ \/ sm \in {"Identified", "MailFrom", "RcptTo", "Data", "DataDone", "StartTLS"}
       \/ run = "exec" /\ cmd.verb = "MAIL"
       => host # NoHost
    /\ EnvelopeMatchesSession

\* The limits hold of the envelope in progress, and leave room for it.
LimitInv ==
    envelope # Nil =>
        /\ TLSPolicy = "TLSRequired" => envelope.tls
        /\ MaxMessageSize > 0 => envelope.size <= MaxMessageSize
        /\ MaxRecipients > 0 => Len(envelope.rcpts) <= MaxRecipients
        /\ MaxTransactions > 0 => txns < MaxTransactions

EndInv == EndReported /\ (run # "done" /\ closer = "idle" => ~closed)

Inv ==
    /\ TypeOK /\ RunInv /\ StateAgreement /\ BodyInv /\ EnvelopeInv /\ SessionInv
    /\ LimitInv /\ StoredUnderTLS /\ StoredWithinLimits /\ EndInv

-----------------------------------------------------------------------------
(* Liveness.                                                               *)

\* Run waits for its client, and only the client can end the wait: a write never has
\* a deadline (engine.go:773), a read of a command has one only where a timeout is set.
Blocked ==
    \/ conn = "stalled" /\ run \in {"greet", "reply", "data354"}
    \/ conn = "stalled" /\ run = "tls" /\ ~EnforcesDeadlines
    \/ /\ conn \in {"open", "stalled"}
       /\ \/ run = "read" /\ ~(CommandTimeout /\ EnforcesDeadlines)
          \/ run = "streamread" /\ ~EnforcesDeadlines

\* Cancelling the context ends Run (engine.go:149, 577), whatever Run is doing and whatever
\* the client sends, unless Run stays blocked.
CancelEnds == (ctxDone ~> run = "done") \/ []<>Blocked

\* When the client hangs up Run returns, whatever it was doing (isIOError).
HangupEnds == conn = "eof" ~> run = "done"

\* An accepted QUIT ends the session, whether its 221 is delivered or its write fails,
\* unless the client leaves that write blocked.
QuitEnds == (run = "exec" /\ cmd.verb = "QUIT" ~> run = "done") \/ []<>Blocked

\* With a command timeout that is enforced, a client that stops sending cannot hold
\* the session open, also in the middle of a message or under TLS: Run returns unless it
\* is given new lines for ever or stays blocked in a reply the client does not take.
\* (A connection that breaks is no silent client: PlainBreakEnds and BrokenEnds.)
IdleEnds ==
    []<><<ReadStep>>_vars \/ []<>Blocked \/ <>(conn = "broken") \/ <>(run = "done")

\* A plain connection that is reset ends the session, wherever Run is: the error, which
\* Run does not know, is followed by EOF.
PlainBreakEnds == conn = "broken" /\ ~tls ~> run = "done"

\* Close from another goroutine ends Run, wherever Run is when it is called.
CloseEnds == closer = "closed" ~> run = "done"

-----------------------------------------------------------------------------
(* Statements of the repository the code does not keep.                    *)

\* "Reset ... is used after RSET or DATA completion" (statemachine.go:129): when
\* the engine waits for a command it is in a state that can accept one.
CommandLoopReady == run = "read" => CanAcceptCommands(sm) \/ IsTerminal(sm)

\* "MaxErrors is the maximum consecutive errors before disconnection"
\* (session.go:101).
ErrorsBelowLimit == MaxErrors > 0 /\ run = "read" => errs < MaxErrors

\* "Returns when the session terminates normally, errors, or is cancelled"
\* (session.go:17), for a connection that fails under Run.
BrokenEnds == conn = "broken" ~> run = "done"
=============================================================================

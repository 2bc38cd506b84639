------------------------------ MODULE ConnTLS ------------------------------
(***************************************************************************)
(* A BufferedConn over a NetConn (conn.go) through STARTTLS: what the      *)
(* socket carries, what the buffered reader has taken from it, the         *)
(* deadlines, and the session around them.  Whoever is on the path may     *)
(* send anything in the clear at any time, and a client need not wait for  *)
(* the 220 before its handshake; sealed lines come only from the client    *)
(* that completed the handshake.  The model counts in lines: a line torn   *)
(* between buffer and socket is a line left in the socket.                 *)
(***************************************************************************)
EXTENDS TLSProvider, Sequences

CONSTANT SendBound      \* lines the client sends, for TLC

ASSUME ConnAssumption == SendBound \in Nat

VARIABLES
    timed,      \* Limits.CommandTimeout or Limits.IdleTimeout is set
    wire,       \* sent and not yet read from the socket
    reader,     \* the contents of the bufio.Reader
    tlsConn,    \* c.conn is a tls.Conn
    failed,     \* the error crypto/tls keeps returning once a record was bad
    pc,         \* where the session is
    line,       \* the line being executed, or NoLine
    tlsConfig,  \* the certificate in the tls.Config of the upgrade, 0 if it is looked up
    readDeadline, writeDeadline,    \* a deadline is set on the socket
    served,     \* history: the name asked for and the certificate shown
    asked,      \* history: what the provider had when the upgrade began
    count       \* lines sent

conn == <<wire, reader, tlsConn, failed>>
session == <<timed, pc, line, tlsConfig>>
deadlines == <<readDeadline, writeDeadline>>
history == <<served, asked>>
vars == <<provider, conn, session, deadlines, history, count>>

Clear(what) == [what |-> what, sealed |-> FALSE, name |-> "none"]
Hello(n)    == [what |-> "hello", sealed |-> FALSE, name |-> n]
Sealed(what) == [what |-> what, sealed |-> TRUE, name |-> "none"]

Lines == {Clear(w) : w \in {"command", "STARTTLS"}} \cup {Hello(n) : n \in Names}
         \cup {Sealed(w) : w \in {"command", "STARTTLS"}}

NoLine == Clear("none")

Init ==
    /\ ProviderInit
    /\ timed \in BOOLEAN
    /\ wire = <<>> /\ reader = <<>> /\ tlsConn = FALSE /\ failed = FALSE
    /\ pc = "loop" /\ line = NoLine /\ tlsConfig = 0
    /\ readDeadline = FALSE /\ writeDeadline = FALSE
    /\ served = [name |-> "none", cert |-> 0, from |-> "none"]
    /\ asked = [cert |-> 0, names |-> {}] /\ count = 0

-----------------------------------------------------------------------------
(* The other side.                                                         *)

Send ==
    /\ count < SendBound /\ pc # "done"
    /\ \E l \in Lines : (l.sealed => tlsConn) /\ wire' = Append(wire, l)
    /\ count' = count + 1
    /\ UNCHANGED <<provider, reader, tlsConn, failed, session, deadlines, history>>

-----------------------------------------------------------------------------
(* Reading.                                                                *)

\* ReadLine sets the deadline of the read.
ReadLine ==
    /\ pc = "loop"
    /\ pc' = "read"
    /\ readDeadline' = (timed \/ readDeadline)
    /\ UNCHANGED <<provider, conn, timed, line, tlsConfig, writeDeadline, history, count>>

\* The buffered reader takes what the socket has: any part of it, or a TLS record.
Fill ==
    /\ pc \in {"read", "data"} /\ reader = <<>> /\ wire # <<>> /\ ~failed
    /\ \/ \E n \in 1..Len(wire) :
            /\ tlsConn => \A i \in 1..n : wire[i].sealed
            /\ reader' = SubSeq(wire, 1, n)
            /\ wire' = SubSeq(wire, n + 1, Len(wire))
            /\ UNCHANGED failed
       \/ /\ tlsConn /\ ~Head(wire).sealed
          /\ failed' = TRUE
          /\ UNCHANGED <<reader, wire>>
    /\ UNCHANGED <<provider, tlsConn, session, deadlines, history, count>>

\* Mutant: the deadline outlives its read.
KeepDeadline == UNCHANGED readDeadline

\* defer c.SetReadDeadline(time.Time{}), where one was set.
ClearReadDeadline == readDeadline' = (readDeadline /\ ~timed)

\* ReadLine returns a line, which is parsed and executed.
TakeLine ==
    /\ pc = "read" /\ reader # <<>>
    /\ line' = Head(reader) /\ reader' = Tail(reader)
    /\ pc' = "exec"
    /\ ClearReadDeadline
    /\ UNCHANGED <<provider, wire, tlsConn, failed, timed, tlsConfig, writeDeadline, history, count>>

\* A timeout ends the session; the error of a bad record is no I/O error to Run,
\* which goes on.
ReadFails ==
    /\ pc = "read" /\ reader = <<>>
    /\ \/ readDeadline /\ wire = <<>> /\ pc' = "done"
       \/ failed /\ pc' = "loop"
    /\ ClearReadDeadline
    /\ UNCHANGED <<provider, conn, timed, line, tlsConfig, writeDeadline, history, count>>

\* DataTimeout, or ten minutes where there is none.
SetDataDeadline == readDeadline' = TRUE

\* A handshake message read as a line is a syntax error.  Any line may be one error
\* too many, and a command may be QUIT, or DATA, whose body is read under a deadline of
\* its own; STARTTLS and DATA may come in a state that refuses them.
Execute ==
    /\ pc = "exec"
    /\ \/ pc' \in {"loop", "done"} /\ UNCHANGED <<asked, readDeadline>>
       \/ /\ line.what = "STARTTLS" /\ ~tlsConn
          /\ pc' = "upgrade"
          /\ asked' = [cert |-> config.cert, names |-> certificates]
          /\ UNCHANGED readDeadline
       \/ /\ line.what = "command"
          /\ pc' = "data"
          /\ SetDataDeadline
          /\ UNCHANGED asked
    /\ line' = NoLine
    /\ UNCHANGED <<provider, conn, timed, tlsConfig, writeDeadline, served, count>>

\* streamData is left and its deadline cleared, whatever the outcome; a reply that
\* cannot be written ends the session.
DataEnds == pc' \in {"loop", "done"} /\ readDeadline' = FALSE

\* A line of the body extends the deadline; it may be the terminator, or too long.
StreamLine ==
    /\ pc = "data" /\ reader # <<>>
    /\ reader' = Tail(reader)
    /\ \/ SetDataDeadline /\ UNCHANGED pc
       \/ DataEnds
    /\ UNCHANGED <<provider, wire, tlsConn, failed, timed, line, tlsConfig, writeDeadline,
                   history, count>>

\* The deadline passes, or the connection returns the error of a bad record; only the
\* message is given up.
StreamFails ==
    /\ pc = "data" /\ reader = <<>>
    /\ (readDeadline /\ wire = <<>>) \/ failed
    /\ DataEnds
    /\ UNCHANGED <<provider, conn, timed, line, tlsConfig, writeDeadline, history, count>>

-----------------------------------------------------------------------------
(* performTLSUpgrade.                                                      *)

\* NoTLSProvider has no configuration to give.
NoConfig == kind = "none"

\* Mutant: the configuration is taken once, when the server starts.
StartupConfig == 1

\* TLSProvider.GetConfig; an SNITLSProvider looks the certificate up later.
GetConfig == IF kind = "sni" THEN 0 ELSE config.cert

\* Mutant: without a command timeout the handshake has no deadline either.
UntimedHandshake == readDeadline' = timed /\ writeDeadline' = timed

\* CommandTimeout, or 30 seconds where there is none.
SetHandshakeDeadlines == readDeadline' = TRUE /\ writeDeadline' = TRUE

\* The configuration, and the deadlines of the handshake.
BeginUpgrade ==
    /\ pc = "upgrade"
    /\ \/ /\ NoConfig
          /\ pc' = "done"
          /\ UNCHANGED <<tlsConfig, deadlines>>
       \/ /\ ~NoConfig
          /\ tlsConfig' = GetConfig
          /\ SetHandshakeDeadlines
          /\ pc' = "handshake"
    /\ UNCHANGED <<provider, conn, timed, line, history, count>>

\* The certificate crypto/tls shows: the configuration's, or that of the callback.
Certificate(n) ==
    [name |-> n, cert |-> tlsConfig, from |-> IF kind = "sni" THEN GetCertificate(n) ELSE "config"]

\* Mutant: the buffered reader goes on with what it holds.
KeepReader == UNCHANGED reader

\* A new bufio.Reader: what the old one had buffered is gone.
ResetReader == reader' = <<>>

ClearHandshakeDeadlines == readDeadline' = FALSE /\ writeDeadline' = FALSE

\* UpgradeTLS talks to the socket itself, behind the buffered reader.
Handshake ==
    /\ pc = "handshake" /\ wire # <<>>
    /\ \E n \in Names :
         /\ Head(wire) = Hello(n) /\ Certificate(n).from # "none"
         /\ served' = Certificate(n)
    /\ wire' = Tail(wire)
    /\ tlsConn' = TRUE
    /\ ResetReader
    /\ ClearHandshakeDeadlines
    /\ tlsConfig' = 0
    /\ pc' = "loop"
    /\ UNCHANGED <<provider, failed, timed, line, asked, count>>

\* The deadline passes, or there is something else than a hello, no certificate for
\* the name, or a client that rejects the one it is shown.
HandshakeFails ==
    /\ pc = "handshake" /\ (wire # <<>> \/ readDeadline)
    /\ ClearHandshakeDeadlines
    /\ pc' = "done"
    /\ UNCHANGED <<provider, conn, timed, line, tlsConfig, history, count>>

-----------------------------------------------------------------------------

SessionStep ==
    \/ ReadLine \/ Fill \/ TakeLine \/ ReadFails \/ Execute \/ StreamLine \/ StreamFails
    \/ BeginUpgrade \/ Handshake \/ HandshakeFails

Next ==
    \/ Send
    \/ SessionStep
    \/ ProviderNext /\ UNCHANGED <<conn, session, deadlines, history, count>>

\* Goroutines run and deadlines pass; nobody has to send or to renew anything.
Fairness == WF_vars(SessionStep) /\ WF_vars(ReloadStep /\ UNCHANGED <<conn, session, deadlines, history, count>>)

Spec == Init /\ [][Next]_vars /\ Fairness

-----------------------------------------------------------------------------

\* Connection, session and certificate provider keep to their types.
TypeOK ==
    /\ ProviderTypeOK
    /\ wire \in Seq(Lines) /\ reader \in Seq(Lines) /\ line \in Lines \cup {NoLine}
    /\ timed \in BOOLEAN /\ tlsConn \in BOOLEAN /\ failed \in BOOLEAN
    /\ readDeadline \in BOOLEAN /\ writeDeadline \in BOOLEAN
    /\ pc \in {"loop", "read", "exec", "data", "upgrade", "handshake", "done"}
    /\ tlsConfig \in Versions /\ asked \in [cert : Versions, names : SUBSET Names]
    /\ served \in [name : Names \cup {"none"}, cert : Versions, from : {"none", "config", "own", "default"}]
    /\ count \in 0..SendBound

\* No line received in the clear is executed once TLS is active, though it came in one
\* read with STARTTLS and lay in the buffered reader during the handshake (ResetReader,
\* conn.go:276), and no sealed line is ever taken for a clear one.
ClearNeverExecuted == pc = "exec" => (line.sealed <=> tlsConn)

\* No deadline outlives the read, the message or the handshake it was set for: without a
\* timeout no wait for a command is ever timed out, also after a message or an upgrade,
\* and no reply fails on the deadline of an old handshake. No message and no handshake
\* is read without a deadline, although none is configured (engine.go:471, 711).
DeadlinesScoped ==
    /\ readDeadline => pc \in {"data", "handshake"} \/ (pc = "read" /\ timed)
    /\ writeDeadline => pc = "handshake"
    /\ pc \in {"data", "handshake"} => readDeadline

\* The client is shown no certificate older than the one installed when it sent
\* STARTTLS, and a client that asks for a name registered by then is shown the
\* certificate of that name, whatever the operator adds or reloads meanwhile.
ServedCurrent ==
    /\ served.from = "config" => served.cert >= asked.cert
    /\ tlsConn /\ kind = "sni" /\ served.name \in asked.names => served.from = "own"

-----------------------------------------------------------------------------
(* The inductive invariant behind the safety properties.                   *)

\* What has been received is as secret as the connection it is read from; lines on the
\* wire may be older than the connection, never newer.
SealInv ==
    /\ \A i \in DOMAIN wire : wire[i].sealed => tlsConn
    /\ \A i \in DOMAIN reader : (reader[i].sealed <=> tlsConn)

\* Certificates only grow newer on their way from the file to p.config.
VersionInv ==
    /\ config.cert <= certFile
    /\ reload.pc # "idle" => config.cert <= reload.cert /\ reload.cert <= certFile

\* What an upgrade takes is no older than what there was when it was asked for.
UpgradeInv ==
    /\ asked.names \subseteq certificates
    /\ asked.cert <= config.cert
    /\ pc = "handshake" /\ kind # "sni" => asked.cert <= tlsConfig
    /\ pc \in {"upgrade", "handshake"} => ~tlsConn
    /\ ~tlsConn => served.from = "none"

Inv ==
    /\ TypeOK /\ SealInv /\ VersionInv /\ UpgradeInv
    /\ ClearNeverExecuted /\ DeadlinesScoped /\ ServedCurrent

-----------------------------------------------------------------------------

\* Every upgrade ends, in TLS or with the connection: a client that sends STARTTLS and
\* then nothing cannot hold the session, even where no timeout is configured.
UpgradeEnds == pc = "upgrade" ~> pc = "done" \/ tlsConn
=============================================================================

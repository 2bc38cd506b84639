--------------------------- MODULE ConnTLSProofs ---------------------------
(***************************************************************************)
(* The safety properties of a connection through STARTTLS hold for any     *)
(* number of lines, names and renewals: Inv is preserved by every step.    *)
(***************************************************************************)
EXTENDS ConnTLS, SequenceTheorems, TLAPS

-----------------------------------------------------------------------------
(* Each action preserves Inv.                                              *)

LEMMA Constants ==
    VersionBound \in Nat \ {0} /\ 0 \in Versions /\ 1 \in Versions /\ 0 \in 0..SendBound
BY ProviderAssumption, ConnAssumption DEF ProviderAssumption, ConnAssumption, Versions

LEMMA InitInv == Init => Inv
<1> SUFFICES ASSUME Init PROVE Inv
  OBVIOUS
<1>1. TypeOK
  <2>1. ProviderTypeOK
    BY Constants DEF Init, ProviderInit, ProviderTypeOK, Idle
  <2>2. wire \in Seq(Lines) /\ reader \in Seq(Lines) /\ line \in Lines \cup {NoLine}
    BY DEF Init
  <2>3. /\ timed \in BOOLEAN /\ tlsConn \in BOOLEAN /\ failed \in BOOLEAN
        /\ readDeadline \in BOOLEAN /\ writeDeadline \in BOOLEAN
    BY DEF Init
  <2>4. /\ tlsConfig \in Versions /\ asked \in [cert : Versions, names : SUBSET Names]
        /\ served \in [name : Names \cup {"none"}, cert : Versions,
                       from : {"none", "config", "own", "default"}]
        /\ count \in 0..SendBound
    BY Constants DEF Init
  <2> QED BY <2>1, <2>2, <2>3, <2>4 DEF TypeOK, Init
<1>2. SealInv
  BY DEF Init, SealInv
<1>3. VersionInv
  BY DEF Init, ProviderInit, VersionInv, Idle
<1>4. UpgradeInv
  BY DEF Init, ProviderInit, UpgradeInv
<1>5. ClearNeverExecuted /\ DeadlinesScoped
  BY DEF Init, ClearNeverExecuted, DeadlinesScoped
<1>6. ServedCurrent
  BY DEF Init, ServedCurrent
<1> QED BY <1>1, <1>2, <1>3, <1>4, <1>5, <1>6 DEF Inv

\* What any step of the operator, of a signal, of Reload or of a registration does to
\* the certificates.
LEMMA ProviderMoves ==
    ASSUME ProviderTypeOK, VersionInv, ProviderNext
    PROVE  /\ ProviderTypeOK' /\ VersionInv'
           /\ kind' = kind
           /\ config.cert <= config'.cert
           /\ certificates \subseteq certificates'
<1> USE Constants DEF ProviderTypeOK, VersionInv, Versions, disk, sni, Idle
<1>1. CASE Renew
  <2>1. /\ certFile' \in Versions /\ keyFile' \in Versions /\ certFile <= certFile'
        /\ announced' = FALSE /\ UNCHANGED <<kind, config, reload, sighup, sni>>
    BY <1>1 DEF Renew
  <2>2. ProviderTypeOK'
    BY <2>1
  <2> QED BY <2>1, <2>2
<1>2. CASE Signal
  <2>1. announced' \in BOOLEAN
    BY <1>2 DEF Signal
  <2> QED BY <1>2, <2>1 DEF Signal
<1>3. CASE ReloadCert
  <2>1. /\ reload' = [pc |-> "cert", cert |-> certFile, key |-> 0]
        /\ sighup' = FALSE /\ UNCHANGED <<kind, certFile, keyFile, config, announced, sni>>
    BY <1>3 DEF ReloadCert
  <2>2. reload' \in [pc : {"idle", "cert", "key"}, cert : Versions, key : Versions]
    BY <2>1
  <2>3. ProviderTypeOK'
    BY <2>1, <2>2
  <2> QED BY <2>1, <2>3
<1>4. CASE ReloadKey
  BY <1>4 DEF ReloadKey
<1>5. CASE ReloadInstall
  BY <1>5 DEF ReloadInstall
<1>6. CASE AddCertificate
  BY <1>6 DEF AddCertificate
<1>7. CASE SetDefaultCertificate
  BY <1>7 DEF SetDefaultCertificate
<1> QED BY <1>1, <1>2, <1>3, <1>4, <1>5, <1>6, <1>7 DEF ProviderNext, ReloadStep

LEMMA ProviderStep ==
    ASSUME Inv, ProviderNext, UNCHANGED <<conn, session, deadlines, history, count>>
    PROVE  Inv'
<1> USE DEF Inv
<1> USE DEF conn, session, deadlines, history
<1>1. /\ ProviderTypeOK' /\ VersionInv'
      /\ kind' = kind
      /\ config.cert <= config'.cert
      /\ certificates \subseteq certificates'
  BY ProviderMoves DEF TypeOK
<1>2. TypeOK'
  BY <1>1 DEF TypeOK
<1>3. SealInv' /\ ClearNeverExecuted' /\ DeadlinesScoped'
  BY DEF SealInv, ClearNeverExecuted, DeadlinesScoped
<1>4. UpgradeInv' /\ ServedCurrent'
  BY <1>1 DEF UpgradeInv, ServedCurrent, TypeOK, ProviderTypeOK, Versions
<1> QED BY <1>1, <1>2, <1>3, <1>4

\* A client, or whoever is on the path, sends a line.
LEMMA SendStep == ASSUME Inv, Send PROVE Inv'
<1> USE DEF Inv
<1>1. PICK l \in Lines : (l.sealed => tlsConn) /\ wire' = Append(wire, l)
  BY DEF Send
<1>2. UNCHANGED <<provider, reader, tlsConn, failed, session, deadlines, history>>
  BY DEF Send
<1>3. wire' \in Seq(Lines)
  BY <1>1 DEF TypeOK
<1>4. count' \in 0..SendBound
  BY ConnAssumption DEF Send, TypeOK, ConnAssumption
<1>5. TypeOK'
  BY <1>2, <1>3, <1>4 DEF TypeOK, ProviderTypeOK, provider, disk, sni, session, deadlines, history
<1>6. SealInv'
  <2>1. \A i \in DOMAIN wire' : wire'[i].sealed => tlsConn
    BY <1>1 DEF SealInv, TypeOK
  <2> QED BY <1>2, <2>1 DEF SealInv
<1> QED BY <1>2, <1>5, <1>6 DEF VersionInv, UpgradeInv, ClearNeverExecuted, DeadlinesScoped,
           ServedCurrent, provider, disk, sni, session, deadlines, history

\* Steps that leave the certificates and what was received alone.
LEMMA QuietStep ==
    ASSUME Inv, UNCHANGED <<provider, conn, timed, history, count>>,
           pc' \in {"loop", "read", "exec", "data", "upgrade", "handshake", "done"},
           pc' # "exec", pc' # "upgrade" \/ pc = "upgrade", pc' # "handshake" \/ pc = "upgrade",
           line' \in {line, NoLine}, tlsConfig' \in Versions,
           pc' = "handshake" /\ kind # "sni" => tlsConfig' = config.cert,
           readDeadline' \in BOOLEAN, writeDeadline' \in BOOLEAN,
           DeadlinesScoped'
    PROVE  Inv'
<1> USE DEF Inv, provider, disk, sni, conn, history
<1>1. TypeOK'
  BY DEF TypeOK, ProviderTypeOK
<1>2. SealInv' /\ VersionInv' /\ ClearNeverExecuted' /\ ServedCurrent'
  BY DEF SealInv, VersionInv, ClearNeverExecuted, ServedCurrent
<1>3. UpgradeInv'
  BY DEF UpgradeInv
<1> QED BY <1>1, <1>2, <1>3

LEMMA ReadLineStep == ASSUME Inv, ReadLine PROVE Inv'
<1>1. readDeadline' \in BOOLEAN
  BY DEF ReadLine, Inv, TypeOK
<1>2. DeadlinesScoped'
  BY DEF ReadLine, Inv, TypeOK, DeadlinesScoped
<1> QED BY <1>1, <1>2, QuietStep DEF ReadLine, Inv, TypeOK

\* The buffered reader takes lines of the connection it reads from.
LEMMA FillStep == ASSUME Inv, Fill PROVE Inv'
<1> USE DEF Inv
<1>1. UNCHANGED <<provider, tlsConn, session, deadlines, history, count>> /\ reader = <<>>
  BY DEF Fill
<1>2. CASE UNCHANGED <<reader, wire>> /\ failed' = TRUE
  BY <1>1, <1>2 DEF TypeOK, ProviderTypeOK, SealInv, VersionInv, UpgradeInv, ClearNeverExecuted,
     DeadlinesScoped, ServedCurrent, provider, disk, sni, session, deadlines, history
<1>3. ASSUME NEW n \in 1..Len(wire), tlsConn => \A i \in 1..n : wire[i].sealed,
             reader' = SubSeq(wire, 1, n), wire' = SubSeq(wire, n + 1, Len(wire)),
             UNCHANGED failed
      PROVE  Inv'
  <2>1. /\ Len(wire) \in Nat
        /\ \A i \in 1..Len(wire) : wire[i] \in Lines /\ (wire[i].sealed => tlsConn)
    BY LenProperties, ElementOfSeq DEF TypeOK, SealInv
  <2>2. /\ reader' \in Seq(Lines) /\ Len(reader') = n
        /\ \A i \in 1..n : reader'[i] = wire[i]
    BY <1>3, <2>1, SubSeqProperties
  <2>3. /\ wire' \in Seq(Lines)
        /\ \A i \in 1..Len(wire') : wire'[i] = wire[n + i] /\ n + i \in 1..Len(wire)
    BY <1>3, <2>1, SubSeqProperties
  <2>4. SealInv'
    <3>1. \A i \in DOMAIN reader' : (reader'[i].sealed <=> tlsConn)
      BY <1>3, <2>1, <2>2, LenProperties
    <3>2. \A i \in DOMAIN wire' : wire'[i].sealed => tlsConn
      BY <2>1, <2>3, LenProperties
    <3> QED BY <1>1, <3>1, <3>2 DEF SealInv
  <2>5. TypeOK'
    BY <1>1, <1>3, <2>2, <2>3 DEF TypeOK, ProviderTypeOK, provider, disk, sni, session, deadlines,
       history
  <2> QED BY <1>1, <2>4, <2>5 DEF VersionInv, UpgradeInv, ClearNeverExecuted, DeadlinesScoped,
             ServedCurrent, provider, disk, sni, session, deadlines, history
<1> QED BY <1>2, <1>3 DEF Fill

\* A line is taken from the reader and executed.
LEMMA TakeLineStep == ASSUME Inv, TakeLine PROVE Inv'
<1> USE DEF Inv
<1>1. /\ reader # <<>> /\ line' = Head(reader) /\ reader' = Tail(reader) /\ pc' = "exec"
      /\ UNCHANGED <<provider, wire, tlsConn, failed, timed, tlsConfig, writeDeadline,
                     history, count>>
  BY DEF TakeLine
<1>2. /\ Head(reader) \in Lines /\ Tail(reader) \in Seq(Lines)
      /\ Len(reader) \in Nat \ {0} /\ Len(Tail(reader)) = Len(reader) - 1
      /\ \A i \in 1..Len(Tail(reader)) : Tail(reader)[i] = reader[i + 1]
      /\ DOMAIN reader = 1..Len(reader) /\ DOMAIN Tail(reader) = 1..Len(Tail(reader))
      /\ Head(reader) = reader[1]
  BY <1>1, HeadTailProperties, LenProperties, EmptySeq DEF TypeOK
<1>3. readDeadline' \in BOOLEAN /\ DeadlinesScoped'
  BY <1>1 DEF TakeLine, ClearReadDeadline, TypeOK, DeadlinesScoped
<1>4. TypeOK'
  BY <1>1, <1>2, <1>3 DEF TypeOK, ProviderTypeOK, provider, disk, sni, history
<1>5. SealInv' /\ ClearNeverExecuted'
  BY <1>1, <1>2 DEF SealInv, ClearNeverExecuted
<1> QED BY <1>1, <1>3, <1>4, <1>5 DEF VersionInv, UpgradeInv, ServedCurrent, provider, disk, sni,
           history

LEMMA ReadFailsStep == ASSUME Inv, ReadFails PROVE Inv'
<1>1. readDeadline' \in BOOLEAN /\ DeadlinesScoped'
  BY DEF ReadFails, ClearReadDeadline, Inv, TypeOK, DeadlinesScoped
<1> QED BY <1>1, QuietStep DEF ReadFails, Inv, TypeOK

\* The command loop goes on, or STARTTLS is accepted.
LEMMA ExecuteStep == ASSUME Inv, Execute PROVE Inv'
<1>1. /\ pc = "exec" /\ line' = NoLine
      /\ UNCHANGED <<provider, conn, timed, tlsConfig, writeDeadline, served, count>>
  BY DEF Execute
<1>2. CASE pc' \in {"loop", "done"} /\ UNCHANGED <<asked, readDeadline>>
  <2>1. DeadlinesScoped'
    BY <1>1, <1>2 DEF Inv, DeadlinesScoped
  <2> QED BY <1>1, <1>2, <2>1, QuietStep DEF Inv, TypeOK, history
<1>3. CASE /\ line.what = "STARTTLS" /\ ~tlsConn
           /\ pc' = "upgrade"
           /\ asked' = [cert |-> config.cert, names |-> certificates]
           /\ UNCHANGED readDeadline
  <2> USE DEF Inv, provider, disk, sni, conn
  <2>1. TypeOK' /\ DeadlinesScoped'
    BY <1>1, <1>3 DEF TypeOK, ProviderTypeOK, DeadlinesScoped
  <2>2. UpgradeInv' /\ ServedCurrent'
    BY <1>1, <1>3 DEF UpgradeInv, ServedCurrent, TypeOK, ProviderTypeOK, Versions
  <2> QED BY <1>1, <1>3, <2>1, <2>2 DEF SealInv, VersionInv, ClearNeverExecuted
<1>4. CASE pc' = "data" /\ readDeadline' = TRUE /\ UNCHANGED asked
  <2>1. DeadlinesScoped'
    BY <1>1, <1>4 DEF Inv, DeadlinesScoped
  <2> QED BY <1>1, <1>4, <2>1, QuietStep DEF Inv, TypeOK, history
<1> QED BY <1>2, <1>3, <1>4 DEF Execute, SetDataDeadline

\* A line of a message leaves the reader.
LEMMA StreamLineStep == ASSUME Inv, StreamLine PROVE Inv'
<1> USE DEF Inv
<1>1. /\ pc = "data" /\ reader # <<>> /\ reader' = Tail(reader)
      /\ UNCHANGED <<provider, wire, tlsConn, failed, timed, line, tlsConfig, writeDeadline,
                     history, count>>
      /\ \/ pc' = "data" /\ readDeadline' = TRUE
         \/ pc' \in {"loop", "done"} /\ readDeadline' = FALSE
  BY DEF StreamLine, SetDataDeadline, DataEnds
<1>2. /\ Tail(reader) \in Seq(Lines)
      /\ Len(reader) \in Nat \ {0} /\ Len(Tail(reader)) = Len(reader) - 1
      /\ \A i \in 1..Len(Tail(reader)) : Tail(reader)[i] = reader[i + 1]
      /\ DOMAIN reader = 1..Len(reader) /\ DOMAIN Tail(reader) = 1..Len(Tail(reader))
  BY <1>1, HeadTailProperties, LenProperties, EmptySeq DEF TypeOK
<1>3. TypeOK'
  <2>1. readDeadline' \in BOOLEAN /\ pc' \in {"loop", "data", "done"}
    BY <1>1
  <2> QED BY <1>1, <1>2, <2>1 DEF TypeOK, ProviderTypeOK, provider, disk, sni, history
<1>4. SealInv' /\ DeadlinesScoped'
  BY <1>1, <1>2 DEF SealInv, DeadlinesScoped
<1> QED BY <1>1, <1>3, <1>4 DEF VersionInv, UpgradeInv, ClearNeverExecuted, ServedCurrent,
           provider, disk, sni, history

LEMMA StreamFailsStep == ASSUME Inv, StreamFails PROVE Inv'
<1>1. readDeadline' = FALSE /\ DeadlinesScoped'
  BY DEF StreamFails, DataEnds, Inv, DeadlinesScoped
<1> QED BY <1>1, QuietStep DEF StreamFails, DataEnds, Inv, TypeOK

LEMMA BeginUpgradeStep == ASSUME Inv, BeginUpgrade PROVE Inv'
<1>1. DeadlinesScoped'
  BY DEF BeginUpgrade, SetHandshakeDeadlines, Inv, DeadlinesScoped, deadlines
<1>2. /\ readDeadline' \in BOOLEAN /\ writeDeadline' \in BOOLEAN /\ tlsConfig' \in Versions
      /\ pc' = "handshake" /\ kind # "sni" => tlsConfig' = config.cert
  BY Constants DEF BeginUpgrade, SetHandshakeDeadlines, GetConfig, Inv, TypeOK, ProviderTypeOK,
     deadlines
<1> QED BY <1>1, <1>2, QuietStep DEF BeginUpgrade, Inv, TypeOK

\* The connection becomes a TLS connection and forgets what it had buffered.
LEMMA HandshakeStep == ASSUME Inv, Handshake PROVE Inv'
<1> USE DEF Inv, provider, disk, sni
<1>1. PICK n \in Names : Certificate(n).from # "none" /\ served' = Certificate(n)
  BY DEF Handshake
<1>2. /\ pc = "handshake" /\ wire # <<>> /\ wire' = Tail(wire) /\ tlsConn' = TRUE
      /\ reader' = <<>> /\ readDeadline' = FALSE /\ writeDeadline' = FALSE
      /\ tlsConfig' = 0 /\ pc' = "loop"
      /\ UNCHANGED <<provider, failed, timed, line, asked, count>>
  BY DEF Handshake, ResetReader, ClearHandshakeDeadlines
<1>3. wire' \in Seq(Lines) /\ reader' \in Seq(Lines)
  BY <1>2, HeadTailProperties DEF TypeOK
<1>4. served' \in [name : Names \cup {"none"}, cert : Versions,
                   from : {"none", "config", "own", "default"}]
  BY <1>1 DEF Certificate, GetCertificate, TypeOK
<1>5. TypeOK'
  BY <1>2, <1>3, <1>4, Constants DEF TypeOK, ProviderTypeOK
<1>6. SealInv' /\ VersionInv' /\ ClearNeverExecuted' /\ DeadlinesScoped'
  BY <1>2 DEF SealInv, VersionInv, ClearNeverExecuted, DeadlinesScoped
<1>7. UpgradeInv'
  BY <1>2 DEF UpgradeInv
<1>8. ServedCurrent'
  BY <1>1, <1>2 DEF ServedCurrent, UpgradeInv, Certificate, GetCertificate
<1> QED BY <1>5, <1>6, <1>7, <1>8

LEMMA HandshakeFailsStep == ASSUME Inv, HandshakeFails PROVE Inv'
<1>1. DeadlinesScoped'
  BY DEF HandshakeFails, ClearHandshakeDeadlines, DeadlinesScoped
<1> QED BY <1>1, QuietStep DEF HandshakeFails, ClearHandshakeDeadlines, Inv, TypeOK

-----------------------------------------------------------------------------
(* The theorems.                                                           *)

\* Inv holds through every order of lines, upgrades, renewals and reloads.
THEOREM ConnInvariant == Spec => []Inv
<1>1. Inv /\ [Next]_vars => Inv'
  <2> SUFFICES ASSUME Inv, [Next]_vars PROVE Inv'
    OBVIOUS
  <2>1. CASE UNCHANGED vars
    BY <2>1 DEF vars, provider, disk, sni, conn, session, deadlines, history, Inv, TypeOK,
       ProviderTypeOK, SealInv, VersionInv, UpgradeInv, ClearNeverExecuted, DeadlinesScoped,
       ServedCurrent
  <2>2. CASE Next
    BY <2>2, SendStep, ProviderStep, ReadLineStep, FillStep, TakeLineStep, ReadFailsStep,
       ExecuteStep, StreamLineStep, StreamFailsStep, BeginUpgradeStep, HandshakeStep,
       HandshakeFailsStep DEF Next, SessionStep
  <2> QED BY <2>1, <2>2
<1> QED BY <1>1, InitInv, PTL DEF Spec

\* Connection, session and provider keep to their types.
THEOREM ConnTypeCorrect == Spec => []TypeOK
<1>1. Inv => TypeOK
  BY DEF Inv
<1> QED BY <1>1, ConnInvariant, PTL

\* No line received in the clear is executed under TLS, and no sealed line before it,
\* however many lines lie in the buffered reader and in the socket when the handshake
\* runs (conn.go:276).
THEOREM NothingInjected == Spec => []ClearNeverExecuted
<1>1. Inv => ClearNeverExecuted
  BY DEF Inv
<1> QED BY <1>1, ConnInvariant, PTL

\* No deadline outlives the read, the message or the handshake it was set for, and no
\* message and no handshake is read without one.
THEOREM DeadlinesEnd == Spec => []DeadlinesScoped
<1>1. Inv => DeadlinesScoped
  BY DEF Inv
<1> QED BY <1>1, ConnInvariant, PTL

\* A client is shown no certificate older than what was installed when it asked for TLS,
\* and its own if it was registered by then, for any number of renewals meanwhile.
THEOREM CertificatesCurrent == Spec => []ServedCurrent
<1>1. Inv => ServedCurrent
  BY DEF Inv
<1> QED BY <1>1, ConnInvariant, PTL
=============================================================================

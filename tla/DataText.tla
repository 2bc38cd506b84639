----------------------------- MODULE DataText ------------------------------
(***************************************************************************)
(* Message data on its way from the harness's SendData through the engine's*)
(* streamData: dot stuffing, line endings, the terminator and the two      *)
(* limits.  A command follows the data at once, as a pipelining client     *)
(* sends it.                                                               *)
(***************************************************************************)
EXTENDS Text

CONSTANTS
    LineLimits,     \* values of Limits.MaxLineLength to consider; 0 is no limit
    SizeLimits      \* values of Limits.MaxMessageSize

ASSUME DataAssumption == LineLimits \subseteq Nat /\ SizeLimits \subseteq Nat

VARIABLES
    MaxLineLength,  \* the limits of the session
    MaxMessageSize,
    incoming,   \* lines received and not yet read
    stored,     \* what streamData has written
    outcome     \* of streamData: "none" while it has not returned

limits == <<MaxLineLength, MaxMessageSize>>
dataVars == <<limits, incoming, stored, outcome>>

NextCommand == <<"RSET">> \o CRLF

DataInit ==
    /\ MaxLineLength = 0 /\ MaxMessageSize = 0
    /\ incoming = <<>> /\ stored = <<>> /\ outcome = "none"

-----------------------------------------------------------------------------
(* DataLineReader.                                                         *)

IsTerminator(line) == TrimSuffix(TrimSuffix(line, CRLF), <<LF>>) = <<".">>

UnstuffLine(line) == IF HasPrefix(line, ".") THEN Tail(line) ELSE line

\* Mutant: only a line that would read as the terminator is stuffed.
StuffTerminator(line) == IF line = <<".">> THEN <<".">> \o line ELSE line

StuffLine(line) == IF HasPrefix(line, ".") THEN <<".">> \o line ELSE line

-----------------------------------------------------------------------------

\* Every line is sent with CRLF; what follows the last line feed only if there
\* is anything.
SendData(data) ==
    LET parts == Split(data, LF)
        lines == [i \in DOMAIN parts |-> StuffLine(TrimSuffix(parts[i], <<CR>>))]
        body  == IF Last(lines) = <<>> THEN Front(lines) ELSE lines
    IN  [i \in DOMAIN body |-> body[i] \o CRLF] \o <<<<".">> \o CRLF>>

Transmit(data) ==
    /\ incoming = <<>> /\ outcome = "none"
    /\ MaxLineLength' \in LineLimits /\ MaxMessageSize' \in SizeLimits
    /\ incoming' = SendData(data) \o <<NextCommand>>
    /\ UNCHANGED <<stored, outcome>>

\* Mutant: the size is compared before the line is added.
TooLargeAlready(line) == MaxMessageSize > 0 /\ Len(stored) > MaxMessageSize

TooLarge(line) == MaxMessageSize > 0 /\ Len(stored) + Len(UnstuffLine(line)) > MaxMessageSize

TooLong(line) == MaxLineLength > 0 /\ Len(line) > MaxLineLength

\* One round of streamData.
StreamLine ==
    /\ incoming # <<>> /\ outcome = "none"
    /\ incoming' = Tail(incoming)
    /\ UNCHANGED limits
    /\ LET line == Head(incoming)
       IN  \/ /\ IsTerminator(line)
              /\ outcome' = "ok" /\ UNCHANGED stored
           \/ /\ ~IsTerminator(line) /\ TooLong(line)
              /\ outcome' = "ErrLineTooLong" /\ UNCHANGED stored
           \/ /\ ~IsTerminator(line) /\ ~TooLong(line) /\ TooLarge(line)
              /\ outcome' = "ErrMessageTooLarge" /\ UNCHANGED stored
           \/ /\ ~IsTerminator(line) /\ ~TooLong(line) /\ ~TooLarge(line)
              /\ stored' = stored \o UnstuffLine(line) /\ UNCHANGED outcome

-----------------------------------------------------------------------------

\* StandardLimitChecker, which the engine does not use for its data.
CheckLineLength(length) == MaxLineLength > 0 => length <= MaxLineLength
CheckMessageSize(size) == MaxMessageSize > 0 => size <= MaxMessageSize

\* The lines of a text, without their endings; what follows the last line feed is a line
\* if there is anything.
PlainLines(data) ==
    LET parts == Split(data, LF)
        lines == [i \in DOMAIN parts |-> TrimSuffix(parts[i], <<CR>>)]
    IN  IF Last(lines) = <<>> THEN Front(lines) ELSE lines

\* The length of a line on its way: with the dot before another and with CRLF.
SentLength(line) == Len(line) + (IF HasPrefix(line, ".") THEN 3 ELSE 2)

\* The first k lines, each ended by CRLF, for every k.
Joined(lines) ==
    LET upto[k \in 0..Len(lines)] == IF k = 0 THEN <<>> ELSE upto[k - 1] \o lines[k] \o CRLF
    IN  upto

\* The text with every line ended by CRLF.
Canonical(data) == Joined(PlainLines(data))[Len(PlainLines(data))]
=============================================================================

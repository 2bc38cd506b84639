----------------------------- MODULE WireText ------------------------------
(***************************************************************************)
(* The texts of an SMTP conversation, written character by character, and  *)
(* what the code makes of each: a command line, the argument of MAIL, the  *)
(* argument of HELO, message data, and replies.                            *)
(***************************************************************************)
EXTENDS CommandText, DataText, ReplyText

CONSTANTS
    Chars,      \* the characters of all texts
    Starts,     \* for each kind of text, the texts to begin with
    Alphabet,   \* and the characters to append
    TypeBound   \* the number of characters appended, for TLC

ASSUME WireAssumption ==
    /\ Digits \cup {CR, LF, " ", ".", "-", "RSET"} \subseteq Chars
    /\ Texts \subseteq Seq(Chars)
    /\ \A k \in DOMAIN Starts : Starts[k] \subseteq Seq(Chars) /\ Alphabet[k] \subseteq Chars

VARIABLES
    kind,       \* the kind of text
    text,
    typed       \* characters appended

vars == <<kind, text, typed, dataVars, replyVars>>

Init ==
    /\ kind \in DOMAIN Starts
    /\ text \in Starts[kind]
    /\ typed = 0
    /\ DataInit /\ ReplyInit

Type ==
    /\ typed < TypeBound[kind] /\ incoming = <<>> /\ outcome = "none"
    /\ \E c \in Alphabet[kind] : text' = Append(text, c)
    /\ typed' = typed + 1
    /\ UNCHANGED <<kind, dataVars, replyVars>>

Data ==
    /\ kind = "data"
    /\ Transmit(text) \/ StreamLine
    /\ UNCHANGED <<kind, text, typed, replyVars>>

Reply ==
    /\ kind = "reply"
    /\ writeResponse \/ readResponse
    /\ UNCHANGED <<kind, text, typed, dataVars>>

Next == Type \/ Data \/ Reply

Spec == Init /\ [][Next]_vars

-----------------------------------------------------------------------------

\* ParseCommand makes the same of a line whatever blanks precede its ending and
\* whether that is CRLF or a line feed (parser.go:88).
BlanksMakeNoDifference == kind = "command" => BlanksIgnored(text)

\* The parser accepts exactly the arguments of its grammars: of MAIL, a path in angle
\* brackets with an address of a local part, one "@" and a domain name in it; of HELO, a
\* host name, by its labels, or whatever stands in square brackets. Addresses with more
\* than one "@", which parser.go:273 rules out and LastIndex lets through (274), are not
\* spoken of.
ArgumentsExact ==
    LET arg  == TrimSpace(text)
        rest == TrimSpace(Tail(arg))
        path == ParseMailPath(text, "FROM:")
    IN  /\ kind = "path" =>
             (path.ok /\ OneAt(path.address) <=>
                /\ arg # <<>> /\ ToUpper(Head(arg)) = "FROM:"
                /\ \E i \in DOMAIN rest : Path(Upto(rest, i)))
        /\ kind = "host" =>
             (ParseHeloHostname(text) <=>
                Hostname(arg) \/ (arg # <<>> /\ arg[1] = "[" /\ arg[Len(arg)] = "]"))

\* The two functions that look for the end of the path, in different texts, agree: what
\* extractPath takes and what parseESMTPParams reads make up the argument.
PathAndParamsMeet ==
    kind = "path" =>
      LET arg  == TrimSpace(text)
          path == ParseMailPath(text, "FROM:")
      IN  path.ok =>
            \E i \in DOMAIN arg :
              /\ TrimSpace(SubSeq(arg, 2, i)) = <<"<">> \o path.route \o path.address \o <<">">>
              /\ parseESMTPParams(arg) = ReadParams(Fields(From(arg, i + 1)))

\* Message data arrives as it was sent, with CRLF at the end of every line, however its
\* lines begin and end, and the command behind it is left to be read as a command.
DataRoundTrip ==
    outcome = "ok" => stored = Canonical(text) /\ incoming = <<NextCommand>>

\* The engine's own comparisons, made line by line, refuse exactly the data that the
\* LimitChecker refuses as a whole: a line as it was sent, stuffing included, or the
\* message as it would be stored, beyond its limit.
DataLimitsExact ==
    outcome # "none" =>
      (outcome = "ok" <=>
         /\ \A i \in DOMAIN PlainLines(text) : CheckLineLength(SentLength(PlainLines(text)[i]))
         /\ CheckMessageSize(Len(Canonical(text))))

\* The first r lines have been read, within the limits, and what is stored is those lines;
\* while streamData goes on the others are still to come, in order, and when it has ended it
\* was at the terminator or at the line that broke a limit.
HasRead(r) ==
    LET lines == PlainLines(text)
    IN  /\ stored = Joined(lines)[r]
        /\ \A i \in 1..r : CheckLineLength(SentLength(lines[i]))
        /\ CheckMessageSize(Len(stored))
        /\ \/ outcome = "none" /\ incoming = From(SendData(text) \o <<NextCommand>>, r + 1)
           \/ outcome = "ok" /\ r = Len(lines) /\ incoming = <<NextCommand>>
           \/ /\ outcome = "ErrLineTooLong" /\ r < Len(lines)
              /\ ~CheckLineLength(SentLength(lines[r + 1]))
           \/ /\ outcome = "ErrMessageTooLarge" /\ r < Len(lines)
              /\ ~CheckMessageSize(Len(Joined(lines)[r + 1]))

\* What the properties of the data rest on: before SendData nothing has been read.
DataInv ==
    \/ incoming = <<>> /\ outcome = "none" /\ stored = <<>>
    \/ kind = "data" /\ \E r \in 0..Len(PlainLines(text)) : HasRead(r)

\* Each call of readResponse returns one reply, with all of its lines and its code, though
\* replies were written ahead of it and their texts, any without a line ending, may be
\* short or look like a code or a separator.
RepliesFramed ==
    \A i \in DOMAIN received :
      /\ received[i] = ResponseString(replies[i])
      /\ ExpectedCode(received[i]) = replies[i].code

\* The output is the replies not yet received, one after the other: at[k] is where the k-th
\* of all replies ends.
Framing(at) ==
    /\ at[Len(received)] = 0 /\ at[Len(replies)] = Len(output)
    /\ \A j, k \in Len(received)..Len(replies) : j <= k => at[j] <= at[k]
    /\ \A k \in (Len(received) + 1)..Len(replies) :
         /\ at[k] = at[k - 1] + Len(ResponseString(replies[k]))
         /\ \A j \in 1..Len(ResponseString(replies[k])) :
              output[at[k - 1] + j] = ResponseString(replies[k])[j]

ReplyInv ==
    /\ replies \in Seq(Replies) /\ output \in Seq(Seq(Chars))
    /\ received \in Seq(Seq(Seq(Chars))) /\ Len(received) <= Len(replies)
    /\ \E at \in [Len(received)..Len(replies) -> 0..Len(output)] : Framing(at)
    /\ RepliesFramed

TextOK ==
    /\ kind \in DOMAIN Starts /\ text \in Seq(Chars)
    /\ MaxLineLength \in Nat /\ MaxMessageSize \in Nat

Inv == TextOK /\ DataInv /\ ReplyInv
=============================================================================

----------------------------- MODULE ReplyText -----------------------------
(***************************************************************************)
(* Replies on their way from Response.String (reply.go) to the harness's   *)
(* readResponse, which has to find out where each of them ends.            *)
(***************************************************************************)
EXTENDS Text

CONSTANTS
    Codes,      \* reply codes, each as three digits
    Texts,      \* lines of text; none holds a line feed, which ReadLine would split it at
    ReplyBound  \* replies, for TLC

Digits == {"0", "1", "2", "3", "4", "5", "6", "7", "8", "9"}

ASSUME ReplyAssumption ==
    /\ ReplyBound \in Nat /\ Codes \subseteq [1..3 -> Digits]
    /\ \A t \in Texts : LF \notin ToSet(t)

VARIABLES
    replies,    \* history: the replies written
    output,     \* lines written and not yet read
    received    \* history: what the calls of readResponse returned

replyVars == <<replies, output, received>>

\* A reply with its texts, at most two, and whether it has an enhanced code; and the
\* Response{} of a handleDATA that could not send its first reply.
Replies ==
    [code : Codes, enhanced : BOOLEAN, lines : BoundedSeq(Texts, 2)]
    \cup {[code |-> <<"0">>, enhanced |-> FALSE, lines |-> <<>>]}

EnhancedCode == <<"2", ".", "1", ".", "0">>

ReplyInit == replies = <<>> /\ output = <<>> /\ received = <<>>

Separator(r, i) == IF i = Len(r.lines) THEN <<" ">> ELSE <<"-">>

\* Response.String, as its lines.
ResponseString(r) ==
    IF r.lines = <<>>
    THEN <<r.code \o (IF r.enhanced THEN <<" ">> \o EnhancedCode ELSE <<>>) \o CRLF>>
    ELSE [i \in DOMAIN r.lines |->
            r.code \o Separator(r, i) \o (IF r.enhanced THEN EnhancedCode \o <<" ">> ELSE <<>>)
                   \o r.lines[i] \o CRLF]

writeResponse ==
    /\ Len(replies) < ReplyBound
    /\ \E r \in Replies :
         /\ replies' = Append(replies, r)
         /\ output' = output \o ResponseString(r)
    /\ UNCHANGED received

\* Mutant: a line with a code and nothing else is taken for an intermediate one.
LastBySpace(line) == Len(line) >= 4 /\ line[4] = " "

\* A code and a space, or a short line without a hyphen.
IsLast(line) ==
    \/ Len(line) >= 4 /\ line[4] = " "
    \/ Len(line) <= 5 /\ ~Contains(line, "-")

readResponse ==
    LET n == SelectInSeq(output, IsLast)
    IN  /\ n # 0
        /\ received' = Append(received, Upto(output, n))
        /\ output' = From(output, n + 1)
        /\ UNCHANGED replies

\* The digits ExpectWithTimeout reads at the start of the last line.
ExpectedCode(lines) ==
    Upto(Last(lines), Max({n \in 0..3 : \A i \in 1..n : Last(lines)[i] \in Digits}))
=============================================================================

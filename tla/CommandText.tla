---------------------------- MODULE CommandText ----------------------------
(***************************************************************************)
(* The parser of parser.go on the text of command lines, and the grammars  *)
(* of what it should accept.  Verbs, the prefixes FROM: and TO: and the    *)
(* key SIZE are single characters, in two spellings; "a" stands for any    *)
(* letter or digit.                                                        *)
(***************************************************************************)
EXTENDS StateMachine, Text

CONSTANTS
    MaxCommandLength,   \* Parser.MaxCommandLength
    MaxHostname,        \* 255 in isValidHostname
    MaxLabel            \* 63

ASSUME TextAssumption == {MaxCommandLength, MaxHostname, MaxLabel} \subseteq Nat

ToUpper(c) ==
    CASE c = "quit" -> "QUIT" [] c = "mail" -> "MAIL" [] c = "from:" -> "FROM:"
      [] c = "size" -> "SIZE" [] OTHER -> c

-----------------------------------------------------------------------------
(* ParseCommand.                                                           *)

NotParsed == [ok |-> FALSE, verb |-> Unknown, arg |-> <<>>]

ParseCommandVerb(s) ==
    LET word == TrimSpace(s)
    IN  IF Len(word) = 1 /\ ToUpper(word[1]) \in Verbs THEN ToUpper(word[1]) ELSE Unknown

\* splitCommand: before and after the first space.
VerbPart(line) == IF Index(line, SP) = 0 THEN line ELSE Upto(line, Index(line, SP) - 1)
ArgPart(line)  == IF Index(line, SP) = 0 THEN <<>> ELSE From(line, Index(line, SP) + 1)

\* Mutant: the argument keeps the blanks around it.
ArgumentAsSent(line) == ArgPart(line)

Argument(line) == TrimSpace(ArgPart(line))

ParseCommand(raw) ==
    LET line == TrimSuffix(TrimSuffix(raw, CRLF), <<LF>>)
        verb == ParseCommandVerb(VerbPart(line))
        arg  == Argument(line)
        tooLong == MaxCommandLength > 0 /\ Len(raw) > MaxCommandLength
    IN  IF \/ tooLong \/ line = <<>> \/ verb = Unknown
           \/ CommandRequiresArgument(verb) /\ arg = <<>>
           \/ CommandForbidsArgument(verb) /\ arg # <<>>
        THEN NotParsed
        ELSE [ok |-> TRUE, verb |-> verb, arg |-> arg]

-----------------------------------------------------------------------------
(* The arguments of MAIL and RCPT.                                         *)

\* Keys, in upper case, and values of the fields; a key without "=" has an empty value,
\* and of two fields with one key the last counts.
ReadParams(fields) ==
    LET upper(w) == [i \in DOMAIN w |-> ToUpper(w[i])]
        key(f)   == upper(IF Index(f, "=") = 0 THEN f ELSE Upto(f, Index(f, "=") - 1))
        value(f) == IF Index(f, "=") = 0 THEN <<>> ELSE From(f, Index(f, "=") + 1)
    IN  [k \in {key(fields[i]) : i \in DOMAIN fields} |->
           value(fields[Max({i \in DOMAIN fields : key(fields[i]) = k})])]

\* Mutant: the parameters start after the last ">".
ParamsAfterLast(arg) ==
    IF LastIndex(arg, ">") = 0 THEN <<>>
    ELSE ReadParams(Fields(From(arg, LastIndex(arg, ">") + 1)))

parseESMTPParams(arg) ==
    IF Index(arg, ">") = 0 THEN <<>>
    ELSE ReadParams(Fields(From(arg, Index(arg, ">") + 1)))

DomainChars == {"a", ".", "-"}

\* Mutant: the local part may be empty.
AddressNoLocalPart(addr) ==
    LET at == LastIndex(addr, "@")
        domain == From(addr, at + 1)
    IN  /\ at \notin {0, Len(addr)}
        /\ Head(domain) \notin {".", "-"} /\ Last(domain) \notin {".", "-"}
        /\ ToSet(domain) \subseteq DomainChars

isValidAddress(addr) ==
    LET at == LastIndex(addr, "@")
        domain == From(addr, at + 1)
    IN  /\ at \notin {0, 1, Len(addr)}
        /\ Head(domain) \notin {".", "-"} /\ Last(domain) \notin {".", "-"}
        /\ ToSet(domain) \subseteq DomainChars

NoPath == [ok |-> FALSE, null |-> FALSE, route |-> <<>>, address |-> <<>>]

extractPath(text) ==
    LET s     == TrimSpace(text)
        close == Index(s, ">")
        inner == SubSeq(s, 2, close - 1)
        colon == IF HasPrefix(inner, "@") THEN Index(inner, ":") ELSE 0
    IN  IF ~HasPrefix(s, "<") \/ close = 0 THEN NoPath
        ELSE IF inner = <<>> THEN [NoPath EXCEPT !.ok = TRUE, !.null = TRUE]
        ELSE IF ~isValidAddress(From(inner, colon + 1)) THEN NoPath
        ELSE [ok |-> TRUE, null |-> FALSE,
              route |-> Upto(inner, colon), address |-> From(inner, colon + 1)]

ParseMailPath(text, prefix) ==
    LET arg == TrimSpace(text)
    IN  IF arg = <<>> \/ ToUpper(Head(arg)) # prefix THEN NoPath
        ELSE extractPath(Tail(arg))

-----------------------------------------------------------------------------
(* The argument of HELO and EHLO.                                          *)

Alphanumeric(c) == c = "a"

ValidLabel(label) ==
    /\ Len(label) \in 1..MaxLabel
    /\ Alphanumeric(Head(label)) /\ Alphanumeric(Last(label))
    /\ \A i \in DOMAIN label : Alphanumeric(label[i]) \/ label[i] = "-"

isValidHostname(s) ==
    /\ Len(s) \in 1..MaxHostname
    /\ \A i \in DOMAIN Split(s, ".") : ValidLabel(Split(s, ".")[i])

\* An address literal is taken as it is.
ParseHeloHostname(arg) ==
    LET hostname == TrimSpace(arg)
    IN  IF HasPrefix(hostname, "[") THEN HasSuffix(hostname, "]") ELSE isValidHostname(hostname)

-----------------------------------------------------------------------------
(* What the parser should do.                                              *)

\* Blanks before the line ending, and which line ending it is, change nothing.
BlanksIgnored(line) ==
    LET cut(raw) == ParseCommand(line \o raw)
    IN  Len(line) + 3 <= MaxCommandLength =>
          cut(CRLF) = cut(<<LF>>) /\ cut(<<SP>> \o CRLF) = cut(CRLF)

\* No second "@".
OneAt(s) == \A i, j \in DOMAIN s : s[i] = "@" /\ s[j] = "@" => i = j

\* Something, the only "@", and a domain name.
Address(s) ==
    \E i \in 2..Len(s) - 1 :
      /\ s[i] = "@" /\ OneAt(s)
      /\ \A j \in i + 1..Len(s) : s[j] \in DomainChars
      /\ {s[i + 1], s[Len(s)]} \cap {".", "-"} = {}

\* "<", an optional route, an address or nothing, ">", where ">" ends the path.
Path(s) ==
    /\ Len(s) >= 2 /\ s[1] = "<" /\ Index(s, ">") = Len(s)
    /\ LET inner == SubSeq(s, 2, Len(s) - 1)
           routes == {i \in DOMAIN inner : inner[1] = "@" /\ inner[i] = ":"}
       IN  \/ inner = <<>>
           \/ routes = {} /\ Address(inner)
           \/ routes # {} /\ Address(From(inner, Min(routes) + 1))

\* Dots separate labels of letters, digits and inner hyphens.
Hostname(s) ==
    /\ Len(s) \in 1..MaxHostname
    /\ \A i \in DOMAIN s : s[i] \in {"a", "-", "."}
    /\ {s[1], s[Len(s)]} \cap {".", "-"} = {}
    /\ \A i \in 1..Len(s) - 1 : "." \in {s[i], s[i + 1]} => "a" \in {s[i], s[i + 1]}
    /\ \A i \in DOMAIN s : i + MaxLabel <= Len(s) => \E j \in i..i + MaxLabel : s[j] = "."
=============================================================================

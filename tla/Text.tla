------------------------------- MODULE Text --------------------------------
(***************************************************************************)
(* The functions of the Go packages strings and bytes that the parser and  *)
(* the harness use.  A text is a sequence of characters; a word that no    *)
(* code looks into, such as a verb, is one character.                      *)
(***************************************************************************)
EXTENDS Integers, Sequences, SequencesExt, FiniteSetsExt

SP == " "
CR == "\r"
LF == "\n"
CRLF == <<CR, LF>>
Space == {SP, "\t", CR, LF}

\* Index and LastIndex: where the character first and last occurs, or 0.
Index(s, c) == SelectInSeq(s, LAMBDA x : x = c)
LastIndex(s, c) == SelectLastInSeq(s, LAMBDA x : x = c)

From(s, i) == SubSeq(s, i, Len(s))
Upto(s, i) == SubSeq(s, 1, i)

HasPrefix(s, c) == s # <<>> /\ Head(s) = c
HasSuffix(s, c) == s # <<>> /\ Last(s) = c

TrimSuffix(s, t) == IF IsSuffix(t, s) THEN Upto(s, Len(s) - Len(t)) ELSE s

TrimSpace(s) ==
    LET ink == {i \in DOMAIN s : s[i] \notin Space}
    IN  IF ink = {} THEN <<>> ELSE SubSeq(s, Min(ink), Max(ink))

\* Where a text is cut at the characters of a set: before it, at each of them and
\* behind it; and the k-th of these places, counted from 0.
Cuts(s, cs) == {0, Len(s) + 1} \cup {i \in DOMAIN s : s[i] \in cs}
Cut(s, cs, k) == CHOOSE i \in Cuts(s, cs) : Cardinality({j \in Cuts(s, cs) : j < i}) = k

\* The pieces between the cuts.
SplitAny(s, cs) ==
    [k \in 1..(Cardinality(Cuts(s, cs)) - 1) |->
       SubSeq(s, Cut(s, cs, k - 1) + 1, Cut(s, cs, k) - 1)]

Split(s, c) == SplitAny(s, {c})
Fields(s) == SelectSeq(SplitAny(s, Space), LAMBDA p : p # <<>>)
=============================================================================

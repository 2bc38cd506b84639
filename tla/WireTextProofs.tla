--------------------------- MODULE WireTextProofs ---------------------------
(***************************************************************************)
(* Message data and replies of any length and content arrive as they were  *)
(* sent.                                                                   *)
(***************************************************************************)
EXTENDS WireText, SequenceTheorems, FiniteSetTheorems, TLAPS

Strings == Seq(Chars)

-----------------------------------------------------------------------------
(* Numbers and sequences.  A property of every number is proved by looking *)
(* at the least counterexample.                                            *)

LEMMA LeastNumber ==
    ASSUME NEW S \in SUBSET Nat, S # {}
    PROVE  \E m \in S : \A n \in S : m <= n
<1>1. IsWellFoundedOn(OpToRel(<, Nat), Nat)
  BY NatLessThanWellFounded
<1>2. PICK m \in S : \A n \in S : ~(<<n, m>> \in OpToRel(<, Nat))
  BY <1>1, WFMin
<1>3. \A n \in S : ~(n < m)
  BY <1>2 DEF OpToRel
<1> QED BY <1>3

LEMMA ConcatParts ==
    ASSUME NEW S, NEW s \in Seq(S), NEW t \in Seq(S)
    PROVE  /\ s \o t \in Seq(S) /\ Len(s \o t) = Len(s) + Len(t)
           /\ Len(s) \in Nat /\ Len(t) \in Nat
           /\ \A i \in 1..Len(s) : (s \o t)[i] = s[i]
           /\ \A i \in 1..Len(t) : (s \o t)[Len(s) + i] = t[i]
<1>1. Len(s) \in Nat /\ Len(t) \in Nat /\ s \o t \in Seq(S) /\ Len(s \o t) = Len(s) + Len(t)
  BY ConcatProperties
<1>2. \A i \in 1..(Len(s) + Len(t)) :
        (s \o t)[i] = IF i <= Len(s) THEN s[i] ELSE t[i - Len(s)]
  BY ConcatProperties
<1>3. \A i \in 1..Len(s) : (s \o t)[i] = s[i]
  BY <1>1, <1>2
<1>4. ASSUME NEW i \in 1..Len(t) PROVE (s \o t)[Len(s) + i] = t[i]
  <2>1. Len(s) + i \in 1..(Len(s) + Len(t)) /\ ~(Len(s) + i <= Len(s))
        /\ Len(s) + i - Len(s) = i
    BY <1>1
  <2> QED BY <1>2, <2>1
<1> QED BY <1>1, <1>3, <1>4

LEMMA NonEmpty ==
    ASSUME NEW S, NEW s \in Seq(S), s # <<>>
    PROVE  /\ Len(s) \in Nat /\ Len(s) > 0 /\ Len(s) \in 1..Len(s)
           /\ \A i \in 1..Len(s) : s[i] \in S
OBVIOUS

LEMMA FunctionIsSeq ==
    ASSUME NEW S, NEW n \in Nat, NEW f \in [1..n -> S]
    PROVE  f \in Seq(S) /\ Len(f) = n
OBVIOUS

LEMMA SubSeqOne ==
    ASSUME NEW S, NEW s \in Seq(S), NEW n \in 1..Len(s)
    PROVE  SubSeq(s, n, n) = <<s[n]>>
<1>1. SubSeq(s, n, n) = <<s[n]>> \o SubSeq(s, n + 1, n)
  BY SubSeqRecursiveFirst
<1>2. SubSeq(s, n + 1, n) = <<>>
  BY SubSeqEmpty
<1>3. s[n] \in S /\ <<s[n]>> \in Seq(S)
  OBVIOUS
<1> QED BY <1>1, <1>2, <1>3, ConcatEmptySeq

LEMMA ConcatOne ==
    ASSUME NEW S, NEW s \in Seq(S), NEW e \in S
    PROVE  /\ s \o <<e>> \in Seq(S) /\ Len(s \o <<e>>) = Len(s) + 1 /\ Len(s) \in Nat
           /\ \A i \in 1..Len(s) : (s \o <<e>>)[i] = s[i]
           /\ (s \o <<e>>)[Len(s) + 1] = e
<1>1. <<e>> \in Seq(S) /\ Len(<<e>>) = 1 /\ <<e>>[1] = e
  OBVIOUS
<1>2. \A i \in 1..1 : (s \o <<e>>)[Len(s) + i] = <<e>>[i]
  BY <1>1, ConcatParts
<1>3. (s \o <<e>>)[Len(s) + 1] = e
  BY <1>1, <1>2
<1> QED BY <1>1, <1>3, ConcatParts

-----------------------------------------------------------------------------
(* Splitting a text.                                                       *)

\* The number of cuts before a place.
Rank(s, cs, i) == Cardinality({j \in Cuts(s, cs) : j < i})

\* Cuts are numbered from 0 in their order.
LEMMA RankGrows ==
    ASSUME NEW s \in Strings, NEW cs
    PROVE  /\ Cuts(s, cs) \in SUBSET (0..(Len(s) + 1)) /\ Len(s) \in Nat
           /\ IsFiniteSet(Cuts(s, cs)) /\ Cardinality(Cuts(s, cs)) \in Nat
           /\ \A i \in Cuts(s, cs) : Rank(s, cs, i) \in 0..(Cardinality(Cuts(s, cs)) - 1)
           /\ \A i, j \in Cuts(s, cs) : i < j => Rank(s, cs, i) < Rank(s, cs, j)
<1> DEFINE S == Cuts(s, cs)
           Below(i) == {j \in S : j < i}
           n == Cardinality(S)
<1>1. S \in SUBSET Nat /\ S \in SUBSET (0..(Len(s) + 1)) /\ (\A i \in S : i <= Len(s) + 1)
      /\ Len(s) + 1 \in Nat /\ Len(s) \in Nat
  BY DEF Cuts
<1>2. IsFiniteSet(S) /\ n \in Nat
  BY <1>1, FS_BoundedSetOfNaturals, FS_CardinalityType
<1>3. ASSUME NEW i \in S PROVE /\ IsFiniteSet(Below(i)) /\ Cardinality(Below(i)) \in Nat
                              /\ Cardinality(Below(i)) < n
  <2>1. Below(i) \in SUBSET S /\ i \notin Below(i)
    BY <1>1
  <2>2. IsFiniteSet(Below(i)) /\ Cardinality(Below(i)) <= n /\ n # Cardinality(Below(i))
    BY <1>2, <2>1, FS_Subset
  <2>3. Cardinality(Below(i)) \in Nat
    BY <2>2, FS_CardinalityType
  <2> QED BY <1>2, <2>2, <2>3
<1>4. ASSUME NEW i \in S, NEW j \in S, i < j
      PROVE  Cardinality(Below(i)) < Cardinality(Below(j))
  <2>1. Below(i) \in SUBSET Below(j) /\ i \in Below(j) /\ i \notin Below(i)
    BY <1>1, <1>4
  <2>2. IsFiniteSet(Below(j))
    BY <1>3
  <2>3. /\ Cardinality(Below(i)) <= Cardinality(Below(j))
        /\ Cardinality(Below(i)) # Cardinality(Below(j))
    BY <2>1, <2>2, FS_Subset
  <2>4. Cardinality(Below(i)) \in Nat /\ Cardinality(Below(j)) \in Nat
    BY <1>3
  <2> HIDE DEF Below
  <2> QED BY <2>3, <2>4
<1>5. \A i \in S : Rank(s, cs, i) = Cardinality(Below(i))
  BY DEF Rank
<1> HIDE DEF S, Below, n
<1>6. \A i \in S : Rank(s, cs, i) \in 0..(n - 1)
  BY <1>2, <1>3, <1>5
<1>7. \A i, j \in S : i < j => Rank(s, cs, i) < Rank(s, cs, j)
  BY <1>4, <1>5
<1> QED BY <1>1, <1>2, <1>6, <1>7 DEF S, n

\* Distinct cuts have distinct numbers, so every number below their count is a cut's.
LEMMA CutExists ==
    ASSUME NEW s \in Strings, NEW cs, NEW k \in 0..(Cardinality(Cuts(s, cs)) - 1)
    PROVE  Cut(s, cs, k) \in Cuts(s, cs) /\ Rank(s, cs, Cut(s, cs, k)) = k
<1> DEFINE S == Cuts(s, cs)
           n == Cardinality(S)
           rank == [i \in S |-> Rank(s, cs, i)]
<1>1. /\ S \in SUBSET Nat /\ IsFiniteSet(S) /\ n \in Nat
      /\ \A i \in S : Rank(s, cs, i) \in 0..(n - 1)
      /\ \A i, j \in S : i < j => Rank(s, cs, i) < Rank(s, cs, j)
  BY RankGrows
<1> HIDE DEF S, n
<1>2. rank \in [S -> 0..(n - 1)]
  BY <1>1
<1>3. rank \in Injection(S, 0..(n - 1))
  <2>1. ASSUME NEW i \in S, NEW j \in S, rank[i] = rank[j], i # j PROVE FALSE
    <3>1. i < j \/ j < i
      BY <1>1, <2>1
    <3>2. rank[i] \in 0..(n - 1) /\ rank[j] \in 0..(n - 1)
      BY <1>2
    <3> QED BY <1>1, <2>1, <3>1, <3>2
  <2> QED BY <1>2, <2>1 DEF Injection, IsInjective
<1>4. rank \in Surjection(S, 0..(n - 1))
  <2>1. IsFiniteSet(0..(n - 1)) /\ Cardinality(0..(n - 1)) = n
    BY <1>1, FS_Interval
  <2> HIDE DEF rank
  <2> QED BY <1>1, <1>3, <2>1, FS_Injection DEF n
<1>5. \E i \in S : Rank(s, cs, i) = k
  BY <1>4 DEF Surjection, n, S
<1> QED BY <1>5 DEF Cut, S, Rank

\* A text is split into one piece at least, and each piece is a text.
LEMMA SplitType ==
    ASSUME NEW s \in Strings, NEW c
    PROVE  Split(s, c) \in Seq(Strings) /\ Len(Split(s, c)) > 0
<1> DEFINE S == Cuts(s, {c})
           n == Cardinality(S)
           piece(k) == SubSeq(s, Cut(s, {c}, k - 1) + 1, Cut(s, {c}, k) - 1)
<1>1. S \in SUBSET (0..(Len(s) + 1)) /\ {0, Len(s) + 1} \in SUBSET S
  BY DEF Cuts
<1>2. IsFiniteSet(S) /\ n \in Nat /\ n >= 2
  <2>1. IsFiniteSet(0..(Len(s) + 1))
    BY FS_Interval
  <2>2. IsFiniteSet(S) /\ n \in Nat
    BY <1>1, <2>1, FS_Subset, FS_CardinalityType
  <2>3. Cardinality({0, Len(s) + 1}) = 2
    <3>1. IsFiniteSet({0}) /\ Cardinality({0}) = 1
      BY FS_Singleton
    <3>2. Cardinality({0} \cup {Len(s) + 1}) = 2
      <4>1. PICK x : x = Len(s) + 1
        OBVIOUS
      <4>2. x \notin {0}
        BY <4>1 DEF Strings
      <4>3. Cardinality({0} \cup {x}) = 1 + 1
        BY <3>1, <4>2, FS_AddElement
      <4> QED BY <4>1, <4>3
    <3>3. {0, Len(s) + 1} = {0} \cup {Len(s) + 1}
      OBVIOUS
    <3> QED BY <3>2, <3>3
  <2>4. Cardinality({0, Len(s) + 1}) <= n
    BY <1>1, <2>2, FS_Subset
  <2> QED BY <2>2, <2>3, <2>4
<1>3. ASSUME NEW k \in 1..(n - 1) PROVE piece(k) \in Strings
  <2>1. k - 1 \in 0..(n - 1) /\ k \in 0..(n - 1)
    BY <1>2
  <2>2. Cut(s, {c}, k - 1) \in S /\ Cut(s, {c}, k) \in S
    BY <2>1, CutExists
  <2>3. ASSUME NEW a \in 0..(Len(s) + 1), NEW b \in 0..(Len(s) + 1)
        PROVE  SubSeq(s, a + 1, b - 1) \in Strings
    BY DEF Strings
  <2> HIDE DEF S, n
  <2> QED BY <1>1, <2>2, <2>3
<1>4. Split(s, c) = [k \in 1..(n - 1) |-> piece(k)]
  BY DEF Split, SplitAny
<1> HIDE DEF piece, n
<1>5. Split(s, c) \in Seq(Strings) /\ Len(Split(s, c)) = n - 1
  BY <1>2, <1>3, <1>4
<1> QED BY <1>2, <1>5

-----------------------------------------------------------------------------
(* The ends of lines.                                                      *)

LEMMA Endings == CRLF \in Strings /\ Len(CRLF) = 2 /\ CRLF[1] = CR /\ CRLF[2] = LF
                 /\ CR # LF /\ CR # "." /\ LF # "." /\ <<CR>> \in Strings /\ <<LF>> \in Strings
<1>1. CR # LF /\ CR # "." /\ LF # "."
  BY DEF CR, LF
<1>2. CR \in Chars /\ LF \in Chars
  BY WireAssumption DEF WireAssumption
<1> QED BY <1>1, <1>2 DEF CRLF, Strings

LEMMA ReverseEffect ==
    ASSUME NEW s \in Strings
    PROVE  /\ Reverse(s) \in Strings /\ Len(Reverse(s)) = Len(s)
           /\ \A i \in 1..Len(s) : Reverse(s)[i] = s[Len(s) - i + 1]
BY DEF Reverse, Strings

LEMMA PrefixEqual ==
    ASSUME NEW s \in Strings, NEW t \in Strings, NEW n \in Nat, n <= Len(s), n <= Len(t)
    PROVE  SubSeq(s, 1, n) = SubSeq(t, 1, n) <=> \A i \in 1..n : s[i] = t[i]
<1>1. /\ SubSeq(s, 1, n) = [i \in 1..n |-> s[i]]
      /\ SubSeq(t, 1, n) = [i \in 1..n |-> t[i]]
  BY DEF Strings
<1> QED BY <1>1

\* A text has a suffix if it ends with its characters.
LEMMA SuffixEffect ==
    ASSUME NEW s \in Strings, NEW t \in Strings
    PROVE  IsSuffix(t, s) <=> /\ Len(t) <= Len(s)
                              /\ \A i \in 1..Len(t) : s[Len(s) - Len(t) + i] = t[i]
<1>1. /\ Reverse(s) \in Strings /\ Len(Reverse(s)) = Len(s)
      /\ Reverse(t) \in Strings /\ Len(Reverse(t)) = Len(t)
      /\ Len(s) \in Nat /\ Len(t) \in Nat
  BY ReverseEffect DEF Strings
<1>2. IsSuffix(t, s) <=> /\ Len(t) <= Len(s)
                         /\ \A i \in 1..Len(t) : Reverse(t)[i] = Reverse(s)[i]
  BY <1>1, PrefixEqual DEF IsSuffix, IsPrefix
<1>3. ASSUME Len(t) <= Len(s), \A i \in 1..Len(t) : Reverse(t)[i] = Reverse(s)[i],
             NEW i \in 1..Len(t)
      PROVE  s[Len(s) - Len(t) + i] = t[i]
  <2>1. Len(t) - i + 1 \in 1..Len(t) /\ Len(t) - i + 1 \in 1..Len(s)
    BY <1>1, <1>3
  <2>2. /\ Reverse(t)[Len(t) - i + 1] = t[Len(t) - (Len(t) - i + 1) + 1]
        /\ Reverse(s)[Len(t) - i + 1] = s[Len(s) - (Len(t) - i + 1) + 1]
    BY <2>1, ReverseEffect
  <2>3. /\ Len(t) - (Len(t) - i + 1) + 1 = i
        /\ Len(s) - (Len(t) - i + 1) + 1 = Len(s) - Len(t) + i
    BY <1>1
  <2> QED BY <1>3, <2>1, <2>2, <2>3
<1>4. ASSUME Len(t) <= Len(s), \A i \in 1..Len(t) : s[Len(s) - Len(t) + i] = t[i],
             NEW i \in 1..Len(t)
      PROVE  Reverse(t)[i] = Reverse(s)[i]
  <2>1. Len(t) - i + 1 \in 1..Len(t) /\ i \in 1..Len(s)
    BY <1>1, <1>4
  <2>2. s[Len(s) - Len(t) + (Len(t) - i + 1)] = t[Len(t) - i + 1]
    BY <1>4, <2>1
  <2>3. Len(s) - Len(t) + (Len(t) - i + 1) = Len(s) - i + 1
    BY <1>1
  <2> QED BY <2>1, <2>2, <2>3, ReverseEffect
<1> QED BY <1>2, <1>3, <1>4

\* What TrimSuffix cuts off is the suffix.
LEMMA TrimSuffixEffect ==
    ASSUME NEW s \in Strings, NEW t \in Strings
    PROVE  /\ TrimSuffix(s, t) \in Strings
           /\ \/ TrimSuffix(s, t) = s
              \/ /\ Len(t) <= Len(s) /\ TrimSuffix(s, t) = SubSeq(s, 1, Len(s) - Len(t))
                 /\ \A i \in 1..Len(t) : s[Len(s) - Len(t) + i] = t[i]
<1>1. CASE ~IsSuffix(t, s)
  BY <1>1 DEF TrimSuffix
<1>2. CASE IsSuffix(t, s)
  <2>1. Len(t) <= Len(s) /\ \A i \in 1..Len(t) : s[Len(s) - Len(t) + i] = t[i]
    BY <1>2, SuffixEffect
  <2>2. TrimSuffix(s, t) = SubSeq(s, 1, Len(s) - Len(t))
    BY <1>2 DEF TrimSuffix, Upto
  <2>3. SubSeq(s, 1, Len(s) - Len(t)) \in Strings
    BY <2>1 DEF Strings
  <2> QED BY <2>1, <2>2, <2>3
<1> QED BY <1>1, <1>2

LEMMA TrimEnding ==
    ASSUME NEW l \in Strings
    PROVE  TrimSuffix(l \o CRLF, CRLF) = l
<1> DEFINE s == l \o CRLF
<1>1. /\ s \in Strings /\ Len(s) = Len(l) + Len(CRLF) /\ Len(l) \in Nat
      /\ \A i \in 1..Len(l) : s[i] = l[i]
      /\ \A i \in 1..Len(CRLF) : s[Len(l) + i] = CRLF[i]
  <2>1. l \in Seq(Chars) /\ CRLF \in Seq(Chars)
    BY Endings DEF Strings
  <2> QED BY <2>1, ConcatParts DEF Strings
<1> HIDE DEF s
<1>2. Len(s) - Len(CRLF) = Len(l) /\ Len(CRLF) <= Len(s)
  BY <1>1, Endings
<1>3. IsSuffix(CRLF, s)
  <2>1. CRLF \in Strings
    BY Endings
  <2>2. \A i \in 1..Len(CRLF) : s[Len(s) - Len(CRLF) + i] = CRLF[i]
    BY <1>1, <1>2
  <2> QED BY <1>1, <1>2, <2>1, <2>2, SuffixEffect
<1>4. SubSeq(s, 1, Len(l)) = l
  <2>1. SubSeq(s, 1, Len(l)) = SubSeq(l, 1, Len(l))
    BY <1>1, <1>2, PrefixEqual, Endings
  <2> QED BY <2>1, SubSeqFull DEF Strings
<1> QED BY <1>2, <1>3, <1>4 DEF TrimSuffix, Upto, s

-----------------------------------------------------------------------------
(* Dot stuffing.                                                           *)

LEMMA Dot == <<".">> \in Strings /\ Len(<<".">>) = 1 /\ <<".">>[1] = "."
<1>1. "." \in Chars
  BY WireAssumption DEF WireAssumption
<1> QED BY <1>1 DEF Strings

\* A line is the terminator only if it begins with a dot that nothing but the ending follows.
LEMMA TerminatorForm ==
    ASSUME NEW l \in Strings, IsTerminator(l \o CRLF)
    PROVE  Len(l) > 0 /\ l[1] = "." /\ (Len(l) = 1 \/ (Len(l) = 2 /\ l[2] = LF))
<1>1. TrimSuffix(l, <<LF>>) = <<".">>
  BY TrimEnding DEF IsTerminator
<1>2. <<LF>> \in Strings /\ Len(<<LF>>) = 1 /\ <<LF>>[1] = LF /\ Len(l) \in Nat
  BY Endings DEF Strings
<1>3. CASE l = <<".">>
  BY <1>3, Dot
<1>4. CASE /\ 1 <= Len(l) /\ SubSeq(l, 1, Len(l) - 1) = <<".">>
           /\ \A i \in 1..1 : l[Len(l) - 1 + i] = <<LF>>[i]
  <2>1. Len(SubSeq(l, 1, Len(l) - 1)) = Len(l) - 1
    BY <1>2, <1>4 DEF Strings
  <2>2. Len(l) = 2
    <3>1. Len(<<".">>) = Len(l) - 1
      BY <1>4, <2>1
    <3> QED BY <1>2, <3>1, Dot
  <2>3. SubSeq(l, 1, Len(l) - 1)[1] = l[1]
    BY <2>2 DEF Strings
  <2>4. l[2] = LF
    BY <1>2, <1>4, <2>2
  <2>5. l[1] = "."
    BY <1>4, <2>3, Dot
  <2> QED BY <2>2, <2>4, <2>5
<1> QED BY <1>1, <1>2, <1>3, <1>4, TrimSuffixEffect

LEMMA DotTerminates == IsTerminator(<<".">> \o CRLF)
<1>1. TrimSuffix(<<".">> \o CRLF, CRLF) = <<".">>
  BY TrimEnding, Dot
<1>2. <<LF>> \in Strings /\ Len(<<LF>>) = 1 /\ <<LF>>[1] = LF /\ LF # "."
  BY Endings DEF Strings
<1>3. ~(\A i \in 1..Len(<<LF>>) : <<".">>[Len(<<".">>) - Len(<<LF>>) + i] = <<LF>>[i])
  BY <1>2, Dot
<1>4. TrimSuffix(<<".">>, <<LF>>) = <<".">>
  BY <1>2, <1>3, Dot, TrimSuffixEffect
<1> QED BY <1>1, <1>4 DEF IsTerminator

\* A stuffed line never reads as the terminator, and reads as the line.
LEMMA StuffedLine ==
    ASSUME NEW l \in Strings
    PROVE  /\ StuffLine(l) \in Strings
           /\ StuffLine(l) = <<>> <=> l = <<>>
           /\ StuffLine(l) \o CRLF \in Strings
           /\ ~IsTerminator(StuffLine(l) \o CRLF)
           /\ UnstuffLine(StuffLine(l) \o CRLF) = l \o CRLF
           /\ Len(StuffLine(l) \o CRLF) = SentLength(l)
           /\ l \o CRLF \in Strings
<1>1. Len(l) \in Nat /\ (l = <<>> <=> Len(l) = 0)
  BY DEF Strings
<1>2. l \o CRLF \in Strings /\ Len(l \o CRLF) = Len(l) + 2
      /\ (\A i \in 1..Len(l) : (l \o CRLF)[i] = l[i])
      /\ (\A i \in 1..2 : (l \o CRLF)[Len(l) + i] = CRLF[i])
  <2>1. l \in Seq(Chars) /\ CRLF \in Seq(Chars) /\ Len(CRLF) = 2
    BY Endings DEF Strings
  <2> QED BY <2>1, ConcatParts DEF Strings
<1>3. CASE HasPrefix(l, ".")
  <2> DEFINE s == <<".">> \o l
  <2>1. StuffLine(l) = s
    BY <1>3 DEF StuffLine
  <2>2. Len(l) > 0 /\ l[1] = "."
    BY <1>1, <1>3 DEF HasPrefix, Strings
  <2>3. s \in Strings /\ Len(s) = Len(l) + 1 /\ s[1] = "." /\ s[2] = "."
    <3>1. <<".">> \in Seq(Chars) /\ l \in Seq(Chars) /\ Len(<<".">>) = 1 /\ <<".">>[1] = "."
      BY Dot DEF Strings
    <3>2. s \in Seq(Chars) /\ Len(s) = 1 + Len(l)
          /\ (\A i \in 1..1 : s[i] = <<".">>[i]) /\ (\A i \in 1..Len(l) : s[1 + i] = l[i])
      BY <3>1, ConcatParts
    <3> HIDE DEF s
    <3> QED BY <1>1, <2>2, <3>1, <3>2 DEF Strings
  <2>4. s \o CRLF \in Strings /\ Len(s \o CRLF) = Len(l) + 3
    <3>1. s \in Seq(Chars) /\ CRLF \in Seq(Chars) /\ Len(CRLF) = 2
      BY <2>3, Endings DEF Strings
    <3> HIDE DEF s
    <3>2. s \o CRLF \in Seq(Chars) /\ Len(s \o CRLF) = Len(s) + Len(CRLF)
      BY <3>1, ConcatProperties
    <3> QED BY <1>1, <2>3, <3>1, <3>2 DEF Strings
  <2>5. ~IsTerminator(s \o CRLF)
    <3> HIDE DEF s
    <3> QED BY <2>2, <2>3, TerminatorForm, Endings, <1>1
  <2>6. s \o CRLF = <<".">> \o (l \o CRLF)
    BY Dot, Endings, ConcatAssociative DEF Strings
  <2>7. HasPrefix(s \o CRLF, ".") /\ Tail(s \o CRLF) = l \o CRLF
    <3>1. ASSUME NEW t \in Strings
          PROVE  HasPrefix(<<".">> \o t, ".") /\ Tail(<<".">> \o t) = t
      BY Dot DEF HasPrefix, Strings
    <3> QED BY <1>2, <2>6, <3>1
  <2> HIDE DEF s
  <2> QED BY <1>1, <1>2, <1>3, <2>1, <2>2, <2>3, <2>4, <2>5, <2>7 DEF UnstuffLine, SentLength, Strings
<1>4. CASE ~HasPrefix(l, ".")
  <2>1. StuffLine(l) = l /\ (Len(l) > 0 => l[1] # ".")
    BY <1>1, <1>4 DEF StuffLine, HasPrefix, Strings
  <2>2. ~IsTerminator(l \o CRLF)
    BY <2>1, TerminatorForm
  <2>3. ~HasPrefix(l \o CRLF, ".")
    <3>1. (l \o CRLF)[1] # "."
      <4>1. CASE Len(l) = 0
        BY <1>2, <4>1, Endings
      <4>2. CASE Len(l) > 0
        BY <1>1, <1>2, <2>1, <4>2
      <4>3. Len(l) = 0 \/ Len(l) > 0
        BY <1>1
      <4> QED BY <4>1, <4>2, <4>3
    <3> QED BY <1>2, <3>1 DEF HasPrefix, Strings
  <2> QED BY <1>2, <1>4, <2>1, <2>2, <2>3 DEF UnstuffLine, SentLength
<1> QED BY <1>3, <1>4

-----------------------------------------------------------------------------
(* Joining lines.                                                          *)

\* The recursive definition of Joined has a solution: one up to each number of lines.
LEMMA JoinedDef ==
    ASSUME NEW lines \in Seq(Strings)
    PROVE  Joined(lines) =
             [k \in 0..Len(lines) |->
                IF k = 0 THEN <<>> ELSE Joined(lines)[k - 1] \o lines[k] \o CRLF]
<1> DEFINE Next1(g, k) == IF k = 0 THEN <<>> ELSE g[k - 1] \o lines[k] \o CRLF
           Solves(g, n) == g = [k \in 0..n |-> Next1(g, k)]
           Solvable(n) == \E g : Solves(g, n)
           Bad == {n \in 0..Len(lines) : ~Solvable(n)}
<1> HIDE DEF Solvable
<1>1. Len(lines) \in Nat
  OBVIOUS
<1>2. Bad = {}
  <2> SUFFICES ASSUME Bad # {} PROVE FALSE
    OBVIOUS
  <2>1. PICK m \in Bad : \A n \in Bad : m <= n
    <3>1. Bad \in SUBSET Nat
      BY <1>1
    <3> HIDE DEF Bad
    <3> QED BY <3>1, LeastNumber
  <2>2. CASE m = 0
    <3> DEFINE g == [k \in 0..0 |-> <<>>]
    <3>1. Solves(g, 0)
      OBVIOUS
    <3>2. Solvable(0)
      BY <3>1 DEF Solvable
    <3> QED BY <2>1, <2>2, <3>2
  <2>3. CASE m # 0
    <3>1. m - 1 \in 0..Len(lines) /\ m - 1 \notin Bad /\ m \in Nat /\ m >= 1
      BY <1>1, <2>1, <2>3
    <3>2. PICK g : Solves(g, m - 1)
      BY <3>1 DEF Solvable
    <3> DEFINE h == [k \in 0..m |-> Next1(g, k)]
    <3>3. \A k \in 0..(m - 1) : g[k] = Next1(g, k)
      BY <3>2
    <3>4. \A k \in 0..m : h[k] = Next1(g, k)
      OBVIOUS
    <3>5. \A k \in 0..(m - 1) : h[k] = g[k]
      <4> HIDE DEF h, Next1
      <4> QED BY <3>1, <3>3, <3>4
    <3>6. \A k \in 0..m : Next1(h, k) = Next1(g, k)
      <4> HIDE DEF h
      <4>1. \A k \in 0..m : k # 0 => h[k - 1] = g[k - 1]
        BY <3>1, <3>5
      <4> QED BY <4>1
    <3>7. h = [k \in 0..m |-> Next1(h, k)]
      <4>1. [k \in 0..m |-> Next1(g, k)] = [k \in 0..m |-> Next1(h, k)]
        <5> HIDE DEF h, Next1
        <5> QED BY <3>6
      <4> QED BY <4>1
    <3>8. Solvable(m)
      BY <3>7 DEF Solvable
    <3> QED BY <2>1, <3>8
  <2> QED BY <2>2, <2>3
<1>3. \E g : Solves(g, Len(lines))
  <2>1. Solvable(Len(lines))
    BY <1>1, <1>2
  <2> QED BY <2>1 DEF Solvable
<1> QED BY <1>3 DEF Joined

LEMMA JoinedStep ==
    ASSUME NEW lines \in Seq(Strings)
    PROVE  /\ Joined(lines)[0] = <<>>
           /\ \A k \in 1..Len(lines) :
                Joined(lines)[k] = Joined(lines)[k - 1] \o lines[k] \o CRLF
<1> DEFINE J == Joined(lines)
<1>1. J = [k \in 0..Len(lines) |-> IF k = 0 THEN <<>> ELSE J[k - 1] \o lines[k] \o CRLF]
  BY JoinedDef
<1>2. Len(lines) \in Nat
  OBVIOUS
<1> HIDE DEF J
<1>3. J[0] = <<>>
  BY <1>1, <1>2
<1>4. ASSUME NEW k \in 1..Len(lines) PROVE J[k] = J[k - 1] \o lines[k] \o CRLF
  <2>1. k \in 0..Len(lines) /\ k # 0
    BY <1>2
  <2> QED BY <1>1, <2>1
<1> QED BY <1>3, <1>4 DEF J

\* Lines joined make up a text, and every line adds its length and that of its ending.
LEMMA JoinedType ==
    ASSUME NEW lines \in Seq(Strings)
    PROVE  /\ \A k \in 0..Len(lines) : Joined(lines)[k] \in Strings
           /\ \A k \in 1..Len(lines) :
                Len(Joined(lines)[k]) = Len(Joined(lines)[k - 1]) + Len(lines[k]) + 2
<1> DEFINE J == Joined(lines)
           Bad == {k \in 0..Len(lines) : J[k] \notin Strings}
<1>1. J[0] = <<>> /\ \A k \in 1..Len(lines) : J[k] = J[k - 1] \o lines[k] \o CRLF
  BY JoinedStep
<1>2. Len(lines) \in Nat /\ \A k \in 1..Len(lines) : lines[k] \in Strings
  OBVIOUS
<1>3. ASSUME NEW k \in 1..Len(lines), J[k - 1] \in Strings
      PROVE  J[k] \in Strings /\ Len(J[k]) = Len(J[k - 1]) + Len(lines[k]) + 2
  <2>1. ASSUME NEW a \in Strings, NEW b \in Strings
        PROVE  a \o b \o CRLF \in Strings /\ Len(a \o b \o CRLF) = Len(a) + Len(b) + 2
    <3>1. a \o b \in Strings /\ Len(a \o b) = Len(a) + Len(b)
      BY ConcatProperties DEF Strings
    <3>2. /\ (a \o b) \o CRLF \in Strings
          /\ Len((a \o b) \o CRLF) = Len(a \o b) + Len(CRLF)
      BY <3>1, Endings, ConcatProperties DEF Strings
    <3> QED BY <3>1, <3>2, Endings
  <2> HIDE DEF J
  <2> QED BY <1>1, <1>2, <1>3, <2>1
<1>4. Bad = {}
  <2> SUFFICES ASSUME Bad # {} PROVE FALSE
    OBVIOUS
  <2> HIDE DEF J
  <2>1. PICK m \in Bad : \A n \in Bad : m <= n
    <3>1. Bad \in SUBSET Nat
      BY <1>2
    <3> HIDE DEF Bad
    <3> QED BY <3>1, LeastNumber
  <2>2. m # 0
    <3>1. <<>> \in Strings
      BY DEF Strings
    <3> QED BY <1>1, <2>1, <3>1
  <2>3. m - 1 \in 0..Len(lines) /\ m \in 1..Len(lines) /\ ~(m <= m - 1)
    BY <1>2, <2>1, <2>2
  <2>4. J[m - 1] \in Strings
    BY <2>1, <2>3
  <2> QED BY <1>3, <2>1, <2>3, <2>4
<1> HIDE DEF J
<1>5. \A k \in 0..Len(lines) : J[k] \in Strings
  BY <1>4
<1>6. ASSUME NEW k \in 1..Len(lines) PROVE Len(J[k]) = Len(J[k - 1]) + Len(lines[k]) + 2
  <2>1. k - 1 \in 0..Len(lines)
    BY <1>2
  <2> QED BY <1>3, <1>5, <2>1
<1> QED BY <1>5, <1>6 DEF J

LEMMA JoinedGrows ==
    ASSUME NEW lines \in Seq(Strings), NEW i \in 0..Len(lines), NEW j \in i..Len(lines)
    PROVE  Len(Joined(lines)[i]) <= Len(Joined(lines)[j])
<1> DEFINE L(k) == Len(Joined(lines)[k])
           Bad == {k \in i..Len(lines) : ~(L(i) <= L(k))}
<1>1. Len(lines) \in Nat
  OBVIOUS
<1>2. /\ \A k \in 0..Len(lines) : L(k) \in Nat
      /\ \A k \in 1..Len(lines) : L(k) = L(k - 1) + Len(lines[k]) + 2
      /\ \A k \in 1..Len(lines) : Len(lines[k]) \in Nat
  <2>1. \A s \in Strings : Len(s) \in Nat
    BY DEF Strings
  <2>2. \A k \in 1..Len(lines) : lines[k] \in Strings
    OBVIOUS
  <2> QED BY <2>1, <2>2, JoinedType
<1> HIDE DEF L
<1>3. Bad = {}
  <2> SUFFICES ASSUME Bad # {} PROVE FALSE
    OBVIOUS
  <2>1. PICK m \in Bad : \A n \in Bad : m <= n
    <3>1. Bad \in SUBSET Nat
      BY <1>1
    <3> HIDE DEF Bad
    <3> QED BY <3>1, LeastNumber
  <2>2. m # i
    BY <1>2, <2>1
  <2>3. m - 1 \in i..Len(lines) /\ m \in 1..Len(lines) /\ ~(m <= m - 1)
        /\ m - 1 \in 0..Len(lines)
    BY <1>1, <2>1, <2>2
  <2>4. L(i) <= L(m - 1)
    BY <2>1, <2>3
  <2>5. L(m) = L(m - 1) + Len(lines[m]) + 2 /\ Len(lines[m]) \in Nat
        /\ L(i) \in Nat /\ L(m - 1) \in Nat /\ L(m) \in Nat
    BY <1>2, <2>3
  <2> QED BY <2>1, <2>4, <2>5
<1> QED BY <1>3 DEF L

-----------------------------------------------------------------------------
(* What SendData sends.                                                    *)

LEMMA LinesType ==
    ASSUME NEW data \in Strings
    PROVE  PlainLines(data) \in Seq(Strings)
<1> DEFINE parts == Split(data, LF)
           lines == [i \in DOMAIN parts |-> TrimSuffix(parts[i], <<CR>>)]
<1>1. parts \in Seq(Strings) /\ Len(parts) > 0
  BY SplitType
<1> HIDE DEF parts
<1>2. lines \in Seq(Strings) /\ Len(lines) = Len(parts)
  <2>1. \A i \in 1..Len(parts) : TrimSuffix(parts[i], <<CR>>) \in Strings
    BY <1>1, TrimSuffixEffect, Endings
  <2> QED BY <1>1, <2>1
<1> HIDE DEF lines
<1>3. Front(lines) \in Seq(Strings)
  BY <1>2 DEF Front
<1>4. PlainLines(data) = IF Last(lines) = <<>> THEN Front(lines) ELSE lines
  BY DEF PlainLines, lines, parts
<1> QED BY <1>2, <1>3, <1>4

\* The lines of the text, stuffed and ended; the terminator; the command that follows.
LEMMA Sent ==
    ASSUME NEW data \in Strings
    PROVE  LET lines == PlainLines(data)
               sent  == SendData(data) \o <<NextCommand>>
           IN  /\ sent \in Seq(Strings) /\ Len(sent) = Len(lines) + 2
               /\ \A i \in 1..Len(lines) : sent[i] = StuffLine(lines[i]) \o CRLF
               /\ sent[Len(lines) + 1] = <<".">> \o CRLF
               /\ sent[Len(lines) + 2] = NextCommand
<1> DEFINE parts == Split(data, LF)
           plain == [i \in DOMAIN parts |-> TrimSuffix(parts[i], <<CR>>)]
           stuffed == [i \in DOMAIN parts |-> StuffLine(TrimSuffix(parts[i], <<CR>>))]
           body == IF Last(stuffed) = <<>> THEN Front(stuffed) ELSE stuffed
           ended == [i \in DOMAIN body |-> body[i] \o CRLF]
           lines == PlainLines(data)
<1>1. parts \in Seq(Strings) /\ Len(parts) \in Nat /\ Len(parts) > 0
  BY SplitType
<1>2. SendData(data) = ended \o <<<<".">> \o CRLF>>
  BY DEF SendData
<1>3. lines = IF Last(plain) = <<>> THEN Front(plain) ELSE plain
  BY DEF PlainLines
<1> HIDE DEF parts, lines
<1>4. \A i \in 1..Len(parts) : TrimSuffix(parts[i], <<CR>>) \in Strings
  BY <1>1, TrimSuffixEffect, Endings
<1>5. /\ plain \in Seq(Strings) /\ Len(plain) = Len(parts)
      /\ stuffed \in Seq(Strings) /\ Len(stuffed) = Len(parts)
      /\ \A i \in 1..Len(parts) : stuffed[i] = StuffLine(plain[i])
  <2>1. \A i \in 1..Len(parts) : StuffLine(TrimSuffix(parts[i], <<CR>>)) \in Strings
    BY <1>4, StuffedLine
  <2>2. plain \in [1..Len(parts) -> Strings] /\ stuffed \in [1..Len(parts) -> Strings]
    BY <1>1, <1>4, <2>1
  <2>3. \A i \in 1..Len(parts) : stuffed[i] = StuffLine(plain[i])
    BY <1>1
  <2> HIDE DEF plain, stuffed
  <2> QED BY <1>1, <2>2, <2>3, FunctionIsSeq
<1> HIDE DEF plain, stuffed
<1>6. Last(stuffed) = <<>> <=> Last(plain) = <<>>
  <2>1. Len(parts) \in 1..Len(parts) /\ plain[Len(parts)] \in Strings
    BY <1>1, <1>5
  <2>2. Last(stuffed) = StuffLine(Last(plain)) /\ Last(plain) \in Strings
    BY <1>5, <2>1 DEF Last
  <2> QED BY <2>2, StuffedLine
<1>7. /\ lines \in Seq(Strings) /\ body \in Seq(Strings) /\ Len(body) = Len(lines)
      /\ \A i \in 1..Len(lines) : body[i] = StuffLine(lines[i])
  <2>1. CASE Last(plain) = <<>>
    <3>1. lines = SubSeq(plain, 1, Len(parts) - 1) /\ body = SubSeq(stuffed, 1, Len(parts) - 1)
      BY <1>3, <1>5, <1>6, <2>1 DEF Front
    <3> HIDE DEF body
    <3>2. /\ lines \in Seq(Strings) /\ Len(lines) = Len(parts) - 1
          /\ \A i \in 1..(Len(parts) - 1) : lines[i] = plain[i]
      BY <1>1, <1>5, <3>1
    <3>3. /\ body \in Seq(Strings) /\ Len(body) = Len(parts) - 1
          /\ \A i \in 1..(Len(parts) - 1) : body[i] = stuffed[i]
      BY <1>1, <1>5, <3>1
    <3> QED BY <1>1, <1>5, <3>2, <3>3
  <2>2. CASE Last(plain) # <<>>
    BY <1>3, <1>5, <1>6, <2>2
  <2> QED BY <2>1, <2>2
<1> HIDE DEF body
<1>8. /\ ended \in Seq(Strings) /\ Len(ended) = Len(lines)
      /\ \A i \in 1..Len(lines) : ended[i] = StuffLine(lines[i]) \o CRLF
  <2>1. \A i \in 1..Len(lines) : StuffLine(lines[i]) \o CRLF \in Strings
    BY <1>7, StuffedLine
  <2>2. ended = [i \in 1..Len(lines) |-> StuffLine(lines[i]) \o CRLF]
    BY <1>7
  <2>3. Len(lines) \in Nat
    BY <1>7
  <2> HIDE DEF ended
  <2>4. ended \in [1..Len(lines) -> Strings]
    BY <2>1, <2>2
  <2> QED BY <2>2, <2>3, <2>4, FunctionIsSeq
<1> HIDE DEF ended
<1> DEFINE dot == <<".">> \o CRLF
<1>9. dot \in Strings /\ NextCommand \in Strings
  <2>1. <<"RSET">> \in Strings
    <3>1. "RSET" \in Chars
      BY WireAssumption DEF WireAssumption
    <3> QED BY <3>1 DEF Strings
  <2> QED BY <2>1, Dot, Endings, ConcatProperties DEF Strings, NextCommand
<1> HIDE DEF dot
<1>10. /\ SendData(data) \in Seq(Strings) /\ Len(SendData(data)) = Len(lines) + 1
       /\ \A i \in 1..Len(lines) : SendData(data)[i] = StuffLine(lines[i]) \o CRLF
       /\ SendData(data)[Len(lines) + 1] = dot
  <2>1. SendData(data) = ended \o <<dot>>
    BY <1>2 DEF dot
  <2>2. /\ ended \o <<dot>> \in Seq(Strings) /\ Len(ended \o <<dot>>) = Len(ended) + 1
        /\ \A i \in 1..Len(ended) : (ended \o <<dot>>)[i] = ended[i]
        /\ (ended \o <<dot>>)[Len(ended) + 1] = dot
    BY <1>8, <1>9, ConcatOne
  <2> QED BY <1>8, <2>1, <2>2
<1>11. LET sent  == SendData(data) \o <<NextCommand>>
       IN  /\ sent \in Seq(Strings) /\ Len(sent) = Len(lines) + 2
           /\ \A i \in 1..Len(lines) : sent[i] = StuffLine(lines[i]) \o CRLF
           /\ sent[Len(lines) + 1] = dot
           /\ sent[Len(lines) + 2] = NextCommand
  <2>1. Len(lines) \in Nat
    BY <1>7
  <2> QED BY <1>9, <1>10, <2>1, ConcatOne
<1> QED BY <1>11 DEF lines, dot

-----------------------------------------------------------------------------
(* Reception of the data.                                                  *)

\* Until the terminator is read there is always a line to come.
LEMMA NothingYet ==
    ASSUME TextOK, DataInv, incoming = <<>>, outcome = "none"
    PROVE  stored = <<>>
<1> DEFINE lines == PlainLines(text)
           sent == SendData(text) \o <<NextCommand>>
<1>1. text \in Strings
  BY DEF TextOK, Strings
<1>2. lines \in Seq(Strings) /\ sent \in Seq(Strings) /\ Len(sent) = Len(lines) + 2
  BY <1>1, LinesType, Sent
<1> HIDE DEF lines, sent
<1>3. ASSUME NEW r \in 0..Len(lines), incoming = From(sent, r + 1) PROVE FALSE
  <2>1. Len(SubSeq(sent, r + 1, Len(sent))) = Len(lines) + 2 - r
    BY <1>2
  <2>2. Len(incoming) = Len(lines) + 2 - r
    BY <1>3, <2>1 DEF From
  <2>3. Len(incoming) = 0 /\ Len(lines) \in Nat
    BY <1>2
  <2> QED BY <2>2, <2>3
<1> QED BY <1>3 DEF DataInv, HasRead, lines, sent

LEMMA TransmitStep ==
    ASSUME TextOK, DataInv, kind = "data", Transmit(text), UNCHANGED <<kind, text>>
    PROVE  TextOK' /\ DataInv'
<1> DEFINE lines == PlainLines(text)
           sent == SendData(text) \o <<NextCommand>>
<1>1. text \in Strings
  BY DEF TextOK, Strings
<1>2. lines \in Seq(Strings) /\ sent \in Seq(Strings) /\ Len(sent) = Len(lines) + 2
  BY <1>1, LinesType, Sent
<1> HIDE DEF lines, sent
<1>3. /\ incoming = <<>> /\ outcome = "none" /\ incoming' = sent /\ UNCHANGED <<stored, outcome>>
      /\ MaxLineLength' \in Nat /\ MaxMessageSize' \in Nat
  BY DataAssumption DEF Transmit, DataAssumption, sent
<1>4. TextOK'
  BY <1>3 DEF TextOK
<1>5. stored = <<>>
  BY <1>3, NothingYet
<1>6. From(sent, 1) = sent
  BY <1>2, SubSeqFull DEF From
<1>7. Joined(lines)[0] = <<>> /\ Len(<<>>) = 0
  BY <1>2, JoinedStep
<1>8. HasRead(0)'
  <2>1. CheckMessageSize(Len(stored))'
    BY <1>3, <1>5, <1>7 DEF CheckMessageSize
  <2>2. stored' = Joined(PlainLines(text'))[0] /\ outcome' = "none"
        /\ incoming' = From(SendData(text') \o <<NextCommand>>, 0 + 1)
    BY <1>3, <1>5, <1>6, <1>7 DEF lines, sent
  <2> QED BY <2>1, <2>2 DEF HasRead
<1>9. 0 \in 0..Len(PlainLines(text'))
  BY <1>2 DEF lines
<1> QED BY <1>4, <1>8, <1>9 DEF DataInv

\* One round of streamData: it takes the next line of the text, or the terminator.
LEMMA StreamStep ==
    ASSUME TextOK, DataInv, kind = "data", StreamLine, UNCHANGED <<kind, text>>
    PROVE  TextOK' /\ DataInv'
<1> DEFINE lines == PlainLines(text)
           sent == SendData(text) \o <<NextCommand>>
           J == Joined(lines)
<1>1. text \in Strings /\ MaxLineLength \in Nat /\ MaxMessageSize \in Nat
  BY DEF TextOK, Strings
<1>2. /\ lines \in Seq(Strings) /\ Len(lines) \in Nat
      /\ sent \in Seq(Strings) /\ Len(sent) = Len(lines) + 2
      /\ \A i \in 1..Len(lines) : sent[i] = StuffLine(lines[i]) \o CRLF
      /\ sent[Len(lines) + 1] = <<".">> \o CRLF
      /\ sent[Len(lines) + 2] = NextCommand
  <2>1. lines \in Seq(Strings)
    BY <1>1, LinesType
  <2>2. Len(lines) \in Nat
    BY <2>1
  <2> QED BY <1>1, <2>1, <2>2, Sent
<1>3. /\ \A k \in 0..Len(lines) : J[k] \in Strings
      /\ \A k \in 1..Len(lines) : J[k] = J[k - 1] \o lines[k] \o CRLF
      /\ \A k \in 1..Len(lines) : Len(J[k]) = Len(J[k - 1]) + Len(lines[k]) + 2
  BY <1>2, JoinedStep, JoinedType
<1>4. UNCHANGED <<MaxLineLength, MaxMessageSize>> /\ incoming # <<>> /\ outcome = "none"
  BY DEF StreamLine, limits
<1>5. TextOK'
  BY <1>4 DEF TextOK
<1>6. PICK r \in 0..Len(lines) : HasRead(r)
  BY <1>4 DEF DataInv
<1> HIDE DEF lines, sent, J
<1>7. /\ stored = J[r] /\ incoming = From(sent, r + 1) /\ CheckMessageSize(Len(stored))
      /\ \A i \in 1..r : CheckLineLength(SentLength(lines[i]))
  BY <1>4, <1>6 DEF HasRead, lines, sent, J
<1>8. Head(incoming) = sent[r + 1] /\ Tail(incoming) = From(sent, r + 2)
  <2>1. r + 1 \in 1..Len(sent) /\ Len(sent) \in (r + 1)..Len(sent) /\ (r + 1) + 1 = r + 2
    BY <1>2
  <2>2. /\ Head(SubSeq(sent, r + 1, Len(sent))) = sent[r + 1]
        /\ Tail(SubSeq(sent, r + 1, Len(sent))) = SubSeq(sent, (r + 1) + 1, Len(sent))
    BY <1>2, <2>1, HeadTailOfSubSeq
  <2> QED BY <1>7, <2>1, <2>2 DEF From
<1>9. PlainLines(text') = lines /\ Joined(PlainLines(text')) = J
      /\ SendData(text') \o <<NextCommand>> = sent
  BY DEF lines, sent, J
<1>10. CASE r = Len(lines)
  <2>1. IsTerminator(Head(incoming))
    BY <1>2, <1>8, <1>10, DotTerminates
  <2>2. outcome' = "ok" /\ stored' = stored /\ incoming' = From(sent, r + 2)
    BY <1>8, <2>1 DEF StreamLine
  <2>3. From(sent, r + 2) = <<NextCommand>>
    <3>1. From(sent, r + 2) = SubSeq(sent, Len(lines) + 2, Len(lines) + 2)
      BY <1>2, <1>10 DEF From
    <3>2. Len(lines) + 2 \in 1..Len(sent)
      BY <1>2
    <3> QED BY <1>2, <3>1, <3>2, SubSeqOne
  <2>4. HasRead(r)'
    BY <1>4, <1>7, <1>9, <1>10, <2>2, <2>3 DEF HasRead, CheckLineLength, CheckMessageSize
  <2> QED BY <1>5, <1>9, <2>4 DEF DataInv
<1>11. CASE r # Len(lines)
  <2> DEFINE line == StuffLine(lines[r + 1]) \o CRLF
  <2>1. r + 1 \in 1..Len(lines) /\ lines[r + 1] \in Strings /\ r < Len(lines) /\ (r + 1) - 1 = r
    BY <1>2, <1>11
  <2>2. /\ ~IsTerminator(line) /\ Len(line) = SentLength(lines[r + 1])
        /\ UnstuffLine(line) = lines[r + 1] \o CRLF
    BY <2>1, StuffedLine
  <2>3. Head(incoming) = line
    BY <1>2, <1>8, <2>1
  <2>4. /\ stored \o UnstuffLine(line) = J[r + 1]
        /\ Len(stored) + Len(UnstuffLine(line)) = Len(J[r + 1])
    <3>1. J[r] \in Strings
      BY <1>3
    <3>2. (J[r] \o lines[r + 1]) \o CRLF = J[r] \o (lines[r + 1] \o CRLF)
      <4>1. \A a, b, c \in Strings : (a \o b) \o c = a \o (b \o c)
        BY ConcatAssociative DEF Strings
      <4> QED BY <2>1, <3>1, <4>1, Endings
    <3>3. J[r + 1] = J[r] \o (lines[r + 1] \o CRLF)
      BY <1>3, <2>1, <3>2
    <3>4. Len(J[r] \o (lines[r + 1] \o CRLF)) = Len(J[r]) + Len(lines[r + 1] \o CRLF)
      BY <2>1, <3>1, StuffedLine, ConcatProperties DEF Strings
    <3> QED BY <1>7, <2>2, <3>3, <3>4
  <2> HIDE DEF line
  <2>5. Len(line) \in Nat /\ Len(J[r + 1]) \in Nat
    <3>1. J[r + 1] \in Strings /\ line \in Strings
      BY <1>3, <2>1, StuffedLine DEF line
    <3> QED BY <3>1 DEF Strings
  <2>6. /\ TooLong(line) <=> ~CheckLineLength(SentLength(lines[r + 1]))
        /\ TooLarge(line) <=> ~CheckMessageSize(Len(J[r + 1]))
    BY <1>1, <2>2, <2>4, <2>5 DEF TooLong, TooLarge, CheckLineLength, CheckMessageSize
  <2>7. CASE TooLong(line)
    <3>1. outcome' = "ErrLineTooLong" /\ stored' = stored
      BY <2>2, <2>3, <2>7 DEF StreamLine
    <3>2. HasRead(r)'
      BY <1>4, <1>7, <1>9, <2>1, <2>6, <2>7, <3>1 DEF HasRead, CheckLineLength, CheckMessageSize
    <3> QED BY <1>5, <1>9, <3>2 DEF DataInv
  <2>8. CASE ~TooLong(line) /\ TooLarge(line)
    <3>1. outcome' = "ErrMessageTooLarge" /\ stored' = stored
      BY <2>2, <2>3, <2>8 DEF StreamLine
    <3>2. HasRead(r)'
      BY <1>4, <1>7, <1>9, <2>1, <2>6, <2>8, <3>1 DEF HasRead, CheckLineLength, CheckMessageSize
    <3> QED BY <1>5, <1>9, <3>2 DEF DataInv
  <2>9. CASE ~TooLong(line) /\ ~TooLarge(line)
    <3>1. outcome' = "none" /\ stored' = J[r + 1] /\ incoming' = From(sent, r + 2)
      BY <1>4, <1>8, <2>2, <2>3, <2>4, <2>9 DEF StreamLine
    <3>2. \A i \in 1..(r + 1) : CheckLineLength(SentLength(lines[i]))
      BY <1>7, <2>6, <2>9
    <3>3. HasRead(r + 1)'
      <4>1. (r + 1) + 1 = r + 2
        OBVIOUS
      <4> QED BY <1>4, <1>9, <2>6, <2>9, <3>1, <3>2, <4>1
              DEF HasRead, CheckLineLength, CheckMessageSize
    <3>4. r + 1 \in 0..Len(PlainLines(text'))
      BY <1>9, <2>1
    <3> QED BY <1>5, <3>3, <3>4 DEF DataInv
  <2> QED BY <2>7, <2>8, <2>9
<1> QED BY <1>10, <1>11

-----------------------------------------------------------------------------
(* Replies.                                                                *)

LEMMA NotDigits == CR \notin Digits /\ LF \notin Digits /\ "-" \notin Digits /\ " " \notin Digits
                   /\ CR # "-" /\ LF # "-" /\ Digits \subseteq Chars
<1>1. CR \notin Digits /\ LF \notin Digits /\ CR # "-" /\ LF # "-"
  BY DEF CR, LF, Digits
<1>2. "-" \notin Digits /\ " " \notin Digits
  BY DEF Digits
<1> QED BY <1>1, <1>2, WireAssumption DEF WireAssumption

\* A line that begins with a code and a separator goes on doing so when text is added.
Begins(line, code, sep) ==
    /\ line \in Strings /\ Len(line) >= 4
    /\ line[1] = code[1] /\ line[2] = code[2] /\ line[3] = code[3] /\ line[4] = sep

LEMMA BeginsOn ==
    ASSUME NEW line, NEW code, NEW sep, Begins(line, code, sep), NEW t \in Strings
    PROVE  Begins(line \o t, code, sep)
<1>1. line \in Seq(Chars) /\ t \in Seq(Chars) /\ Len(line) >= 4
  BY DEF Begins, Strings
<1>2. /\ line \o t \in Seq(Chars) /\ Len(line \o t) = Len(line) + Len(t)
      /\ Len(line) \in Nat /\ Len(t) \in Nat
      /\ \A i \in 1..Len(line) : (line \o t)[i] = line[i]
  BY <1>1, ConcatParts
<1>3. 1 \in 1..Len(line) /\ 2 \in 1..Len(line) /\ 3 \in 1..Len(line) /\ 4 \in 1..Len(line)
  BY <1>1, <1>2
<1> QED BY <1>1, <1>2, <1>3 DEF Begins, Strings

LEMMA BeginsFirst ==
    ASSUME NEW code \in [1..3 -> Chars], NEW sep \in Chars
    PROVE  Begins(code \o <<sep>>, code, sep)
<1> DEFINE line == code \o <<sep>>
<1>1. code \in Seq(Chars)
  BY FunctionIsSeq
<1>2. Len(code) = 3
  BY FunctionIsSeq
<1>3. /\ line \in Seq(Chars) /\ Len(line) = Len(code) + 1
      /\ \A i \in 1..Len(code) : line[i] = code[i]
      /\ line[Len(code) + 1] = sep
  BY <1>1, ConcatOne
<1> HIDE DEF line
<1>4. 1 \in 1..Len(code) /\ 2 \in 1..Len(code) /\ 3 \in 1..Len(code) /\ Len(code) + 1 = 4
  BY <1>2
<1>5. Begins(line, code, sep)
  BY <1>2, <1>3, <1>4 DEF Begins, Strings
<1> QED BY <1>5 DEF line

\* readResponse goes by the fourth character of such a line.
LEMMA BeginsLast ==
    ASSUME NEW line, NEW code, Begins(line, code, " ")
    PROVE  IsLast(line)
BY DEF Begins, IsLast

LEMMA BeginsOther ==
    ASSUME NEW line, NEW code, Begins(line, code, "-")
    PROVE  ~IsLast(line)
<1>1. line[4] = "-" /\ Len(line) >= 4 /\ Len(line) \in Nat
  BY DEF Begins, Strings
<1>2. Contains(line, "-")
  <2>1. 4 \in 1..Len(line)
    BY <1>1
  <2> QED BY <1>1, <2>1 DEF Contains
<1> QED BY <1>1, <1>2 DEF IsLast

\* The leading digits of a line are the code if the code is what it begins with.
LEMMA CodeRead ==
    ASSUME NEW line \in Seq(Chars), NEW code \in Seq(Chars),
           Len(code) \in 0..3, Len(code) <= Len(line),
           \A i \in 1..Len(code) : line[i] = code[i] /\ code[i] \in Digits,
           Len(code) < 3 => line[Len(code) + 1] \notin Digits
    PROVE  Upto(line, Max({n \in 0..3 : \A i \in 1..n : line[i] \in Digits})) = code
<1> DEFINE S == {n \in 0..3 : \A i \in 1..n : line[i] \in Digits}
<1>1. Len(code) \in Nat
  OBVIOUS
<1>2. Len(code) \in S
  OBVIOUS
<1>3. ASSUME NEW n \in S PROVE n <= Len(code)
  <2> SUFFICES ASSUME n > Len(code) PROVE FALSE
    BY <1>1
  <2>1. n \in 0..3 /\ Len(code) + 1 \in 1..n
    BY <1>1
  <2> QED BY <1>1, <2>1
<1> HIDE DEF S
<1>4. \A x \in S : x \in Int
  BY DEF S
<1>5. Max(S) = Len(code)
  <2>1. ASSUME NEW x \in S, \A y \in S : x >= y PROVE x = Len(code)
    BY <1>1, <1>2, <1>3, <1>4, <2>1
  <2>2. \A y \in S : Len(code) >= y
    BY <1>1, <1>3, <1>4
  <2> QED BY <1>2, <2>1, <2>2 DEF Max
<1>6. SubSeq(line, 1, Len(code)) = SubSeq(code, 1, Len(code))
  BY <1>1, PrefixEqual DEF Strings
<1>7. SubSeq(code, 1, Len(code)) = code
  BY SubSeqFull
<1> QED BY <1>5, <1>6, <1>7 DEF Upto, S

\* What readResponse needs of a reply.
Framed(q, code) ==
    /\ q \in Seq(Strings) /\ Len(q) > 0 /\ IsLast(q[Len(q)])
    /\ \A i \in 1..(Len(q) - 1) : ~IsLast(q[i])
    /\ ExpectedCode(q) = code

Code(line) == Upto(line, Max({n \in 0..3 : \A i \in 1..n : line[i] \in Digits}))

LEMMA FramedOne ==
    ASSUME NEW line \in Strings, IsLast(line)
    PROVE  Framed(<<line>>, Code(line))
<1>1. <<line>> \in Seq(Strings) /\ Len(<<line>>) = 1 /\ <<line>>[1] = line
  OBVIOUS
<1>2. \A i \in 1..(Len(<<line>>) - 1) : ~IsLast(<<line>>[i])
  BY <1>1
<1>3. ExpectedCode(<<line>>) = Code(line)
  BY <1>1 DEF ExpectedCode, Last, Code
<1> QED BY <1>1, <1>2, <1>3 DEF Framed

LEMMA CodeOfReply ==
    ASSUME NEW code \in [1..3 -> Digits], NEW line, NEW sep, Begins(line, code, sep)
    PROVE  Code(line) = code
<1>1. code \in [1..3 -> Chars]
  BY NotDigits
<1>2. code \in Seq(Chars) /\ Len(code) = 3
  BY <1>1, FunctionIsSeq
<1>3. line \in Seq(Chars) /\ Len(line) >= 4
  BY DEF Begins, Strings
<1>4. \A i \in 1..3 : line[i] = code[i] /\ code[i] \in Digits
  <2>1. line[1] = code[1] /\ line[2] = code[2] /\ line[3] = code[3]
    BY DEF Begins
  <2>2. \A i \in 1..3 : i = 1 \/ i = 2 \/ i = 3
    OBVIOUS
  <2> QED BY <2>1, <2>2
<1>5. Len(code) \in 0..3 /\ Len(code) <= Len(line) /\ ~(Len(code) < 3)
  BY <1>2, <1>3
<1>6. \A i \in 1..Len(code) : line[i] = code[i] /\ code[i] \in Digits
  BY <1>2, <1>4
<1> QED BY <1>2, <1>3, <1>5, <1>6, CodeRead DEF Code

\* A code with nothing but the ending is short and has no hyphen.
LEMMA BareCode ==
    ASSUME NEW n \in 1..3, NEW code \in [1..n -> Digits]
    PROVE  Framed(<<code \o <<>> \o CRLF>>, code)
<1> DEFINE line == code \o CRLF
<1>1. code \in Seq(Chars) /\ Len(code) = n
  <2>1. \A i \in 1..n : code[i] \in Chars
    BY NotDigits
  <2>2. code \in [1..n -> Chars]
    BY <2>1
  <2>3. n \in Nat
    OBVIOUS
  <2> QED BY <2>2, <2>3, FunctionIsSeq
<1>2. code \o <<>> \o CRLF = line
  BY <1>1, ConcatEmptySeq
<1>3. CRLF \in Seq(Chars) /\ Len(CRLF) = 2 /\ CRLF[1] = CR /\ CRLF[2] = LF
  BY Endings DEF Strings
<1>4. /\ line \in Seq(Chars) /\ Len(line) = n + 2
      /\ \A i \in 1..n : line[i] = code[i]
      /\ \A i \in 1..2 : line[n + i] = CRLF[i]
  <2>1. /\ line \in Seq(Chars) /\ Len(line) = Len(code) + Len(CRLF)
        /\ \A i \in 1..Len(code) : line[i] = code[i]
        /\ \A i \in 1..Len(CRLF) : line[Len(code) + i] = CRLF[i]
    <3>1. code \in Seq(Chars)
      BY <1>1
    <3>2. CRLF \in Seq(Chars)
      BY <1>3
    <3> QED BY <3>1, <3>2, ConcatParts
  <2> HIDE DEF line
  <2> QED BY <1>1, <1>3, <2>1
<1> HIDE DEF line
<1>5. line[n + 1] = CR /\ line[n + 2] = LF
  BY <1>3, <1>4
<1>6. ASSUME NEW i \in 1..Len(line) PROVE line[i] # "-"
  <2>1. CASE i \in 1..n
    <3>1. line[i] \in Digits
      BY <1>4, <2>1
    <3> QED BY <3>1, NotDigits
  <2>2. i \in 1..n \/ i = n + 1 \/ i = n + 2
    BY <1>4
  <2> QED BY <1>5, <2>1, <2>2, NotDigits
<1>7. IsLast(line)
  <2>1. ~Contains(line, "-")
    BY <1>6 DEF Contains
  <2>2. Len(line) <= 5
    BY <1>4
  <2> QED BY <2>1, <2>2 DEF IsLast
<1>8. Code(line) = code
  <2>1. \A i \in 1..Len(code) : line[i] = code[i] /\ code[i] \in Digits
    BY <1>1, <1>4
  <2>2. line[Len(code) + 1] \notin Digits
    BY <1>1, <1>5, NotDigits
  <2>3. Len(code) \in 0..3 /\ Len(code) <= Len(line)
    BY <1>1, <1>4
  <2> QED BY <1>1, <1>4, <2>1, <2>2, <2>3, CodeRead DEF Code
<1>9. line \in Strings
  BY <1>4 DEF Strings
<1> QED BY <1>2, <1>7, <1>8, <1>9, FramedOne

LEMMA EnhancedType == EnhancedCode \in Strings /\ <<" ">> \in Strings /\ " " \in Chars /\ "-" \in Chars
<1>1. {"2", ".", "1", "0", " ", "-"} \subseteq Chars
  BY WireAssumption DEF WireAssumption, Digits
<1>2. "2" \in Chars /\ "." \in Chars /\ "1" \in Chars /\ "0" \in Chars
      /\ " " \in Chars /\ "-" \in Chars
  BY <1>1
<1>3. ASSUME NEW S, NEW a \in S, NEW b \in S, NEW c \in S, NEW d \in S
      PROVE  <<a, d, b, d, c>> \in Seq(S) /\ <<a>> \in Seq(S)
  OBVIOUS
<1>4. EnhancedCode \in Seq(Chars)
  BY <1>2, <1>3 DEF EnhancedCode
<1>5. <<" ">> \in Seq(Chars)
  BY <1>2, <1>3
<1> QED BY <1>2, <1>4, <1>5 DEF Strings

LEMMA ReplyForms ==
    ASSUME NEW r \in Replies
    PROVE  \/ /\ r.code \in [1..3 -> Digits] /\ r.lines \in Seq(Strings)
              /\ r.enhanced \in BOOLEAN
           \/ r.code = <<"0">> /\ r.enhanced = FALSE /\ r.lines = <<>>
<1>1. CASE r \in [code : Codes, enhanced : BOOLEAN, lines : BoundedSeq(Texts, 2)]
  <2>1. r.code \in Codes /\ r.lines \in BoundedSeq(Texts, 2)
    BY <1>1
  <2>2. r.code \in [1..3 -> Digits]
    BY <2>1, ReplyAssumption DEF ReplyAssumption
  <2>3. Texts \subseteq Strings
    BY WireAssumption DEF WireAssumption, Strings
  <2>4. PICK m \in 0..2 : r.lines \in [1..m -> Texts]
    BY <2>1 DEF BoundedSeq, SeqOf
  <2>5. r.lines \in [1..m -> Strings] /\ m \in Nat
    BY <2>3, <2>4
  <2>6. r.lines \in Seq(Strings)
    BY <2>5, FunctionIsSeq
  <2>7. r.enhanced \in BOOLEAN
    BY <1>1, Zenon
  <2> QED BY <2>2, <2>6, <2>7
<1>2. CASE r = [code |-> <<"0">>, enhanced |-> FALSE, lines |-> <<>>]
  <2>1. r.code = <<"0">> /\ r.lines = <<>>
    BY <1>2
  <2>2. r.enhanced = FALSE
    BY <1>2, Zenon
  <2> QED BY <2>1, <2>2
<1> QED BY <1>1, <1>2 DEF Replies

\* Every line of a reply but the last has a hyphen behind the code, the last a space.
LEMMA ManyLines ==
    ASSUME NEW code \in [1..3 -> Digits], NEW lines \in Seq(Strings), lines # <<>>,
           NEW more \in Strings
    PROVE  Framed([i \in 1..Len(lines) |->
                     code \o (IF i = Len(lines) THEN <<" ">> ELSE <<"-">>) \o more
                          \o lines[i] \o CRLF], code)
<1> DEFINE line(i, sep) == code \o <<sep>> \o more \o lines[i] \o CRLF
           n == Len(lines)
           q == [i \in 1..Len(lines) |->
                   code \o (IF i = Len(lines) THEN <<" ">> ELSE <<"-">>) \o more
                        \o lines[i] \o CRLF]
<1>1. n \in Nat /\ n > 0 /\ n \in 1..n /\ \A i \in 1..n : lines[i] \in Strings
  BY NonEmpty
<1>2. code \in [1..3 -> Chars]
  BY NotDigits
<1>3. ASSUME NEW i \in 1..n, NEW sep \in Chars PROVE Begins(line(i, sep), code, sep)
  <2>1. Begins(code \o <<sep>>, code, sep)
    BY <1>2, BeginsFirst
  <2>2. Begins(code \o <<sep>> \o more, code, sep)
    BY <2>1, BeginsOn
  <2>3. Begins(code \o <<sep>> \o more \o lines[i], code, sep)
    BY <1>1, <2>2, BeginsOn
  <2> QED BY <2>3, BeginsOn, Endings
<1> HIDE DEF line, n
<1>4. q = [i \in 1..n |-> IF i = n THEN line(i, " ") ELSE line(i, "-")]
  BY DEF line, n
<1> HIDE DEF q
<1>5. ASSUME NEW i \in 1..n PROVE q[i] \in Strings
  BY <1>3, <1>4, EnhancedType DEF Begins
<1>6. q \in Seq(Strings) /\ Len(q) = n
  <2>1. q \in [1..n -> Strings]
    BY <1>4, <1>5
  <2> QED BY <1>1, <2>1, FunctionIsSeq
<1>7. q[n] = line(n, " ") /\ IsLast(q[n])
  BY <1>1, <1>3, <1>4, BeginsLast, EnhancedType
<1>8. ASSUME NEW i \in 1..(n - 1) PROVE ~IsLast(q[i])
  <2>1. i \in 1..n /\ i # n
    BY <1>1
  <2>2. q[i] = line(i, "-")
    BY <1>4, <2>1
  <2> QED BY <1>3, <2>1, <2>2, BeginsOther, EnhancedType
<1>9. ExpectedCode(q) = code
  <2>1. Begins(q[n], code, " ")
    BY <1>1, <1>3, <1>7, EnhancedType
  <2>2. Code(q[n]) = code
    BY <2>1, CodeOfReply
  <2> QED BY <1>6, <2>2 DEF ExpectedCode, Last, Code
<1>10. Framed(q, code)
  BY <1>1, <1>6, <1>7, <1>8, <1>9 DEF Framed
<1> QED BY <1>10 DEF q

LEMMA ReplyFramed == ASSUME NEW r \in Replies PROVE Framed(ResponseString(r), r.code)
<1> DEFINE more == IF r.enhanced THEN EnhancedCode \o <<" ">> ELSE <<>>
           code == r.code
           lines == r.lines
<1>1. CASE code = <<"0">> /\ r.enhanced = FALSE /\ lines = <<>>
  <2>1. ResponseString(r) = <<code \o <<>> \o CRLF>>
    BY <1>1 DEF ResponseString
  <2>2. code \in [1..1 -> Digits]
    BY <1>1 DEF Digits
  <2>3. 1 \in 1..3
    OBVIOUS
  <2> QED BY <2>1, <2>2, <2>3, BareCode
<1>2. CASE code \in [1..3 -> Digits] /\ lines \in Seq(Strings) /\ r.enhanced \in BOOLEAN
  <2>1. CASE lines = <<>> /\ ~r.enhanced
    <3>1. ResponseString(r) = <<code \o <<>> \o CRLF>>
      BY <2>1 DEF ResponseString
    <3>2. 3 \in 1..3
      OBVIOUS
    <3> QED BY <1>2, <3>1, <3>2, BareCode
  <2>2. CASE lines = <<>> /\ r.enhanced
    <3> DEFINE line == code \o (<<" ">> \o EnhancedCode) \o CRLF
    <3>1. ResponseString(r) = <<line>>
      BY <2>2 DEF ResponseString
    <3>2. code \in [1..3 -> Chars]
      BY <1>2, NotDigits
    <3>3. code \in Seq(Chars)
      BY <3>2, FunctionIsSeq
    <3>4. code \o (<<" ">> \o EnhancedCode) = (code \o <<" ">>) \o EnhancedCode
      <4>1. \A a, b, c \in Strings : (a \o b) \o c = a \o (b \o c)
        BY ConcatAssociative DEF Strings
      <4>2. code \in Strings
        BY <3>3 DEF Strings
      <4> QED BY <4>1, <4>2, EnhancedType
    <3>5. Begins(code \o <<" ">>, code, " ")
      BY <3>2, BeginsFirst, EnhancedType
    <3>6. Begins((code \o <<" ">>) \o EnhancedCode, code, " ")
      BY <3>5, BeginsOn, EnhancedType
    <3>7. Begins(line, code, " ")
      BY <3>4, <3>6, BeginsOn, Endings
    <3> HIDE DEF line
    <3>8. Code(line) = code /\ IsLast(line) /\ line \in Strings
      BY <1>2, <3>7, CodeOfReply, BeginsLast DEF Begins
    <3> QED BY <3>1, <3>8, FramedOne
  <2>3. CASE lines # <<>>
    <3>1. more \in Strings
      <4>1. \A a, b \in Strings : a \o b \in Strings
        BY ConcatProperties DEF Strings
      <4>2. <<>> \in Strings
        BY DEF Strings
      <4> QED BY <4>1, <4>2, EnhancedType
    <3> HIDE DEF more
    <3>2. ResponseString(r) =
            [i \in 1..Len(lines) |->
               code \o (IF i = Len(lines) THEN <<" ">> ELSE <<"-">>) \o more
                    \o lines[i] \o CRLF]
      <4>1. DOMAIN r.lines = 1..Len(lines)
        BY <1>2
      <4> QED BY <2>3, <4>1 DEF ResponseString, Separator, more
    <3> QED BY <1>2, <2>3, <3>1, <3>2, ManyLines
  <2> QED BY <1>2, <2>1, <2>2, <2>3
<1> QED BY <1>1, <1>2, ReplyForms

LEMMA FirstLast ==
    ASSUME NEW q \in Seq(Strings), NEW m \in 1..Len(q), IsLast(q[m]),
           \A i \in 1..(m - 1) : ~IsLast(q[i])
    PROVE  SelectInSeq(q, IsLast) = m
<1> DEFINE S == {i \in 1..Len(q) : IsLast(q[i])}
<1>1. m \in S /\ \A i \in S : i \in Int
  OBVIOUS
<1>2. \A i \in S : m <= i
  OBVIOUS
<1>3. SelectInSeq(q, IsLast) = IF S # {} THEN Min(S) ELSE 0
  BY DEF SelectInSeq
<1> HIDE DEF S
<1>4. Min(S) = m
  <2>1. ASSUME NEW x \in S, \A y \in S : x =< y PROVE x = m
    BY <1>1, <1>2, <2>1
  <2> QED BY <1>1, <1>2, <2>1 DEF Min
<1> QED BY <1>1, <1>3, <1>4

LEMMA WriteStep ==
    ASSUME ReplyInv, writeResponse
    PROVE  ReplyInv'
<1> DEFINE a == Len(received)
           b == Len(replies)
           o == Len(output)
<1>1. PICK r \in Replies : replies' = Append(replies, r) /\ output' = output \o ResponseString(r)
  BY DEF writeResponse
<1>2. received' = received
  BY DEF writeResponse
<1> DEFINE q == ResponseString(r)
<1>3. /\ replies \in Seq(Replies) /\ output \in Seq(Strings)
      /\ received \in Seq(Seq(Strings)) /\ a <= b
  BY DEF ReplyInv, Strings
<1>4. a \in Nat /\ b \in Nat /\ o \in Nat
  BY <1>3
<1>5. q \in Seq(Strings) /\ Len(q) \in Nat
  <2>1. q \in Seq(Strings)
    BY ReplyFramed DEF Framed
  <2> QED BY <2>1
<1>6. /\ replies' \in Seq(Replies) /\ Len(replies') = b + 1 /\ replies'[b + 1] = r
      /\ \A i \in 1..b : replies'[i] = replies[i]
  BY <1>1, <1>3, AppendProperties
<1> HIDE DEF q
<1>7. /\ output' \in Seq(Strings) /\ Len(output') = o + Len(q)
      /\ \A i \in 1..o : output'[i] = output[i]
      /\ \A i \in 1..Len(q) : output'[o + i] = q[i]
  <2>1. output' = output \o q
    BY <1>1 DEF q
  <2>2. /\ output \o q \in Seq(Strings) /\ Len(output \o q) = Len(output) + Len(q)
        /\ \A i \in 1..Len(output) : (output \o q)[i] = output[i]
        /\ \A i \in 1..Len(q) : (output \o q)[Len(output) + i] = q[i]
    BY <1>3, <1>5, ConcatParts
  <2> QED BY <2>1, <2>2
<1>8. PICK at \in [a..b -> 0..o] : Framing(at)
  BY DEF ReplyInv
<1> DEFINE longer == [k \in a..(b + 1) |-> IF k = b + 1 THEN o + Len(q) ELSE at[k]]
<1> HIDE DEF a, b, o
<1>9. /\ at[a] = 0 /\ at[b] = o
      /\ \A j, k \in a..b : j <= k => at[j] <= at[k]
      /\ \A k \in (a + 1)..b :
           /\ at[k] = at[k - 1] + Len(ResponseString(replies[k]))
           /\ \A j \in 1..Len(ResponseString(replies[k])) :
                output[at[k - 1] + j] = ResponseString(replies[k])[j]
  BY <1>8 DEF Framing, a, b, o
<1>10. PICK at2 \in [a..(b + 1) -> 0..(o + Len(q))] :
          at2[b + 1] = o + Len(q) /\ \A k \in a..b : at2[k] = at[k]
  <2>1. longer \in [a..(b + 1) -> 0..(o + Len(q))]
    BY <1>4, <1>5, <1>8
  <2>2. longer[b + 1] = o + Len(q) /\ \A k \in a..b : longer[k] = at[k]
    BY <1>3, <1>4 DEF a, b
  <2> HIDE DEF longer
  <2> QED BY <2>1, <2>2
<1>11. at2[b + 1] = o + Len(q) /\ \A k \in a..b : at2[k] = at[k]
  BY <1>10
<1>12. a \in a..b /\ b \in a..b
  BY <1>3, <1>4 DEF a, b
<1>13. at2[a] = 0 /\ at2[b] = o
  BY <1>9, <1>11, <1>12
<1>14. ASSUME NEW j \in a..(b + 1), NEW k \in a..(b + 1), j <= k PROVE at2[j] <= at2[k]
  <2>1. CASE k \in a..b
    <3>1. j \in a..b
      BY <1>4, <1>14, <2>1
    <3> QED BY <1>9, <1>11, <1>14, <2>1, <3>1
  <2>2. CASE k = b + 1
    <3>1. at2[j] \in 0..(o + Len(q))
      BY <1>10
    <3> QED BY <1>4, <1>5, <1>11, <2>2, <3>1
  <2>3. k \in a..b \/ k = b + 1
    BY <1>4
  <2> QED BY <2>1, <2>2, <2>3
<1>15. ASSUME NEW k \in (a + 1)..(b + 1)
       PROVE  /\ at2[k] = at2[k - 1] + Len(ResponseString(replies'[k]))
              /\ \A j \in 1..Len(ResponseString(replies'[k])) :
                   output'[at2[k - 1] + j] = ResponseString(replies'[k])[j]
  <2>1. CASE k \in (a + 1)..b
    <3>1. k - 1 \in a..b /\ k \in a..b /\ k \in 1..b
      BY <1>4, <2>1
    <3>2. replies'[k] = replies[k] /\ at2[k] = at[k] /\ at2[k - 1] = at[k - 1]
      BY <1>6, <1>11, <3>1 DEF b
    <3> DEFINE p == ResponseString(replies[k])
    <3>3. at[k] = at[k - 1] + Len(p) /\ \A j \in 1..Len(p) : output[at[k - 1] + j] = p[j]
      BY <1>9, <2>1
    <3>4. p \in Seq(Strings)
      <4>1. replies[k] \in Replies
        BY <1>3, <3>1 DEF b
      <4> QED BY <4>1, ReplyFramed DEF Framed
    <3> HIDE DEF p
    <3>5. at[k] \in 0..o /\ at[k - 1] \in 0..o /\ Len(p) \in Nat
      BY <1>8, <3>1, <3>4
    <3>6. ASSUME NEW j \in 1..Len(p) PROVE output'[at[k - 1] + j] = p[j]
      <4>1. at[k - 1] + j \in 1..o
        BY <1>4, <3>3, <3>5
      <4> QED BY <1>7, <3>3, <4>1 DEF o
    <3> QED BY <3>2, <3>3, <3>6 DEF p
  <2>2. CASE k = b + 1
    <3>1. k - 1 = b /\ b \in a..b
      BY <1>4, <1>12, <2>2
    <3>2. at2[k - 1] = o /\ at2[k] = o + Len(q) /\ replies'[k] = r
      BY <1>6, <1>11, <1>13, <2>2, <3>1 DEF b
    <3> QED BY <1>7, <3>2 DEF q, o
  <2>3. k \in (a + 1)..b \/ k = b + 1
    BY <1>4
  <2> QED BY <2>1, <2>2, <2>3
<1>16. Len(received') = a /\ Len(replies') = b + 1 /\ Len(output') = o + Len(q)
  BY <1>2, <1>6, <1>7 DEF a, b, o
<1>17. Framing(at2)'
  BY <1>11, <1>13, <1>14, <1>15, <1>16 DEF Framing
<1>18. \E x \in [Len(received')..Len(replies') -> 0..Len(output')] : Framing(x)'
  BY <1>10, <1>16, <1>17
<1>19. RepliesFramed'
  <2>1. ASSUME NEW i \in DOMAIN received PROVE replies'[i] = replies[i]
    <3>1. i \in 1..b
      BY <1>3, <1>4 DEF a, b
    <3> QED BY <1>6, <3>1 DEF b
  <2> QED BY <1>2, <2>1 DEF ReplyInv, RepliesFramed
<1>20. a <= b + 1
  BY <1>3, <1>4 DEF a, b
<1> QED BY <1>2, <1>3, <1>6, <1>7, <1>16, <1>18, <1>19, <1>20 DEF ReplyInv, Strings

\* readResponse finds the end of the first reply that has not been received.
LEMMA ReadStep ==
    ASSUME ReplyInv, readResponse
    PROVE  ReplyInv'
<1> DEFINE a == Len(received)
           b == Len(replies)
           o == Len(output)
           n == SelectInSeq(output, IsLast)
           q == ResponseString(replies[a + 1])
<1>1. /\ n # 0 /\ replies' = replies
      /\ received' = Append(received, SubSeq(output, 1, n))
      /\ output' = SubSeq(output, n + 1, Len(output))
  BY DEF readResponse, Upto, From
<1>2. /\ replies \in Seq(Replies) /\ output \in Seq(Strings)
      /\ received \in Seq(Seq(Strings)) /\ a <= b
  BY DEF ReplyInv, Strings
<1>3. a \in Nat /\ b \in Nat /\ o \in Nat
  BY <1>2
<1>4. PICK at \in [a..b -> 0..o] : Framing(at)
  BY DEF ReplyInv
<1>5. /\ at[a] = 0 /\ at[b] = o
      /\ \A j, k \in a..b : j <= k => at[j] <= at[k]
      /\ \A k \in (a + 1)..b :
           /\ at[k] = at[k - 1] + Len(ResponseString(replies[k]))
           /\ \A j \in 1..Len(ResponseString(replies[k])) :
                output[at[k - 1] + j] = ResponseString(replies[k])[j]
  BY <1>4 DEF Framing
<1>6. a < b
  <2> SUFFICES ASSUME a = b PROVE FALSE
    BY <1>2, <1>3
  <2>1. Len(output) = 0
    BY <1>5
  <2>2. {i \in 1..Len(output) : IsLast(output[i])} = {}
    BY <2>1
  <2> QED BY <1>1, <2>2 DEF SelectInSeq
<1> HIDE DEF a, b, o, n, q
<1>7. a + 1 \in (a + 1)..b /\ a + 1 \in 1..b /\ (a + 1) - 1 = a /\ a + 1 \in a..b /\ a \in a..b
      /\ b \in (a + 1)..b
  BY <1>3, <1>6
<1>8. replies[a + 1] \in Replies
  BY <1>2, <1>7 DEF b
<1>9. /\ q \in Seq(Strings) /\ Len(q) > 0 /\ IsLast(q[Len(q)])
      /\ \A i \in 1..(Len(q) - 1) : ~IsLast(q[i])
      /\ ExpectedCode(q) = replies[a + 1].code
  BY <1>8, ReplyFramed DEF Framed, q
<1>10. Len(q) \in Nat /\ Len(q) \in 1..Len(q)
  <2>1. Len(q) \in Nat
    BY <1>9
  <2> QED BY <1>9, <2>1
<1>11. at[a + 1] = Len(q) /\ Len(q) \in 1..o /\ \A j \in 1..Len(q) : output[j] = q[j]
  <2>1. at[a + 1] = at[a] + Len(q) /\ \A j \in 1..Len(q) : output[at[a] + j] = q[j]
    BY <1>5, <1>7 DEF q
  <2>2. at[a + 1] \in 0..o
    BY <1>4, <1>7 DEF o
  <2> QED BY <1>3, <1>5, <1>10, <2>1, <2>2
<1>12. n = Len(q)
  <2>1. IsLast(output[Len(q)])
    BY <1>9, <1>10, <1>11
  <2>2. ASSUME NEW i \in 1..(Len(q) - 1) PROVE ~IsLast(output[i])
    <3>1. i \in 1..Len(q)
      BY <1>10
    <3> QED BY <1>9, <1>11, <3>1
  <2> QED BY <1>2, <1>11, <2>1, <2>2, FirstLast DEF n, o
<1>13. SubSeq(output, 1, n) = q
  <2>1. \A i \in 1..Len(q) : output[i] \in Strings
    BY <1>2, <1>3, <1>10, <1>11 DEF o
  <2>2. /\ SubSeq(output, 1, Len(q)) \in Seq(Strings)
        /\ Len(SubSeq(output, 1, Len(q))) = Len(q)
        /\ \A i \in 1..Len(q) : SubSeq(output, 1, Len(q))[i] = output[i]
    BY <1>2, <1>3, <1>10, <1>11 DEF o
  <2> QED BY <1>9, <1>11, <1>12, <2>2, SeqEqual
<1>14. /\ output' \in Seq(Strings) /\ Len(output') = o - Len(q)
       /\ \A i \in 1..(o - Len(q)) : output'[i] = output[Len(q) + i]
  BY <1>1, <1>2, <1>3, <1>10, <1>11, <1>12 DEF o
<1>15. /\ received' \in Seq(Seq(Strings)) /\ Len(received') = a + 1
       /\ \A i \in 1..a : received'[i] = received[i]
       /\ received'[a + 1] = q
  <2>1. received' = Append(received, q)
    BY <1>1, <1>13
  <2> QED BY <1>2, <1>9, <2>1, AppendProperties DEF a
<1> DEFINE shorter == [k \in (a + 1)..b |-> at[k] - Len(q)]
<1>16. ASSUME NEW k \in (a + 1)..b PROVE at[k] - Len(q) \in 0..(o - Len(q)) /\ at[k] \in Int
  <2>1. k \in a..b /\ a + 1 <= k
    BY <1>3
  <2>2. at[a + 1] <= at[k] /\ at[k] \in 0..o
    BY <1>4, <1>5, <1>7, <2>1 DEF o, a, b
  <2> QED BY <1>3, <1>10, <1>11, <2>2
<1>17. PICK at2 \in [(a + 1)..b -> 0..(o - Len(q))] :
         \A k \in (a + 1)..b : at2[k] = at[k] - Len(q)
  <2>1. shorter \in [(a + 1)..b -> 0..(o - Len(q))]
    BY <1>16
  <2>2. \A k \in (a + 1)..b : shorter[k] = at[k] - Len(q)
    OBVIOUS
  <2> HIDE DEF shorter
  <2> QED BY <2>1, <2>2
<1>18. at2[a + 1] = 0 /\ at2[b] = o - Len(q)
  BY <1>5, <1>7, <1>10, <1>11, <1>17
<1>19. ASSUME NEW j \in (a + 1)..b, NEW k \in (a + 1)..b, j <= k PROVE at2[j] <= at2[k]
  <2>1. j \in a..b /\ k \in a..b
    BY <1>3
  <2>2. at[j] <= at[k]
    BY <1>5, <1>19, <2>1
  <2> QED BY <1>10, <1>16, <1>17, <2>2
<1>20. ASSUME NEW k \in ((a + 1) + 1)..b
       PROVE  /\ at2[k] = at2[k - 1] + Len(ResponseString(replies[k]))
              /\ \A j \in 1..Len(ResponseString(replies[k])) :
                   output'[at2[k - 1] + j] = ResponseString(replies[k])[j]
  <2> DEFINE p == ResponseString(replies[k])
  <2>1. k \in (a + 1)..b /\ k - 1 \in (a + 1)..b /\ k \in 1..b
    BY <1>3
  <2>2. at[k] = at[k - 1] + Len(p) /\ \A j \in 1..Len(p) : output[at[k - 1] + j] = p[j]
    BY <1>5, <2>1
  <2>3. p \in Seq(Strings)
    <3>1. replies[k] \in Replies
      BY <1>2, <2>1 DEF b
    <3> QED BY <3>1, ReplyFramed DEF Framed
  <2> HIDE DEF p
  <2>4. Len(p) \in Nat
    BY <2>3
  <2>5. at2[k] = at[k] - Len(q) /\ at2[k - 1] = at[k - 1] - Len(q)
        /\ at2[k] \in 0..(o - Len(q)) /\ at2[k - 1] \in 0..(o - Len(q))
    BY <1>17, <2>1
  <2>6. at[k] \in Int /\ at[k - 1] \in Int
    BY <1>16, <2>1
  <2>7. at2[k] = at2[k - 1] + Len(p)
    BY <1>10, <2>2, <2>4, <2>5, <2>6
  <2>8. ASSUME NEW j \in 1..Len(p) PROVE output'[at2[k - 1] + j] = p[j]
    <3>1. at2[k - 1] + j \in 1..(o - Len(q))
      <4>1. j >= 1 /\ j <= Len(p) /\ j \in Int
        BY <2>4
      <4>2. at2[k - 1] >= 0 /\ at2[k - 1] + Len(p) <= o - Len(q) /\ at2[k - 1] \in Int
        BY <1>3, <1>10, <2>5, <2>7
      <4> QED BY <1>3, <1>10, <2>4, <4>1, <4>2
    <3>2. Len(q) + (at2[k - 1] + j) = at[k - 1] + j
      BY <1>10, <2>4, <2>5, <2>6
    <3>3. output'[at2[k - 1] + j] = output[Len(q) + (at2[k - 1] + j)]
      BY <1>14, <3>1
    <3> QED BY <2>2, <3>2, <3>3
  <2> QED BY <2>7, <2>8 DEF p
<1>21. Len(received') = a + 1 /\ Len(replies') = b /\ Len(output') = o - Len(q)
  BY <1>1, <1>14, <1>15 DEF b
<1>22. Framing(at2)'
  BY <1>1, <1>18, <1>19, <1>20, <1>21 DEF Framing
<1>23. \E x \in [Len(received')..Len(replies') -> 0..Len(output')] : Framing(x)'
  BY <1>21, <1>22
<1>24. RepliesFramed'
  <2>1. \A i \in 1..a : received[i] = ResponseString(replies[i])
                        /\ ExpectedCode(received[i]) = replies[i].code
    BY <1>2 DEF ReplyInv, RepliesFramed, a
  <2>2. DOMAIN received' = 1..(a + 1)
    BY <1>15
  <2>3. ASSUME NEW i \in 1..(a + 1)
        PROVE  received'[i] = ResponseString(replies[i])
               /\ ExpectedCode(received'[i]) = replies[i].code
    <3>1. i \in 1..a \/ i = a + 1
      BY <1>3
    <3>2. CASE i \in 1..a
      BY <1>15, <2>1, <3>2
    <3>3. CASE i = a + 1
      BY <1>9, <1>15, <3>3 DEF q
    <3> QED BY <3>1, <3>2, <3>3
  <2> QED BY <1>1, <2>2, <2>3 DEF RepliesFramed
<1>25. a + 1 <= b
  BY <1>3, <1>6
<1> QED BY <1>1, <1>2, <1>14, <1>15, <1>21, <1>23, <1>24, <1>25 DEF ReplyInv, Strings

-----------------------------------------------------------------------------
(* The theorems.                                                           *)

LEMMA InitInv == Init => Inv
<1> SUFFICES ASSUME Init PROVE Inv
  OBVIOUS
<1>1. TextOK
  <2>1. kind \in DOMAIN Starts /\ text \in Starts[kind]
        /\ MaxLineLength = 0 /\ MaxMessageSize = 0
    BY DEF Init, DataInit
  <2>2. text \in Seq(Chars)
    BY <2>1, WireAssumption DEF WireAssumption
  <2> QED BY <2>1, <2>2 DEF TextOK
<1>2. DataInv
  BY DEF Init, DataInit, DataInv
<1>3. ReplyInv
  <2>1. replies = <<>> /\ output = <<>> /\ received = <<>>
    BY DEF Init, ReplyInit
  <2>2. Len(replies) = 0 /\ Len(output) = 0 /\ Len(received) = 0
    BY <2>1
  <2> DEFINE at == [k \in 0..0 |-> 0]
  <2>3. at \in [Len(received)..Len(replies) -> 0..Len(output)]
    BY <2>2
  <2>4. Framing(at)
    BY <2>2 DEF Framing
  <2>5. replies \in Seq(Replies) /\ output \in Seq(Seq(Chars))
        /\ received \in Seq(Seq(Seq(Chars))) /\ Len(received) <= Len(replies)
    BY <2>1
  <2>6. RepliesFramed
    BY <2>1 DEF RepliesFramed
  <2> QED BY <2>3, <2>4, <2>5, <2>6 DEF ReplyInv
<1> QED BY <1>1, <1>2, <1>3 DEF Inv

LEMMA NextInv == Inv /\ [Next]_vars => Inv'
<1> SUFFICES ASSUME Inv, [Next]_vars PROVE Inv'
  OBVIOUS
<1>0. TextOK /\ DataInv /\ ReplyInv
  BY DEF Inv
<1>1. ASSUME UNCHANGED replyVars PROVE ReplyInv'
  BY <1>0, <1>1 DEF replyVars, ReplyInv, Framing, RepliesFramed
<1>2. ASSUME UNCHANGED <<kind, text, dataVars>> PROVE TextOK' /\ DataInv'
  BY <1>0, <1>2 DEF dataVars, limits, TextOK, DataInv, HasRead, CheckLineLength,
                    CheckMessageSize
<1>3. CASE Type
  <2>1. /\ incoming = <<>> /\ outcome = "none" /\ UNCHANGED <<kind, dataVars, replyVars>>
        /\ \E c \in Alphabet[kind] : text' = Append(text, c)
    BY <1>3 DEF Type
  <2>2. PICK c \in Alphabet[kind] : text' = Append(text, c)
    BY <2>1
  <2>5. c \in Chars
    BY <1>0, WireAssumption DEF WireAssumption, TextOK
  <2>6. text' \in Seq(Chars)
    <3>1. text \in Seq(Chars)
      BY <1>0 DEF TextOK
    <3> QED BY <2>2, <2>5, <3>1, AppendProperties
  <2>3. TextOK'
    BY <1>0, <2>1, <2>6 DEF TextOK, dataVars, limits
  <2>4. DataInv'
    BY <1>0, <2>1, NothingYet DEF DataInv, dataVars
  <2> QED BY <1>1, <2>1, <2>3, <2>4 DEF Inv
<1>4. CASE Data
  <2>1. kind = "data" /\ UNCHANGED <<kind, text>> /\ UNCHANGED replyVars
    BY <1>4 DEF Data
  <2>2. TextOK' /\ DataInv'
    BY <1>0, <1>4, <2>1, TransmitStep, StreamStep DEF Data
  <2> QED BY <1>1, <2>1, <2>2 DEF Inv
<1>5. CASE Reply
  <2>1. UNCHANGED <<kind, text, dataVars>>
    BY <1>5 DEF Reply
  <2>2. ReplyInv'
    BY <1>0, <1>5, WriteStep, ReadStep DEF Reply
  <2> QED BY <1>2, <2>1, <2>2 DEF Inv
<1>6. CASE UNCHANGED vars
  BY <1>1, <1>2, <1>6 DEF vars, Inv
<1> QED BY <1>3, <1>4, <1>5, <1>6 DEF Next

\* Inv holds for texts of every length over any characters, and for any limits.
THEOREM WireInvariant == Spec => []Inv
BY InitInv, NextInv, PTL DEF Spec

\* Message data of any content, dots and stray line endings included, is stored as it was
\* sent with CRLF at the end of every line, and reception ends at SendData's terminator:
\* nothing in the data ends it early, and the command behind it stays to be read.
THEOREM DataArrives == Spec => []DataRoundTrip
<1>1. Inv => DataRoundTrip
  BY DEF Inv, DataInv, HasRead, DataRoundTrip, Canonical
<1> QED BY <1>1, WireInvariant, PTL

\* Whatever its length, data is refused if and only if a line of it, as sent, or the whole,
\* as stored, is beyond the limit: streamData's comparisons, line by line, are exact.
THEOREM LimitsExact == Spec => []DataLimitsExact
<1>1. Inv => DataLimitsExact
  <2> SUFFICES ASSUME Inv, outcome # "none"
               PROVE  outcome = "ok" <=>
                        /\ \A i \in DOMAIN PlainLines(text) :
                             CheckLineLength(SentLength(PlainLines(text)[i]))
                        /\ CheckMessageSize(Len(Canonical(text)))
    BY DEF DataLimitsExact
  <2> DEFINE lines == PlainLines(text)
             J == Joined(lines)
  <2>1. text \in Strings /\ MaxMessageSize \in Nat
    BY DEF Inv, TextOK, Strings
  <2>2. lines \in Seq(Strings)
    BY <2>1, LinesType
  <2>3. PICK r \in 0..Len(lines) : HasRead(r)
    BY DEF Inv, DataInv
  <2>4. Canonical(text) = J[Len(lines)]
    BY DEF Canonical
  <2> HIDE DEF lines, J
  <2>5. DOMAIN lines = 1..Len(lines) /\ Len(lines) \in Nat
    BY <2>2
  <2>6. CASE outcome = "ok"
    BY <2>3, <2>4, <2>5, <2>6 DEF HasRead, lines, J
  <2>7. CASE outcome = "ErrLineTooLong"
    <3>1. r + 1 \in DOMAIN lines /\ ~CheckLineLength(SentLength(lines[r + 1]))
      BY <2>3, <2>5, <2>7 DEF HasRead, lines
    <3> QED BY <2>7, <3>1 DEF lines
  <2>8. CASE outcome = "ErrMessageTooLarge"
    <3>0. r < Len(lines) /\ ~CheckMessageSize(Len(J[r + 1]))
      BY <2>3, <2>8 DEF HasRead, lines, J
    <3>1. r + 1 \in 0..Len(lines) /\ Len(lines) \in (r + 1)..Len(lines)
      BY <2>3, <2>5, <3>0
    <3>2. Len(J[r + 1]) <= Len(J[Len(lines)])
      BY <2>2, <3>1, JoinedGrows DEF J
    <3>3. J[r + 1] \in Strings /\ J[Len(lines)] \in Strings
      <4>1. \A k \in 0..Len(lines) : J[k] \in Strings
        BY <2>2, JoinedType DEF J
      <4>2. Len(lines) \in 0..Len(lines)
        BY <2>5
      <4> QED BY <3>1, <4>1, <4>2
    <3>4. Len(J[r + 1]) \in Nat /\ Len(J[Len(lines)]) \in Nat
      BY <3>3 DEF Strings
    <3>5. ~CheckMessageSize(Len(J[Len(lines)]))
      BY <2>1, <3>0, <3>2, <3>4 DEF CheckMessageSize
    <3> QED BY <2>4, <2>8, <3>5
  <2> QED BY <2>3, <2>6, <2>7, <2>8 DEF HasRead
<1> QED BY <1>1, WireInvariant, PTL

\* However many replies are written ahead, and whatever their texts, each call of
\* readResponse returns one whole reply, and ExpectWithTimeout reads its code.
THEOREM RepliesWhole == Spec => []RepliesFramed
<1>1. Inv => RepliesFramed
  BY DEF Inv, ReplyInv
<1> QED BY <1>1, WireInvariant, PTL
=============================================================================

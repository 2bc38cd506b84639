------------------------- MODULE CommandTextProofs --------------------------
(***************************************************************************)
(* The parser of command lines accepts what its grammars say, for texts of *)
(* every length and every limit on their length.                           *)
(***************************************************************************)
EXTENDS WireTextProofs

-----------------------------------------------------------------------------
(* The functions of strings.                                               *)

LEMMA LeastIsMin ==
    ASSUME NEW S \in SUBSET Nat, S # {}
    PROVE  Min(S) \in S /\ \A n \in S : Min(S) <= n
<1>1. \E m \in S : \A n \in S : m <= n
  BY LeastNumber
<1> QED BY <1>1 DEF Min

LEMMA GreatestIsMax ==
    ASSUME NEW b \in Nat, NEW S \in SUBSET (0..b), S # {}
    PROVE  Max(S) \in S /\ \A n \in S : n <= Max(S)
<1> DEFINE T == {b - n : n \in S}
<1>1. T \in SUBSET Nat /\ T # {}
  <2>1. \A n \in S : b - n \in Nat
    OBVIOUS
  <2>2. PICK n \in S : TRUE
    OBVIOUS
  <2>3. b - n \in T
    OBVIOUS
  <2> QED BY <2>1, <2>3
<1> HIDE DEF T
<1>2. PICK m \in T : \A n \in T : m <= n
  BY <1>1, LeastNumber
<1>3. PICK x \in S : m = b - x
  BY DEF T
<1>4. \A n \in S : b - n \in T
  BY DEF T
<1>5. \A n \in S : b - x <= b - n
  BY <1>2, <1>3, <1>4
<1>6. \A n \in S : x >= n
  BY <1>5
<1> QED BY <1>6 DEF Max

\* Index finds the first occurrence.
LEMMA IndexEffect ==
    ASSUME NEW s \in Strings, NEW c
    PROVE  /\ Len(s) \in Nat /\ Index(s, c) \in 0..Len(s)
           /\ Index(s, c) = 0 => \A i \in 1..Len(s) : s[i] # c
           /\ Index(s, c) # 0 =>
                s[Index(s, c)] = c /\ \A i \in 1..(Index(s, c) - 1) : s[i] # c
<1> DEFINE I == {i \in 1..Len(s) : s[i] = c}
<1>1. Index(s, c) = IF I # {} THEN Min(I) ELSE 0
  BY DEF Index, SelectInSeq
<1>2. Len(s) \in Nat /\ I \in SUBSET Nat
  BY DEF Strings
<1>3. CASE I = {}
  BY <1>1, <1>2, <1>3
<1>4. CASE I # {}
  <2>1. Min(I) \in I /\ \A n \in I : Min(I) <= n
    BY <1>2, <1>4, LeastIsMin
  <2>2. ASSUME NEW i \in 1..(Min(I) - 1) PROVE s[i] # c
    <3>1. i \in 1..Len(s) /\ ~(Min(I) <= i)
      BY <1>2, <2>1
    <3> QED BY <2>1, <3>1
  <2> QED BY <1>1, <1>2, <1>4, <2>1, <2>2
<1> QED BY <1>3, <1>4

\* LastIndex finds the last one.
LEMMA LastIndexEffect ==
    ASSUME NEW s \in Strings, NEW c
    PROVE  /\ Len(s) \in Nat /\ LastIndex(s, c) \in 0..Len(s)
           /\ LastIndex(s, c) = 0 => \A i \in 1..Len(s) : s[i] # c
           /\ LastIndex(s, c) # 0 =>
                s[LastIndex(s, c)] = c /\ \A i \in (LastIndex(s, c) + 1)..Len(s) : s[i] # c
<1> DEFINE I == {i \in 1..Len(s) : s[i] = c}
<1>1. LastIndex(s, c) = IF I # {} THEN Max(I) ELSE 0
  BY DEF LastIndex, SelectLastInSeq
<1>2. Len(s) \in Nat /\ I \in SUBSET (0..Len(s))
  BY DEF Strings
<1>3. CASE I = {}
  BY <1>1, <1>2, <1>3
<1>4. CASE I # {}
  <2>1. Max(I) \in I /\ \A n \in I : n <= Max(I)
    BY <1>2, <1>4, GreatestIsMax
  <2>2. ASSUME NEW i \in (Max(I) + 1)..Len(s) PROVE s[i] # c
    <3>1. i \in 1..Len(s) /\ ~(i <= Max(I))
      BY <1>2, <2>1
    <3> QED BY <2>1, <3>1
  <2> QED BY <1>1, <1>2, <1>4, <2>1, <2>2
<1> QED BY <1>3, <1>4

\* A part of a text, between two places or at its end.
LEMMA PartEffect ==
    ASSUME NEW s \in Strings, NEW a \in 1..(Len(s) + 1), NEW b \in (a - 1)..Len(s)
    PROVE  /\ SubSeq(s, a, b) \in Strings /\ Len(SubSeq(s, a, b)) = b - a + 1
           /\ DOMAIN SubSeq(s, a, b) = 1..(b - a + 1)
           /\ \A i \in 1..(b - a + 1) : SubSeq(s, a, b)[i] = s[a + i - 1]
BY DEF Strings

\* A text of nothing but blanks; and where the text without the blanks around it lies.
Blank(s) == \A i \in 1..Len(s) : s[i] \in Space
Edges(s, a, b) ==
    /\ s[a] \notin Space /\ s[b] \notin Space
    /\ \A i \in 1..Len(s) : s[i] \notin Space => a <= i /\ i <= b

LEMMA TrimBlank ==
    ASSUME NEW s \in Strings, Blank(s)
    PROVE  TrimSpace(s) = <<>>
BY DEF TrimSpace, Blank, Strings

LEMMA TrimEdges ==
    ASSUME NEW s \in Strings, NEW a \in 1..Len(s), NEW b \in a..Len(s), Edges(s, a, b)
    PROVE  TrimSpace(s) = SubSeq(s, a, b)
<1> DEFINE ink == {i \in DOMAIN s : s[i] \notin Space}
<1>1. DOMAIN s = 1..Len(s) /\ Len(s) \in Nat
  BY DEF Strings
<1>2. /\ a \in ink /\ b \in ink /\ ink \in SUBSET (0..Len(s)) /\ ink \in SUBSET Nat
      /\ \A i \in ink : a <= i /\ i <= b
  BY <1>1 DEF Edges
<1>3. TrimSpace(s) = SubSeq(s, Min(ink), Max(ink))
  BY <1>2 DEF TrimSpace
<1> HIDE DEF ink
<1>4. Min(ink) = a
  <2>1. Min(ink) \in ink /\ Min(ink) <= a
    BY <1>2, LeastIsMin
  <2>2. Min(ink) \in Nat /\ a <= Min(ink)
    BY <1>2, <2>1
  <2> QED BY <2>1, <2>2
<1>5. Max(ink) = b
  <2>1. Max(ink) \in ink /\ b <= Max(ink)
    BY <1>1, <1>2, GreatestIsMax
  <2>2. Max(ink) \in Nat /\ Max(ink) <= b /\ b \in Nat
    BY <1>2, <2>1
  <2> QED BY <2>1, <2>2
<1> QED BY <1>3, <1>4, <1>5

LEMMA HasEdges ==
    ASSUME NEW s \in Strings, ~Blank(s)
    PROVE  \E a \in 1..Len(s) : \E b \in a..Len(s) : Edges(s, a, b)
<1> DEFINE ink == {i \in 1..Len(s) : s[i] \notin Space}
<1>1. Len(s) \in Nat /\ ink # {} /\ ink \in SUBSET (0..Len(s)) /\ ink \in SUBSET Nat
  BY DEF Strings, Blank
<1>2. Min(ink) \in ink /\ \A i \in ink : Min(ink) <= i
  BY <1>1, LeastIsMin
<1>3. Max(ink) \in ink /\ \A i \in ink : i <= Max(ink)
  BY <1>1, GreatestIsMax
<1>4. Min(ink) \in 1..Len(s) /\ Max(ink) \in Min(ink)..Len(s)
  <2>1. Min(ink) \in 1..Len(s) /\ Max(ink) \in 1..Len(s) /\ Min(ink) <= Max(ink)
    BY <1>2, <1>3
  <2> QED BY <1>1, <2>1
<1>5. Edges(s, Min(ink), Max(ink))
  BY <1>2, <1>3 DEF Edges
<1> QED BY <1>4, <1>5

LEMMA TrimType ==
    ASSUME NEW s \in Strings
    PROVE  TrimSpace(s) \in Strings
<1>1. CASE Blank(s)
  <2>1. <<>> \in Seq(Chars)
    OBVIOUS
  <2> QED BY <1>1, <2>1, TrimBlank DEF Strings
<1>2. CASE ~Blank(s)
  <2>1. PICK a \in 1..Len(s) : \E b \in a..Len(s) : Edges(s, a, b)
    BY <1>2, HasEdges
  <2>2. PICK b \in a..Len(s) : Edges(s, a, b)
    BY <2>1
  <2>3. a \in 1..(Len(s) + 1) /\ b \in (a - 1)..Len(s)
    BY DEF Strings
  <2>4. SubSeq(s, a, b) \in Strings
    BY <2>3, PartEffect
  <2>5. TrimSpace(s) = SubSeq(s, a, b)
    BY <2>2, TrimEdges
  <2> QED BY <2>4, <2>5
<1> QED BY <1>1, <1>2

-----------------------------------------------------------------------------
(* Blanks at the end of a command line.                                    *)

\* Texts that differ only in the blanks at their ends.
Similar(s, t) ==
    /\ \A i \in 1..Len(s) : IF i <= Len(t) THEN s[i] = t[i] ELSE s[i] \in Space
    /\ \A i \in 1..Len(t) : IF i <= Len(s) THEN s[i] = t[i] ELSE t[i] \in Space

LEMMA SimilarTrim ==
    ASSUME NEW s \in Strings, NEW t \in Strings, Similar(s, t)
    PROVE  TrimSpace(s) = TrimSpace(t)
<1>0. Len(s) \in Nat /\ Len(t) \in Nat
  BY DEF Strings
<1>1. CASE Blank(s)
  <2>1. Blank(t)
    <3> SUFFICES ASSUME NEW i \in 1..Len(t) PROVE t[i] \in Space
      BY DEF Blank
    <3>1. CASE i <= Len(s)
      <4>1. i \in 1..Len(s) /\ s[i] = t[i]
        BY <1>0, <3>1 DEF Similar
      <4> QED BY <1>1, <4>1 DEF Blank
    <3>2. CASE ~(i <= Len(s))
      BY <3>2 DEF Similar
    <3> QED BY <3>1, <3>2
  <2> QED BY <1>1, <2>1, TrimBlank
<1>2. CASE ~Blank(s)
  <2>1. PICK a \in 1..Len(s) : \E b \in a..Len(s) : Edges(s, a, b)
    BY <1>2, HasEdges
  <2>2. PICK b \in a..Len(s) : Edges(s, a, b)
    BY <2>1
  <2>3. b \in 1..Len(s) /\ b \in Nat /\ a \in Nat /\ 1 <= a /\ a <= b
    BY <1>0
  <2>4. b <= Len(t)
    BY <2>2, <2>3 DEF Similar, Edges
  <2>5. \A i \in a..b : s[i] = t[i]
    <3>1. \A i \in a..b : i \in 1..Len(s) /\ i <= Len(t)
      BY <1>0, <2>3, <2>4
    <3> QED BY <3>1 DEF Similar
  <2>6. a \in 1..Len(t) /\ b \in a..Len(t)
    BY <1>0, <2>3, <2>4
  <2>7. Edges(t, a, b)
    <3>1. t[a] \notin Space /\ t[b] \notin Space
      BY <2>2, <2>3, <2>5 DEF Edges
    <3>2. ASSUME NEW i \in 1..Len(t), t[i] \notin Space PROVE a <= i /\ i <= b
      <4>1. i <= Len(s) /\ s[i] = t[i]
        BY <3>2 DEF Similar
      <4>2. i \in 1..Len(s)
        BY <1>0, <4>1
      <4> QED BY <2>2, <3>2, <4>1, <4>2 DEF Edges
    <3> QED BY <3>1, <3>2 DEF Edges
  <2>8. SubSeq(s, a, b) = SubSeq(t, a, b)
    <3>1. /\ SubSeq(s, a, b) = [i \in 1..(b - a + 1) |-> s[a + i - 1]]
          /\ SubSeq(t, a, b) = [i \in 1..(b - a + 1) |-> t[a + i - 1]]
      BY <2>3 DEF Strings
    <3>2. \A i \in 1..(b - a + 1) : a + i - 1 \in a..b
      BY <2>3
    <3> QED BY <2>5, <3>1, <3>2
  <2> QED BY <2>2, <2>6, <2>7, <2>8, TrimEdges
<1> QED BY <1>1, <1>2

LEMMA SimilarSymmetric ==
    ASSUME NEW s \in Strings, NEW t \in Strings, Similar(s, t)
    PROVE  Similar(t, s)
<1>0. Len(s) \in Nat /\ Len(t) \in Nat
  BY DEF Strings
<1> QED BY <1>0 DEF Similar

\* splitCommand finds no space in one text, and one among the blanks behind the other.
LEMMA SplitAtEnd ==
    ASSUME NEW s \in Strings, NEW t \in Strings, Similar(s, t),
           Index(s, SP) # 0, Index(t, SP) = 0
    PROVE  /\ TrimSpace(VerbPart(s)) = TrimSpace(VerbPart(t))
           /\ Argument(s) = <<>> /\ Argument(t) = <<>>
<1> DEFINE k == Index(s, SP)
<1>1. /\ Len(s) \in Nat /\ Len(t) \in Nat /\ k \in 1..Len(s) /\ s[k] = SP
      /\ \A i \in 1..Len(t) : t[i] # SP
  BY IndexEffect
<1>2. VerbPart(s) = SubSeq(s, 1, k - 1) /\ VerbPart(t) = t
      /\ ArgPart(s) = SubSeq(s, k + 1, Len(s)) /\ ArgPart(t) = <<>>
  BY DEF VerbPart, ArgPart, Upto, From
<1> HIDE DEF k
<1>3. k > Len(t)
  BY <1>1 DEF Similar
<1>4. /\ SubSeq(s, 1, k - 1) \in Strings /\ Len(SubSeq(s, 1, k - 1)) = k - 1
      /\ \A i \in 1..(k - 1) : SubSeq(s, 1, k - 1)[i] = s[i]
  BY <1>1 DEF Strings
<1>5. Similar(SubSeq(s, 1, k - 1), t)
  BY <1>1, <1>3, <1>4 DEF Similar
<1>6. SubSeq(s, k + 1, Len(s)) \in Strings /\ Len(SubSeq(s, k + 1, Len(s))) = Len(s) - k
      /\ \A i \in 1..(Len(s) - k) : SubSeq(s, k + 1, Len(s))[i] = s[k + i]
  BY <1>1 DEF Strings
<1>7. Blank(SubSeq(s, k + 1, Len(s)))
  BY <1>1, <1>3, <1>6 DEF Blank, Similar
<1>8. <<>> \in Strings /\ Blank(<<>>)
  BY DEF Strings, Blank
<1> QED BY <1>2, <1>4, <1>5, <1>6, <1>7, <1>8, SimilarTrim, TrimBlank DEF Argument

\* ParseCommand sees no difference between such texts.
LEMMA SimilarCommand ==
    ASSUME NEW s \in Strings, NEW t \in Strings, Similar(s, t)
    PROVE  TrimSpace(VerbPart(s)) = TrimSpace(VerbPart(t)) /\ Argument(s) = Argument(t)
<1> DEFINE k == Index(s, SP)
           n == Index(t, SP)
<1>1. /\ Len(s) \in Nat /\ Len(t) \in Nat /\ k \in 0..Len(s) /\ n \in 0..Len(t)
      /\ k # 0 => s[k] = SP /\ \A i \in 1..(k - 1) : s[i] # SP
      /\ n # 0 => t[n] = SP /\ \A i \in 1..(n - 1) : t[i] # SP
  BY IndexEffect
<1>2. CASE k = 0 /\ n = 0
  BY <1>2, SimilarTrim DEF VerbPart, Argument, ArgPart
<1>3. CASE k # 0 /\ n = 0
  BY <1>3, SplitAtEnd
<1>4. CASE k = 0 /\ n # 0
  BY <1>4, SplitAtEnd, SimilarSymmetric
<1>5. CASE k # 0 /\ n # 0
  <2>0. /\ VerbPart(s) = SubSeq(s, 1, k - 1) /\ ArgPart(s) = SubSeq(s, k + 1, Len(s))
        /\ VerbPart(t) = SubSeq(t, 1, n - 1) /\ ArgPart(t) = SubSeq(t, n + 1, Len(t))
    BY <1>5 DEF VerbPart, ArgPart, Upto, From
  <2> HIDE DEF k, n
  <2>1. k = n
    <3>1. CASE k < n
      BY <1>1, <1>5, <3>1 DEF Similar
    <3>2. CASE n < k
      BY <1>1, <1>5, <3>2 DEF Similar
    <3> QED BY <1>1, <3>1, <3>2
  <2>2. /\ SubSeq(s, 1, k - 1) = [i \in 1..(k - 1) |-> s[i]]
        /\ SubSeq(t, 1, k - 1) = [i \in 1..(k - 1) |-> t[i]]
    BY <1>1, <1>5, <2>1 DEF Strings
  <2>3. SubSeq(s, 1, k - 1) = SubSeq(t, 1, k - 1)
    BY <1>1, <1>5, <2>1, <2>2 DEF Similar
  <2>4. /\ SubSeq(s, k + 1, Len(s)) \in Strings /\ Len(SubSeq(s, k + 1, Len(s))) = Len(s) - k
        /\ \A i \in 1..(Len(s) - k) : SubSeq(s, k + 1, Len(s))[i] = s[k + i]
    BY <1>1, <1>5 DEF Strings
  <2>5. /\ SubSeq(t, k + 1, Len(t)) \in Strings /\ Len(SubSeq(t, k + 1, Len(t))) = Len(t) - k
        /\ \A i \in 1..(Len(t) - k) : SubSeq(t, k + 1, Len(t))[i] = t[k + i]
    BY <1>1, <1>5, <2>1 DEF Strings
  <2>6. Similar(SubSeq(s, k + 1, Len(s)), SubSeq(t, k + 1, Len(t)))
    BY <1>1, <1>5, <2>4, <2>5 DEF Similar
  <2>7. TrimSpace(SubSeq(s, k + 1, Len(s))) = TrimSpace(SubSeq(t, k + 1, Len(t)))
    BY <2>4, <2>5, <2>6, SimilarTrim
  <2> QED BY <2>0, <2>1, <2>3, <2>7 DEF Argument
<1> QED BY <1>2, <1>3, <1>4, <1>5

\* A text without some of the blanks at its end.
Cropped(s, t) ==
    /\ Len(s) <= Len(t) /\ \A i \in 1..Len(s) : s[i] = t[i]
    /\ \A i \in (Len(s) + 1)..Len(t) : t[i] \in Space

LEMMA TrimSuffixCrops ==
    ASSUME NEW s \in Strings, NEW t \in Strings, Blank(t)
    PROVE  TrimSuffix(s, t) \in Strings /\ Cropped(TrimSuffix(s, t), s)
<1>0. Len(s) \in Nat /\ Len(t) \in Nat
  BY DEF Strings
<1>1. TrimSuffix(s, t) \in Strings
  BY TrimSuffixEffect
<1>2. CASE TrimSuffix(s, t) = s
  BY <1>0, <1>1, <1>2 DEF Cropped
<1>3. CASE /\ Len(t) <= Len(s) /\ TrimSuffix(s, t) = SubSeq(s, 1, Len(s) - Len(t))
           /\ \A i \in 1..Len(t) : s[Len(s) - Len(t) + i] = t[i]
  <2> DEFINE n == Len(s) - Len(t)
  <2>1. n \in 0..Len(s) /\ n \in Nat
    BY <1>0, <1>3
  <2>2. ASSUME NEW i \in (n + 1)..Len(s) PROVE s[i] \in Space
    <3>1. i - n \in 1..Len(t) /\ n + (i - n) = i
      BY <1>0, <2>1
    <3>2. s[n + (i - n)] = t[i - n]
      BY <1>3, <3>1
    <3> QED BY <3>1, <3>2 DEF Blank
  <2>3. TrimSuffix(s, t) = SubSeq(s, 1, n)
    BY <1>3
  <2> HIDE DEF n
  <2>4. Len(SubSeq(s, 1, n)) = n /\ \A i \in 1..n : SubSeq(s, 1, n)[i] = s[i]
    BY <2>1 DEF Strings
  <2>5. Len(TrimSuffix(s, t)) = n /\ n <= Len(s)
        /\ \A i \in 1..n : TrimSuffix(s, t)[i] = s[i]
    BY <1>0, <2>1, <2>3, <2>4
  <2> QED BY <1>1, <2>2, <2>5 DEF Cropped
<1> QED BY <1>1, <1>2, <1>3, TrimSuffixEffect

LEMMA CroppedTwice ==
    ASSUME NEW s \in Strings, NEW t \in Strings, NEW u \in Strings,
           Cropped(s, t), Cropped(t, u)
    PROVE  Cropped(s, u)
<1>0. Len(s) \in Nat /\ Len(t) \in Nat /\ Len(u) \in Nat
  BY DEF Strings
<1>1. \A i \in 1..Len(s) : i \in 1..Len(t)
  BY <1>0 DEF Cropped
<1>2. ASSUME NEW i \in (Len(s) + 1)..Len(u) PROVE u[i] \in Space
  <2>1. CASE i <= Len(t)
    <3>1. i \in (Len(s) + 1)..Len(t) /\ i \in 1..Len(t)
      BY <1>0, <2>1
    <3> QED BY <3>1 DEF Cropped
  <2>2. CASE ~(i <= Len(t))
    <3>1. i \in (Len(t) + 1)..Len(u)
      BY <1>0, <2>2
    <3> QED BY <3>1 DEF Cropped
  <2> QED BY <2>1, <2>2
<1> QED BY <1>0, <1>1, <1>2 DEF Cropped

LEMMA CroppedSimilar ==
    ASSUME NEW s \in Strings, NEW t \in Strings, NEW u \in Strings,
           Cropped(s, u), Cropped(t, u)
    PROVE  Similar(s, t)
<1>0. Len(s) \in Nat /\ Len(t) \in Nat /\ Len(u) \in Nat
  BY DEF Strings
<1> QED BY <1>0 DEF Cropped, Similar

LEMMA Blanks ==
    /\ SP \in Chars /\ <<SP>> \in Strings /\ Len(<<SP>>) = 1 /\ Blank(<<SP>>)
    /\ Blank(CRLF) /\ Blank(<<LF>>) /\ Len(<<LF>>) = 1
<1>1. SP \in Chars
  BY WireAssumption DEF WireAssumption, SP
<1>2. SP \in Space /\ CR \in Space /\ LF \in Space
  BY DEF Space
<1> QED BY <1>1, <1>2, Endings DEF Blank, Strings

\* The line ParseCommand reads, without its ending.
Stripped(raw) == TrimSuffix(TrimSuffix(raw, CRLF), <<LF>>)

LEMMA StrippedCrops ==
    ASSUME NEW raw \in Strings
    PROVE  Stripped(raw) \in Strings /\ Cropped(Stripped(raw), raw)
<1>1. CRLF \in Strings /\ <<LF>> \in Strings
  BY Endings
<1>2. TrimSuffix(raw, CRLF) \in Strings /\ Cropped(TrimSuffix(raw, CRLF), raw)
  BY <1>1, Blanks, TrimSuffixCrops
<1>3. Stripped(raw) \in Strings /\ Cropped(Stripped(raw), TrimSuffix(raw, CRLF))
  BY <1>1, <1>2, Blanks, TrimSuffixCrops DEF Stripped
<1> QED BY <1>2, <1>3, CroppedTwice

\* What becomes of a line of this verb and argument.
Parsed(verb, arg) ==
    IF \/ verb = Unknown
       \/ CommandRequiresArgument(verb) /\ arg = <<>>
       \/ CommandForbidsArgument(verb) /\ arg # <<>>
    THEN NotParsed
    ELSE [ok |-> TRUE, verb |-> verb, arg |-> arg]

LEMMA ParseForm ==
    ASSUME NEW raw \in Strings, Len(raw) <= MaxCommandLength
    PROVE  ParseCommand(raw) =
             Parsed(ParseCommandVerb(VerbPart(Stripped(raw))), Argument(Stripped(raw)))
<1> DEFINE line == Stripped(raw)
           verb == ParseCommandVerb(VerbPart(line))
           arg == Argument(line)
<1>1. ~(Len(raw) > MaxCommandLength)
  BY TextAssumption DEF TextAssumption, Strings
<1>2. line = <<>> => verb = Unknown
  <2>1. <<>> \in Strings /\ Blank(<<>>) /\ Len(<<>>) = 0
    BY DEF Strings, Blank
  <2>2. Index(<<>>, SP) = 0
    BY <2>1, IndexEffect
  <2>3. VerbPart(<<>>) = <<>>
    BY <2>2 DEF VerbPart
  <2>4. TrimSpace(<<>>) = <<>>
    BY <2>1, TrimBlank
  <2>5. ParseCommandVerb(VerbPart(<<>>)) = Unknown
    BY <2>1, <2>3, <2>4 DEF ParseCommandVerb
  <2> QED BY <2>5
<1>3. ParseCommand(raw) =
        IF \/ line = <<>> \/ verb = Unknown
           \/ CommandRequiresArgument(verb) /\ arg = <<>>
           \/ CommandForbidsArgument(verb) /\ arg # <<>>
        THEN NotParsed
        ELSE [ok |-> TRUE, verb |-> verb, arg |-> arg]
  BY <1>1 DEF ParseCommand, Stripped
<1> HIDE DEF line, verb, arg
<1> QED BY <1>2, <1>3 DEF Parsed, line, verb, arg

\* Blanks behind a line are no part of the command.
LEMMA BlanksDropped ==
    ASSUME NEW line \in Strings, NEW blanks \in Strings, Blank(blanks),
           Len(line) + Len(blanks) <= MaxCommandLength
    PROVE  ParseCommand(line \o blanks) = ParseCommand(line)
<1> DEFINE raw == line \o blanks
<1>1. /\ raw \in Strings /\ Len(raw) = Len(line) + Len(blanks)
      /\ Len(line) \in Nat /\ Len(blanks) \in Nat
      /\ \A i \in 1..Len(line) : raw[i] = line[i]
      /\ \A i \in 1..Len(blanks) : raw[Len(line) + i] = blanks[i]
  BY ConcatParts DEF Strings
<1> HIDE DEF raw
<1>2. Cropped(line, raw)
  <2>1. ASSUME NEW i \in (Len(line) + 1)..Len(raw) PROVE raw[i] \in Space
    <3>1. i - Len(line) \in 1..Len(blanks) /\ Len(line) + (i - Len(line)) = i
      BY <1>1
    <3>2. raw[Len(line) + (i - Len(line))] = blanks[i - Len(line)]
      BY <1>1, <3>1
    <3> QED BY <3>1, <3>2 DEF Blank
  <2>2. Len(line) <= Len(raw)
    BY <1>1
  <2> QED BY <1>1, <2>1, <2>2 DEF Cropped
<1>3. Stripped(raw) \in Strings /\ Cropped(Stripped(raw), raw)
  BY <1>1, StrippedCrops
<1>4. Stripped(line) \in Strings /\ Cropped(Stripped(line), raw)
  BY <1>1, <1>2, StrippedCrops, CroppedTwice
<1>5. Similar(Stripped(raw), Stripped(line))
  BY <1>1, <1>3, <1>4, CroppedSimilar
<1>6. /\ TrimSpace(VerbPart(Stripped(raw))) = TrimSpace(VerbPart(Stripped(line)))
      /\ Argument(Stripped(raw)) = Argument(Stripped(line))
  BY <1>3, <1>4, <1>5, SimilarCommand
<1>7. ParseCommandVerb(VerbPart(Stripped(raw))) = ParseCommandVerb(VerbPart(Stripped(line)))
  BY <1>6 DEF ParseCommandVerb
<1>8. Len(raw) <= MaxCommandLength /\ Len(line) <= MaxCommandLength
  BY <1>1, TextAssumption DEF TextAssumption
<1>9. ParseCommand(raw) = ParseCommand(line)
  BY <1>1, <1>6, <1>7, <1>8, ParseForm
<1> QED BY <1>9 DEF raw

LEMMA BlanksAllIgnored ==
    ASSUME NEW line \in Strings
    PROVE  BlanksIgnored(line)
<1> SUFFICES ASSUME Len(line) + 3 <= MaxCommandLength
             PROVE  /\ ParseCommand(line \o CRLF) = ParseCommand(line \o <<LF>>)
                    /\ ParseCommand(line \o (<<SP>> \o CRLF)) = ParseCommand(line \o CRLF)
  BY DEF BlanksIgnored
<1>1. Len(line) \in Nat /\ MaxCommandLength \in Nat
  BY TextAssumption DEF TextAssumption, Strings
<1> DEFINE three == <<SP>> \o CRLF
<1>2. CRLF \in Strings /\ <<LF>> \in Strings /\ Len(CRLF) = 2 /\ Len(<<LF>>) = 1
  BY Endings, Blanks
<1>3. three \in Strings /\ Len(three) = 3 /\ Blank(three)
  <2>1. <<SP>> \in Seq(Chars) /\ CRLF \in Seq(Chars)
    BY Blanks, Endings DEF Strings
  <2>2. /\ three \in Seq(Chars) /\ Len(three) = Len(<<SP>>) + Len(CRLF)
        /\ \A i \in 1..Len(<<SP>>) : three[i] = <<SP>>[i]
        /\ \A i \in 1..Len(CRLF) : three[Len(<<SP>>) + i] = CRLF[i]
    BY <2>1, ConcatParts
  <2> HIDE DEF three
  <2>3. Len(three) = 3
    BY <1>2, <2>2, Blanks
  <2>4. ASSUME NEW i \in 1..3 PROVE three[i] \in Space
    <3>1. CASE i = 1
      <4>1. 1 \in 1..Len(<<SP>>)
        BY Blanks
      <4> QED BY <2>2, <3>1, <4>1, Blanks DEF Blank
    <3>2. CASE i # 1
      <4>1. i - 1 \in 1..Len(CRLF) /\ Len(<<SP>>) + (i - 1) = i
        BY <1>2, <3>2, Blanks
      <4>2. three[Len(<<SP>>) + (i - 1)] = CRLF[i - 1]
        BY <2>2, <4>1
      <4> QED BY <4>1, <4>2, Blanks DEF Blank
    <3> QED BY <3>1, <3>2
  <2> QED BY <2>2, <2>3, <2>4 DEF Blank, Strings
<1> HIDE DEF three
<1>4. /\ Len(line) + Len(CRLF) <= MaxCommandLength
      /\ Len(line) + Len(<<LF>>) <= MaxCommandLength
  BY <1>1, <1>2
<1>5. Blank(CRLF) /\ Blank(<<LF>>)
  BY Blanks
<1>6. ParseCommand(line \o CRLF) = ParseCommand(line)
  <2>1. CRLF \in Strings
    BY Endings
  <2> QED BY <1>4, <1>5, <2>1, BlanksDropped
<1>7. ParseCommand(line \o <<LF>>) = ParseCommand(line)
  <2>1. <<LF>> \in Strings
    BY Endings
  <2> QED BY <1>4, <1>5, <2>1, BlanksDropped
<1>8. ParseCommand(line \o three) = ParseCommand(line)
  BY <1>1, <1>3, BlanksDropped
<1> QED BY <1>6, <1>7, <1>8 DEF three

-----------------------------------------------------------------------------
(* Addresses and paths.                                                    *)

LEMMA IndexIs ==
    ASSUME NEW s \in Strings, NEW c, NEW k \in 1..Len(s), s[k] = c,
           \A i \in 1..(k - 1) : s[i] # c
    PROVE  Index(s, c) = k
<1> DEFINE n == Index(s, c)
<1>1. /\ Len(s) \in Nat /\ n \in 0..Len(s) /\ (n = 0 => \A i \in 1..Len(s) : s[i] # c)
      /\ n # 0 => s[n] = c /\ \A i \in 1..(n - 1) : s[i] # c
  BY IndexEffect
<1> HIDE DEF n
<1>2. n = k
  BY <1>1
<1> QED BY <1>2 DEF n

LEMMA LastIndexIs ==
    ASSUME NEW s \in Strings, NEW c, NEW k \in 1..Len(s), s[k] = c,
           \A i \in (k + 1)..Len(s) : s[i] # c
    PROVE  LastIndex(s, c) = k
<1> DEFINE n == LastIndex(s, c)
<1>1. /\ Len(s) \in Nat /\ n \in 0..Len(s) /\ (n = 0 => \A i \in 1..Len(s) : s[i] # c)
      /\ n # 0 => s[n] = c /\ \A i \in (n + 1)..Len(s) : s[i] # c
  BY LastIndexEffect
<1> HIDE DEF n
<1>2. n = k
  BY <1>1
<1> QED BY <1>2 DEF n

\* The rest of a text: its ends and its characters.
LEMMA RestEffect ==
    ASSUME NEW s \in Strings, NEW k \in 1..(Len(s) - 1)
    PROVE  /\ From(s, k + 1) \in Strings
           /\ Head(From(s, k + 1)) = s[k + 1] /\ Last(From(s, k + 1)) = s[Len(s)]
           /\ \A S : ToSet(From(s, k + 1)) \subseteq S <=> \A j \in (k + 1)..Len(s) : s[j] \in S
<1> DEFINE t == SubSeq(s, k + 1, Len(s))
           n == Len(s) - k
<1>0. Len(s) \in Nat /\ n \in Nat /\ n >= 1 /\ From(s, k + 1) = t
  BY DEF Strings, From
<1>1. /\ t \in Strings /\ Len(t) = n /\ DOMAIN t = 1..n
      /\ \A i \in 1..n : t[i] = s[k + i]
  BY <1>0 DEF Strings
<1> HIDE DEF t
<1>2. Head(t) = s[k + 1]
  <2>1. Head(t) = t[1] /\ 1 \in 1..n
    BY <1>0, <1>1 DEF Strings
  <2> QED BY <1>1, <2>1
<1>3. Last(t) = s[Len(s)]
  BY <1>0, <1>1 DEF Last
<1>4. ASSUME NEW S PROVE ToSet(t) \subseteq S <=> \A j \in (k + 1)..Len(s) : s[j] \in S
  <2>1. \A j \in (k + 1)..Len(s) : j - k \in 1..n /\ t[j - k] = s[j]
    <3> TAKE j \in (k + 1)..Len(s)
    <3>1. j - k \in 1..n /\ k + (j - k) = j
      BY <1>0
    <3> QED BY <1>1, <3>1
  <2>2. \A i \in 1..n : k + i \in (k + 1)..Len(s)
    BY <1>0
  <2> HIDE DEF n
  <2> QED BY <1>1, <2>1, <2>2 DEF ToSet
<1> QED BY <1>0, <1>1, <1>2, <1>3, <1>4

LEMMA AddressExact ==
    ASSUME NEW s \in Strings
    PROVE  isValidAddress(s) /\ OneAt(s) <=> Address(s)
<1> DEFINE at == LastIndex(s, "@")
           n == Len(s)
<1>1. /\ n \in Nat /\ at \in 0..n
      /\ at # 0 => s[at] = "@"
  BY LastIndexEffect
<1>2. ASSUME isValidAddress(s), OneAt(s) PROVE Address(s)
  <2>1. at \in 2..(n - 1) /\ at \in 1..(n - 1)
    BY <1>1, <1>2 DEF isValidAddress
  <2>2. /\ Head(From(s, at + 1)) \notin {".", "-"} /\ Last(From(s, at + 1)) \notin {".", "-"}
        /\ ToSet(From(s, at + 1)) \subseteq DomainChars
    BY <1>2 DEF isValidAddress
  <2> HIDE DEF at
  <2>3. /\ s[at + 1] \notin {".", "-"} /\ s[n] \notin {".", "-"}
        /\ \A j \in (at + 1)..n : s[j] \in DomainChars
    BY <2>1, <2>2, RestEffect
  <2> QED BY <1>1, <1>2, <2>1, <2>3 DEF Address
<1>3. ASSUME Address(s) PROVE isValidAddress(s) /\ OneAt(s)
  <2>1. PICK i \in 2..(n - 1) :
          /\ s[i] = "@" /\ OneAt(s) /\ \A j \in (i + 1)..n : s[j] \in DomainChars
          /\ {s[i + 1], s[n]} \cap {".", "-"} = {}
    BY <1>3 DEF Address
  <2>2. i \in 1..n /\ i \in 1..(n - 1)
    BY <1>1
  <2>3. \A j \in (i + 1)..n : s[j] # "@"
    BY <2>1 DEF DomainChars
  <2>4. at = i
    BY <2>1, <2>2, <2>3, LastIndexIs
  <2>5. /\ Head(From(s, i + 1)) \notin {".", "-"} /\ Last(From(s, i + 1)) \notin {".", "-"}
        /\ ToSet(From(s, i + 1)) \subseteq DomainChars
    BY <2>1, <2>2, RestEffect
  <2>6. i \notin {0, 1, n}
    BY <1>1
  <2> QED BY <2>1, <2>4, <2>5, <2>6 DEF isValidAddress
<1> QED BY <1>2, <1>3

\* Where extractPath cuts a source route off, and the grammar of what is in the brackets.
Colon(inner) == IF HasPrefix(inner, "@") THEN Index(inner, ":") ELSE 0
Routes(inner) == {i \in DOMAIN inner : inner[1] = "@" /\ inner[i] = ":"}
Inside(inner) ==
    \/ inner = <<>>
    \/ Routes(inner) = {} /\ Address(inner)
    \/ Routes(inner) # {} /\ Address(From(inner, Min(Routes(inner)) + 1))

LEMMA InsideExact ==
    ASSUME NEW inner \in Strings
    PROVE  /\ Colon(inner) \in 0..Len(inner)
           /\ Inside(inner) <=> \/ inner = <<>>
                                \/ /\ isValidAddress(From(inner, Colon(inner) + 1))
                                   /\ OneAt(From(inner, Colon(inner) + 1))
<1>0. Len(inner) \in Nat /\ DOMAIN inner = 1..Len(inner)
  BY DEF Strings
<1>1. Colon(inner) \in 0..Len(inner)
  BY <1>0, IndexEffect DEF Colon
<1>2. CASE inner = <<>>
  BY <1>1, <1>2 DEF Inside
<1>3. CASE inner # <<>>
  <2>1. Head(inner) = inner[1] /\ 1 \in 1..Len(inner)
    BY <1>0, <1>3 DEF Strings
  <2>2. CASE Routes(inner) = {}
    <3>1. Colon(inner) = 0
      <4>1. CASE inner[1] = "@"
        <5>1. \A i \in 1..Len(inner) : inner[i] # ":"
          BY <1>0, <2>2, <4>1 DEF Routes
        <5>2. Index(inner, ":") = 0
          BY <1>0, <5>1, IndexEffect
        <5> QED BY <5>2 DEF Colon
      <4>2. CASE inner[1] # "@"
        BY <2>1, <4>2 DEF Colon, HasPrefix
      <4> QED BY <4>1, <4>2
    <3>2. From(inner, 0 + 1) = inner
      BY DEF From, Strings
    <3> QED BY <1>1, <1>3, <2>2, <3>1, <3>2, AddressExact DEF Inside
  <2>3. CASE Routes(inner) # {}
    <3>1. Routes(inner) \in SUBSET Nat /\ Routes(inner) \in SUBSET (1..Len(inner))
      BY <1>0 DEF Routes
    <3>2. Min(Routes(inner)) \in Routes(inner) /\ \A n \in Routes(inner) : Min(Routes(inner)) <= n
      BY <2>3, <3>1, LeastIsMin
    <3> DEFINE m == Min(Routes(inner))
    <3>3. m \in 1..Len(inner) /\ inner[1] = "@" /\ inner[m] = ":"
      BY <3>1, <3>2 DEF Routes
    <3>4. \A i \in 1..(m - 1) : inner[i] # ":"
      <4> SUFFICES ASSUME NEW i \in 1..(m - 1), inner[i] = ":" PROVE FALSE
        OBVIOUS
      <4>1. i \in 1..Len(inner) /\ ~(m <= i)
        BY <1>0, <3>3
      <4>2. i \in Routes(inner)
        BY <1>0, <3>3, <4>1 DEF Routes
      <4> QED BY <3>2, <4>1, <4>2
    <3> HIDE DEF m
    <3>5. Index(inner, ":") = m
      BY <3>3, <3>4, IndexIs
    <3>6. Colon(inner) = m
      BY <1>3, <2>1, <3>3, <3>5 DEF Colon, HasPrefix
    <3>7. From(inner, m + 1) \in Strings
      BY <1>0, <3>3 DEF From, Strings
    <3>8. Inside(inner) <=> Address(From(inner, m + 1))
      BY <1>3, <2>3 DEF Inside, m
    <3> QED BY <1>1, <1>3, <3>6, <3>7, <3>8, AddressExact
  <2> QED BY <2>2, <2>3
<1> QED BY <1>2, <1>3

\* A beginning of a text is a path if it ends at the first ">".
LEMMA PathForm ==
    ASSUME NEW s \in Strings, NEW k \in 1..Len(s)
    PROVE  Path(Upto(s, k)) <=> /\ s[1] = "<" /\ Index(s, ">") = k
                                /\ Inside(SubSeq(s, 2, k - 1))
<1> DEFINE p == Upto(s, k)
<1>0. Len(s) \in Nat /\ k \in Nat /\ k >= 1
  BY DEF Strings
<1>1. p \in Strings /\ Len(p) = k /\ \A i \in 1..k : p[i] = s[i]
  BY <1>0 DEF Upto, Strings
<1>2. SubSeq(p, 2, k - 1) = SubSeq(s, 2, k - 1)
  <2>1. /\ SubSeq(p, 2, k - 1) = [i \in 1..(k - 1 - 2 + 1) |-> p[2 + i - 1]]
        /\ SubSeq(s, 2, k - 1) = [i \in 1..(k - 1 - 2 + 1) |-> s[2 + i - 1]]
    BY <1>0, <1>1 DEF SubSeq
  <2>2. \A i \in 1..(k - 1 - 2 + 1) : 2 + i - 1 \in 1..k
    BY <1>0
  <2>3. \A i \in 1..(k - 1 - 2 + 1) : p[2 + i - 1] = s[2 + i - 1]
    BY <1>1, <2>2
  <2> HIDE DEF p
  <2> QED BY <2>1, <2>3
<1> HIDE DEF p
<1>3. Index(p, ">") = k <=> Index(s, ">") = k
  <2>1. ASSUME Index(p, ">") = k PROVE Index(s, ">") = k
    <3>1. p[k] = ">" /\ \A i \in 1..(k - 1) : p[i] # ">"
      BY <1>0, <1>1, <2>1, IndexEffect
    <3>2. s[k] = ">" /\ \A i \in 1..(k - 1) : s[i] # ">"
      BY <1>0, <1>1, <3>1
    <3> QED BY <3>2, IndexIs
  <2>2. ASSUME Index(s, ">") = k PROVE Index(p, ">") = k
    <3>1. s[k] = ">" /\ \A i \in 1..(k - 1) : s[i] # ">"
      BY <1>0, <2>2, IndexEffect
    <3>2. p[k] = ">" /\ (\A i \in 1..(k - 1) : p[i] # ">") /\ k \in 1..Len(p)
      BY <1>0, <1>1, <3>1
    <3> QED BY <1>1, <3>2, IndexIs
  <2> QED BY <2>1, <2>2
<1>4. Path(p) <=> /\ Len(p) >= 2 /\ p[1] = "<" /\ Index(p, ">") = Len(p)
                  /\ Inside(SubSeq(p, 2, Len(p) - 1))
  BY DEF Path, Inside, Routes
<1>5. p[1] = s[1]
  BY <1>0, <1>1
<1>6. s[1] = "<" /\ Index(s, ">") = k => k >= 2
  <2>1. Index(s, ">") = k => s[k] = ">"
    BY <1>0, IndexEffect
  <2> QED BY <1>0, <2>1
<1>7. Path(p) <=> /\ k >= 2 /\ s[1] = "<" /\ Index(p, ">") = k
                  /\ Inside(SubSeq(s, 2, k - 1))
  BY <1>1, <1>2, <1>4, <1>5
<1> QED BY <1>3, <1>6, <1>7 DEF p

\* extractPath takes a text that begins with a path, up to its end, and beyond these only
\* texts whose address has a second "@".
LEMMA ExtractExact ==
    ASSUME NEW u \in Strings
    PROVE  LET s == TrimSpace(u)
               k == Index(s, ">")
               inner == SubSeq(s, 2, k - 1)
           IN  /\ extractPath(u).ok /\ OneAt(extractPath(u).address) <=>
                    \E i \in DOMAIN s : Path(Upto(s, i))
               /\ extractPath(u).ok =>
                    /\ k \in 2..Len(s) /\ s[1] = "<" /\ s[k] = ">" /\ inner \in Strings
                    /\ extractPath(u).route \in Strings /\ extractPath(u).address \in Strings
                    /\ extractPath(u).route \o extractPath(u).address = inner
<1> DEFINE s == TrimSpace(u)
           k == Index(s, ">")
           inner == SubSeq(s, 2, k - 1)
           rest == From(inner, Colon(inner) + 1)
<1>1. s \in Strings
  BY TrimType
<1>2. extractPath(u) =
        IF ~HasPrefix(s, "<") \/ k = 0 THEN NoPath
        ELSE IF inner = <<>> THEN [NoPath EXCEPT !.ok = TRUE, !.null = TRUE]
        ELSE IF ~isValidAddress(rest) THEN NoPath
        ELSE [ok |-> TRUE, null |-> FALSE, route |-> Upto(inner, Colon(inner)), address |-> rest]
  BY DEF extractPath, Colon
<1> HIDE DEF s
<1>3. /\ Len(s) \in Nat /\ DOMAIN s = 1..Len(s) /\ k \in 0..Len(s)
      /\ k # 0 => s[k] = ">"
  BY <1>1, IndexEffect DEF Strings
<1>4. HasPrefix(s, "<") <=> Len(s) > 0 /\ s[1] = "<"
  BY <1>1, <1>3 DEF HasPrefix, Strings
<1> HIDE DEF k
<1>5. ASSUME HasPrefix(s, "<"), k # 0
      PROVE  /\ k \in 2..Len(s) /\ inner \in Strings
             /\ Inside(inner) <=> inner = <<>> \/ (isValidAddress(rest) /\ OneAt(rest))
  <2>1. k \in 2..Len(s)
    <3>1. k # 1
      BY <1>3, <1>4, <1>5
    <3> QED BY <1>3, <1>5, <3>1
  <2>2. inner \in Strings
    BY <1>1, <1>3, <2>1 DEF Strings
  <2> HIDE DEF inner
  <2> QED BY <2>1, <2>2, InsideExact
<1>6. (\E i \in DOMAIN s : Path(Upto(s, i))) <=> HasPrefix(s, "<") /\ k # 0 /\ Inside(inner)
  <2>1. \A i \in 1..Len(s) :
          Path(Upto(s, i)) <=> s[1] = "<" /\ k = i /\ Inside(SubSeq(s, 2, i - 1))
    BY <1>1, PathForm DEF k
  <2> QED BY <1>3, <1>4, <1>5, <2>1
<1>7. extractPath(u).ok <=>
        HasPrefix(s, "<") /\ k # 0 /\ (inner = <<>> \/ isValidAddress(rest))
  <2> HIDE DEF inner, rest
  <2> QED BY <1>2 DEF NoPath
<1>8. ASSUME extractPath(u).ok
      PROVE  /\ extractPath(u).route \in Strings /\ extractPath(u).address \in Strings
             /\ extractPath(u).route \o extractPath(u).address = inner
  <2>0. HasPrefix(s, "<") /\ k # 0 /\ inner \in Strings
        /\ (inner = <<>> \/ isValidAddress(rest))
    BY <1>5, <1>7, <1>8
  <2>1. CASE inner = <<>>
    <3>1. extractPath(u).route = <<>> /\ extractPath(u).address = <<>>
      BY <1>2, <1>7, <1>8, <2>1 DEF NoPath
    <3>2. <<>> \in Seq(Chars) /\ <<>> \o <<>> = <<>>
      BY ConcatEmptySeq
    <3> QED BY <2>1, <3>1, <3>2 DEF Strings
  <2>2. CASE inner # <<>>
    <3> DEFINE n == Colon(inner)
    <3>1. inner \in Seq(Chars) /\ n \in 0..Len(inner) /\ Len(inner) \in Nat
      <4> HIDE DEF inner
      <4>1. Colon(inner) \in 0..Len(inner)
        BY <2>0, InsideExact
      <4> QED BY <2>0, <4>1 DEF Strings
    <3>2. extractPath(u) = [ok |-> TRUE, null |-> FALSE, route |-> Upto(inner, n),
                            address |-> rest]
      <4> HIDE DEF inner, rest
      <4> QED BY <1>2, <2>0, <2>2
    <3>3. /\ extractPath(u).route = SubSeq(inner, 1, n)
          /\ extractPath(u).address = SubSeq(inner, n + 1, Len(inner))
      <4>1. Upto(inner, n) = SubSeq(inner, 1, n) /\ rest = SubSeq(inner, n + 1, Len(inner))
        BY DEF Upto, From
      <4> HIDE DEF inner, rest, n
      <4>2. extractPath(u).route = Upto(inner, n) /\ extractPath(u).address = rest
        BY <3>2
      <4> QED BY <4>1, <4>2
    <3> HIDE DEF inner, n
    <3>4. 1 \in 1..(Len(inner) + 1) /\ n \in (1 - 1)..Len(inner) /\ Len(inner) \in n..Len(inner)
      BY <3>1
    <3>5. SubSeq(inner, 1, n) \o SubSeq(inner, n + 1, Len(inner)) = SubSeq(inner, 1, Len(inner))
      BY <3>1, <3>4, ConcatAdjacentSubSeq
    <3>6. SubSeq(inner, 1, Len(inner)) = inner
      BY <3>1, SubSeqFull
    <3>7. SubSeq(inner, 1, n) \in Seq(Chars) /\ SubSeq(inner, n + 1, Len(inner)) \in Seq(Chars)
      BY <3>1
    <3> QED BY <3>3, <3>5, <3>6, <3>7 DEF Strings
  <2> QED BY <2>1, <2>2
<1>9. extractPath(u).ok => s[1] = "<" /\ s[k] = ">"
  BY <1>3, <1>4, <1>7
<1>10. extractPath(u).ok /\ OneAt(extractPath(u).address) <=>
         HasPrefix(s, "<") /\ k # 0 /\ (inner = <<>> \/ (isValidAddress(rest) /\ OneAt(rest)))
  <2> HIDE DEF inner, rest
  <2>1. CASE ~extractPath(u).ok
    BY <1>7, <2>1
  <2>2. CASE extractPath(u).ok /\ inner = <<>>
    <3>1. extractPath(u).address = <<>>
      BY <1>2, <1>7, <2>2 DEF NoPath
    <3>2. OneAt(<<>>)
      BY DEF OneAt
    <3> QED BY <1>7, <2>2, <3>1, <3>2
  <2>3. CASE extractPath(u).ok /\ inner # <<>>
    <3>1. extractPath(u).address = rest
      BY <1>2, <1>7, <2>3
    <3> QED BY <1>7, <2>3, <3>1
  <2> QED BY <2>1, <2>2, <2>3
<1>11. extractPath(u).ok /\ OneAt(extractPath(u).address) <=>
         \E i \in DOMAIN s : Path(Upto(s, i))
  <2> HIDE DEF inner, rest
  <2> QED BY <1>5, <1>6, <1>10
<1>12. extractPath(u).ok => k \in 2..Len(s) /\ inner \in Strings
  BY <1>5, <1>7
<1> QED BY <1>8, <1>9, <1>11, <1>12 DEF s, k

\* ParseMailPath on the argument of MAIL.
LEMMA MailPathExact ==
    ASSUME NEW s \in Strings
    PROVE  LET arg  == TrimSpace(s)
               rest == TrimSpace(Tail(arg))
               path == ParseMailPath(s, "FROM:")
           IN  path.ok /\ OneAt(path.address) <=>
                 /\ arg # <<>> /\ ToUpper(Head(arg)) = "FROM:"
                 /\ \E i \in DOMAIN rest : Path(Upto(rest, i))
<1> DEFINE arg == TrimSpace(s)
           rest == TrimSpace(Tail(arg))
           good == arg # <<>> /\ ToUpper(Head(arg)) = "FROM:"
<1>1. arg \in Strings
  BY TrimType
<1>2. ParseMailPath(s, "FROM:") = IF good THEN extractPath(Tail(arg)) ELSE NoPath
  BY DEF ParseMailPath
<1> HIDE DEF arg
<1>3. CASE good
  <2>1. Tail(arg) \in Strings
    BY <1>1, <1>3 DEF Strings
  <2>2. extractPath(Tail(arg)).ok /\ OneAt(extractPath(Tail(arg)).address) <=>
          \E i \in DOMAIN rest : Path(Upto(rest, i))
    BY <2>1, ExtractExact
  <2> HIDE DEF good
  <2>3. ParseMailPath(s, "FROM:") = extractPath(Tail(arg))
    BY <1>2, <1>3
  <2> QED BY <1>3, <2>2, <2>3 DEF good, arg
<1>4. CASE ~good
  <2>1. ~ParseMailPath(s, "FROM:").ok
    <3> HIDE DEF good
    <3> QED BY <1>2, <1>4 DEF NoPath
  <2> QED BY <1>4, <2>1 DEF arg
<1> QED BY <1>3, <1>4

\* Both functions that look for the end of the path find the same place.
LEMMA PathEndsOnce ==
    ASSUME NEW s \in Strings, ParseMailPath(s, "FROM:").ok
    PROVE  LET arg  == TrimSpace(s)
               path == ParseMailPath(s, "FROM:")
           IN  \E i \in DOMAIN arg :
                 /\ TrimSpace(SubSeq(arg, 2, i)) =
                      <<"<">> \o path.route \o path.address \o <<">">>
                 /\ parseESMTPParams(arg) = ReadParams(Fields(From(arg, i + 1)))
<1> DEFINE arg == TrimSpace(s)
           u == Tail(arg)
           t == TrimSpace(u)
           k == Index(t, ">")
           path == ParseMailPath(s, "FROM:")
           inner == SubSeq(t, 2, k - 1)
<1>1. arg \in Strings /\ arg # <<>> /\ ToUpper(Head(arg)) = "FROM:"
  <2>1. arg \in Strings
    BY TrimType
  <2>2. path = IF arg = <<>> \/ ToUpper(Head(arg)) # "FROM:" THEN NoPath
               ELSE extractPath(Tail(arg))
    BY DEF ParseMailPath
  <2> HIDE DEF arg
  <2>3. ~(arg = <<>> \/ ToUpper(Head(arg)) # "FROM:")
    <3>1. ~NoPath.ok
      BY DEF NoPath
    <3> QED BY <2>2, <3>1
  <2> QED BY <2>1, <2>3
<1>2. path = extractPath(u)
  BY <1>1 DEF ParseMailPath
<1> HIDE DEF arg
<1>3. /\ Len(arg) \in Nat /\ Len(arg) >= 1 /\ DOMAIN arg = 1..Len(arg)
      /\ u \in Strings /\ Len(u) = Len(arg) - 1 /\ \A i \in 1..Len(u) : u[i] = arg[i + 1]
  BY <1>1 DEF Strings
<1>4. arg[1] # ">"
  <2>1. Head(arg) = arg[1]
    BY <1>1 DEF Strings
  <2> QED BY <1>1, <2>1 DEF ToUpper
<1> HIDE DEF u
<1>5. /\ k \in 2..Len(t) /\ t[1] = "<" /\ t[k] = ">" /\ inner \in Strings
      /\ path.route \in Strings /\ path.address \in Strings
      /\ path.route \o path.address = inner
  <2> HIDE DEF path
  <2>1. path.ok
    BY DEF path
  <2> QED BY <1>2, <1>3, <2>1, ExtractExact
<1>6. t \in Strings /\ Len(t) \in Nat /\ \A i \in 1..(k - 1) : t[i] # ">"
  BY <1>3, <1>5, TrimType, IndexEffect
<1> HIDE DEF path
<1>7. ~Blank(u)
  BY <1>3, <1>5, TrimBlank
<1>8. PICK a \in 1..Len(u) : \E b \in a..Len(u) : Edges(u, a, b)
  BY <1>3, <1>7, HasEdges
<1>9. PICK b \in a..Len(u) : Edges(u, a, b)
  BY <1>8
<1>10. t = SubSeq(u, a, b)
  BY <1>3, <1>9, TrimEdges
<1> HIDE DEF t, k
<1>11. /\ Len(t) = b - a + 1 /\ \A i \in 1..Len(t) : t[i] = u[a + i - 1]
       /\ a \in Nat /\ b \in Nat /\ 1 <= a /\ a <= b /\ b <= Len(u)
  <2>1. a \in 1..(Len(u) + 1) /\ b \in (a - 1)..Len(u) /\ a \in Nat /\ b \in Nat
        /\ 1 <= a /\ a <= b /\ b <= Len(u)
    BY <1>3
  <2>2. Len(SubSeq(u, a, b)) = b - a + 1
        /\ \A i \in 1..(b - a + 1) : SubSeq(u, a, b)[i] = u[a + i - 1]
    BY <1>3, <2>1, PartEffect
  <2> QED BY <1>10, <2>1, <2>2
<1> DEFINE i == a + k
           v == SubSeq(arg, 2, i)
<1>12. i \in 2..Len(arg) /\ k \in Nat /\ k >= 2 /\ k <= Len(t)
  BY <1>3, <1>5, <1>6, <1>11
<1>13. \A j \in 1..k : u[a + j - 1] = t[j] /\ a + j - 1 \in 1..Len(u)
  BY <1>3, <1>6, <1>11, <1>12
<1>14. Index(arg, ">") = i
  <2>1. arg[i] = ">"
    <3>1. k \in 1..k /\ a + k - 1 + 1 = i
      BY <1>11, <1>12
    <3>2. u[a + k - 1] = arg[a + k - 1 + 1]
      BY <1>3, <1>13, <3>1
    <3> QED BY <1>5, <1>13, <3>1, <3>2
  <2>2. ASSUME NEW j \in 1..(i - 1) PROVE arg[j] # ">"
    <3>1. CASE j = 1
      BY <1>4, <3>1
    <3>2. CASE j # 1 /\ j <= a
      <4>1. j - 1 \in 1..Len(u) /\ ~(a <= j - 1) /\ j - 1 + 1 = j
        BY <1>3, <1>11, <3>2
      <4>2. u[j - 1] \in Space /\ u[j - 1] = arg[j - 1 + 1]
        BY <1>3, <1>9, <4>1 DEF Edges
      <4>3. ">" \notin Space
        BY DEF Space, SP, CR, LF
      <4> QED BY <4>1, <4>2, <4>3
    <3>3. CASE j > a
      <4>1. j - a \in 1..(k - 1) /\ j - a \in 1..k /\ a + (j - a) - 1 + 1 = j
        BY <1>11, <1>12, <3>3
      <4>2. u[a + (j - a) - 1] = t[j - a] /\ u[a + (j - a) - 1] = arg[a + (j - a) - 1 + 1]
        BY <1>3, <1>13, <4>1
      <4>3. t[j - a] # ">"
        BY <1>6, <4>1
      <4> QED BY <4>1, <4>2, <4>3
    <3>4. j \in Nat
      BY <1>12
    <3> QED BY <1>11, <3>1, <3>2, <3>3, <3>4
  <2>3. i \in 1..Len(arg)
    BY <1>12
  <2> HIDE DEF i
  <2> QED BY <1>1, <2>1, <2>2, <2>3, IndexIs
<1>15. parseESMTPParams(arg) = ReadParams(Fields(From(arg, i + 1)))
  <2>1. i # 0
    BY <1>12
  <2> HIDE DEF i
  <2> QED BY <1>14, <2>1 DEF parseESMTPParams
<1>16. /\ v \in Strings /\ Len(v) = a + k - 1
       /\ \A j \in 1..(a + k - 1) : v[j] = u[j]
  <2>1. 2 \in 1..(Len(arg) + 1) /\ i \in (2 - 1)..Len(arg) /\ i - 2 + 1 = a + k - 1
    BY <1>11, <1>12
  <2>2. /\ v \in Strings /\ Len(v) = i - 2 + 1
        /\ \A j \in 1..(i - 2 + 1) : v[j] = arg[2 + j - 1]
    BY <1>1, <2>1, PartEffect
  <2>3. ASSUME NEW j \in 1..(a + k - 1) PROVE v[j] = u[j]
    <3>1. j \in 1..(i - 2 + 1) /\ j \in 1..Len(u) /\ 2 + j - 1 = j + 1
      BY <1>3, <1>11, <1>12, <2>1
    <3> HIDE DEF v, i
    <3> QED BY <1>3, <2>2, <3>1
  <2> QED BY <2>1, <2>2, <2>3
<1> HIDE DEF v, i
<1>17. Edges(v, a, a + k - 1)
  <2>1. a \in 1..(a + k - 1) /\ a + k - 1 \in 1..(a + k - 1)
    BY <1>11, <1>12
  <2>2. v[a] \notin Space
    BY <1>9, <1>16, <2>1 DEF Edges
  <2>3. v[a + k - 1] = ">" /\ ">" \notin Space
    <3>1. k \in 1..k
      BY <1>12
    <3>2. u[a + k - 1] = ">"
      BY <1>5, <1>13, <3>1
    <3> QED BY <1>16, <2>1, <3>2 DEF Space, SP, CR, LF
  <2>4. ASSUME NEW j \in 1..(a + k - 1), v[j] \notin Space PROVE a <= j /\ j <= a + k - 1
    <3>1. j \in 1..Len(u) /\ u[j] \notin Space
      BY <1>3, <1>6, <1>11, <1>12, <1>16, <2>4
    <3>2. a <= j
      BY <1>9, <3>1 DEF Edges
    <3> QED BY <1>11, <1>12, <3>2
  <2> QED BY <1>16, <2>2, <2>3, <2>4 DEF Edges
<1>18. TrimSpace(v) = SubSeq(v, a, a + k - 1)
  <2>1. a \in 1..Len(v) /\ a + k - 1 \in a..Len(v)
    BY <1>11, <1>12, <1>16
  <2> QED BY <1>16, <1>17, <2>1, TrimEdges
<1>19. SubSeq(v, a, a + k - 1) = SubSeq(t, 1, k)
  <2>1. a \in 1..(Len(v) + 1) /\ a + k - 1 \in (a - 1)..Len(v) /\ a + k - 1 - a + 1 = k
    BY <1>11, <1>12, <1>16
  <2>2. /\ SubSeq(v, a, a + k - 1) \in Strings /\ Len(SubSeq(v, a, a + k - 1)) = k
        /\ \A j \in 1..k : SubSeq(v, a, a + k - 1)[j] = v[a + j - 1]
    <3> DEFINE e == a + k - 1
    <3>1. e \in (a - 1)..Len(v) /\ e - a + 1 = k
      BY <1>11, <1>12, <2>1
    <3> HIDE DEF e
    <3>2. /\ SubSeq(v, a, e) \in Strings /\ Len(SubSeq(v, a, e)) = e - a + 1
          /\ \A j \in 1..(e - a + 1) : SubSeq(v, a, e)[j] = v[a + j - 1]
      BY <1>16, <2>1, <3>1, PartEffect
    <3> QED BY <3>1, <3>2 DEF e
  <2>3. 1 \in 1..(Len(t) + 1) /\ k \in (1 - 1)..Len(t) /\ k - 1 + 1 = k
    BY <1>6, <1>12
  <2>4. /\ SubSeq(t, 1, k) \in Strings /\ Len(SubSeq(t, 1, k)) = k
        /\ \A j \in 1..k : SubSeq(t, 1, k)[j] = t[1 + j - 1]
    BY <1>6, <2>3, PartEffect
  <2>5. ASSUME NEW j \in 1..k PROVE v[a + j - 1] = t[1 + j - 1]
    <3>1. a + j - 1 \in 1..(a + k - 1) /\ 1 + j - 1 = j
      BY <1>11, <1>12
    <3> QED BY <1>13, <1>16, <3>1
  <2> QED BY <2>2, <2>4, <2>5, SeqEqual DEF Strings
<1>20. SubSeq(t, 1, k) = <<"<">> \o path.route \o path.address \o <<">">>
  <2>0. t \in Seq(Chars) /\ path.route \in Seq(Chars) /\ path.address \in Seq(Chars)
        /\ inner \in Seq(Chars)
    BY <1>5, <1>6 DEF Strings
  <2>1. <<"<">> \in Seq(Chars) /\ <<">">> \in Seq(Chars)
    <3>1. t[1] \in Chars /\ t[k] \in Chars
      BY <1>6, <1>12, <2>0
    <3> QED BY <1>5, <3>1
  <2>2. SubSeq(t, 1, k) = SubSeq(t, 1, k - 1) \o <<t[k]>>
    BY <1>12, <2>0, SubSeqRecursiveSecond
  <2>3. SubSeq(t, 1, k - 1) = <<t[1]>> \o SubSeq(t, 1 + 1, k - 1)
    BY <1>12, <2>0, SubSeqRecursiveFirst
  <2>4. SubSeq(t, 1, k) = (<<"<">> \o inner) \o <<">">>
    BY <1>5, <2>2, <2>3
  <2>5. <<"<">> \o path.route \o path.address = <<"<">> \o inner
    <3>1. \A x, y, z \in Seq(Chars) : (x \o y) \o z = x \o (y \o z)
      BY ConcatAssociative
    <3> DEFINE x == path.route
               y == path.address
    <3>2. x \in Seq(Chars) /\ y \in Seq(Chars) /\ x \o y = inner
      BY <1>5, <2>0
    <3> HIDE DEF x, y
    <3>3. (<<"<">> \o x) \o y = <<"<">> \o (x \o y)
      BY <2>1, <3>1, <3>2
    <3> QED BY <3>2, <3>3 DEF x, y
  <2> QED BY <2>4, <2>5
<1>21. i \in DOMAIN arg
  BY <1>3, <1>12
<1> QED BY <1>15, <1>18, <1>19, <1>20, <1>21 DEF v, path, arg

-----------------------------------------------------------------------------
(* Host names.                                                             *)

\* A piece of s lies between the places p and q: the ends of the text or a c, with no c
\* between them.
Piece(s, c, p, q) ==
    /\ p \in 0..Len(s) /\ q \in (p + 1)..(Len(s) + 1)
    /\ p = 0 \/ s[p] = c
    /\ q = Len(s) + 1 \/ s[q] = c
    /\ \A i \in (p + 1)..(q - 1) : s[i] # c

LEMMA CutsForm ==
    ASSUME NEW s \in Strings, NEW c
    PROVE  /\ Len(s) \in Nat /\ 0 \in Cuts(s, {c}) /\ Len(s) + 1 \in Cuts(s, {c})
           /\ \A i \in 1..Len(s) : i \in Cuts(s, {c}) <=> s[i] = c
           /\ Cuts(s, {c}) \in SUBSET (0..(Len(s) + 1))
BY DEF Cuts, Strings

LEMMA SplitForm ==
    ASSUME NEW s \in Strings, NEW c
    PROVE  /\ DOMAIN Split(s, c) = 1..(Cardinality(Cuts(s, {c})) - 1)
           /\ \A k \in 1..(Cardinality(Cuts(s, {c})) - 1) :
                Split(s, c)[k] = SubSeq(s, Cut(s, {c}, k - 1) + 1, Cut(s, {c}, k) - 1)
BY DEF Split, SplitAny

\* Split returns pieces,
LEMMA SplitIsPiece ==
    ASSUME NEW s \in Strings, NEW c, NEW k \in DOMAIN Split(s, c)
    PROVE  \E p, q \in Nat : Piece(s, c, p, q) /\ Split(s, c)[k] = SubSeq(s, p + 1, q - 1)
<1> DEFINE S == Cuts(s, {c})
           n == Cardinality(S)
           p == Cut(s, {c}, k - 1)
           q == Cut(s, {c}, k)
           R(i) == Rank(s, {c}, i)
<1>1. k \in 1..(n - 1) /\ Split(s, c)[k] = SubSeq(s, p + 1, q - 1)
  BY SplitForm
<1>2. k - 1 \in 0..(n - 1) /\ k \in 0..(n - 1) /\ k \in Nat /\ n \in Nat
  BY <1>1, RankGrows
<1>3. p \in S /\ q \in S /\ R(p) = k - 1 /\ R(q) = k
  BY <1>2, CutExists
<1>4. /\ S \in SUBSET (0..(Len(s) + 1)) /\ Len(s) \in Nat
      /\ \A i \in S : R(i) \in 0..(n - 1)
      /\ \A i, j \in S : i < j => R(i) < R(j)
  BY RankGrows
<1>5. \A i \in 1..Len(s) : i \in S <=> s[i] = c
  BY CutsForm
<1> HIDE DEF S, n, p, q, R
<1>6. p \in 0..(Len(s) + 1) /\ q \in 0..(Len(s) + 1)
  BY <1>3, <1>4
<1>7. p < q
  <2>1. CASE p = q
    BY <1>2, <1>3, <2>1
  <2>2. CASE q < p
    <3>1. k < k - 1
      BY <1>3, <1>4, <2>2
    <3> QED BY <1>2, <3>1
  <2> QED BY <1>6, <2>1, <2>2
<1>8. ASSUME NEW i \in (p + 1)..(q - 1), s[i] = c PROVE FALSE
  <2>1. i \in 1..Len(s) /\ p < i /\ i < q
    BY <1>4, <1>6
  <2>2. i \in S
    BY <1>5, <1>8, <2>1
  <2>3. k - 1 < R(i) /\ R(i) < k /\ R(i) \in Nat
    <3>1. R(i) \in 0..(n - 1)
      BY <1>4, <2>2
    <3> QED BY <1>3, <1>4, <2>1, <2>2, <3>1
  <2> QED BY <1>2, <2>3
<1>9. p \in 0..Len(s) /\ q \in (p + 1)..(Len(s) + 1) /\ p \in Nat /\ q \in Nat
  BY <1>4, <1>6, <1>7
<1>10. p = 0 \/ s[p] = c
  BY <1>3, <1>4, <1>5, <1>9
<1>11. q = Len(s) + 1 \/ s[q] = c
  <2>1. CASE q \in 1..Len(s)
    BY <1>3, <1>5, <2>1
  <2> QED BY <1>4, <1>9, <2>1
<1>12. Piece(s, c, p, q)
  BY <1>8, <1>9, <1>10, <1>11 DEF Piece
<1> QED BY <1>1, <1>9, <1>12

\* and every piece.
LEMMA PieceIsSplit ==
    ASSUME NEW s \in Strings, NEW c, NEW p \in Nat, NEW q \in Nat, Piece(s, c, p, q)
    PROVE  \E k \in DOMAIN Split(s, c) : Split(s, c)[k] = SubSeq(s, p + 1, q - 1)
<1> DEFINE S == Cuts(s, {c})
           n == Cardinality(S)
           R(i) == Rank(s, {c}, i)
           k == R(q)
<1>1. /\ S \in SUBSET (0..(Len(s) + 1)) /\ Len(s) \in Nat
      /\ IsFiniteSet(S) /\ n \in Nat
      /\ \A i \in S : R(i) \in 0..(n - 1)
      /\ \A i, j \in S : i < j => R(i) < R(j)
  BY RankGrows
<1>2. (\A i \in 1..Len(s) : i \in S <=> s[i] = c) /\ 0 \in S /\ Len(s) + 1 \in S
  BY CutsForm
<1>3. \A j \in 0..(n - 1) : Cut(s, {c}, j) \in S /\ R(Cut(s, {c}, j)) = j
  BY CutExists
<1>4. p \in S /\ q \in S /\ p < q
  <2>1. p < q /\ p \in 0..Len(s) /\ q \in 1..(Len(s) + 1)
    BY <1>1 DEF Piece
  <2>2. p \in S
    <3> HIDE DEF S
    <3> QED BY <1>1, <1>2, <2>1 DEF Piece
  <2>3. q \in S
    <3>1. CASE q = Len(s) + 1
      BY <1>2, <3>1
    <3>2. CASE q # Len(s) + 1
      <4>1. q \in 1..Len(s) /\ s[q] = c
        BY <1>1, <2>1, <3>2 DEF Piece
      <4> HIDE DEF S
      <4> QED BY <1>2, <4>1
    <3> QED BY <3>1, <3>2
  <2> QED BY <2>1, <2>2, <2>3
<1>5. R(q) = R(p) + 1
  <2> DEFINE B == {j \in S : j < p}
  <2>1. {j \in S : j < q} = B \cup {p}
    <3>1. ASSUME NEW j \in S, j < q PROVE j < p \/ j = p
      <4>1. j \in 0..(Len(s) + 1)
        BY <1>1
      <4>2. ~(p < j)
        <5> SUFFICES ASSUME p < j PROVE FALSE
          OBVIOUS
        <5>1. j \in (p + 1)..(q - 1) /\ j \in 1..Len(s)
          BY <1>1, <3>1, <4>1 DEF Piece
        <5>2. s[j] # c
          BY <5>1 DEF Piece
        <5> HIDE DEF S
        <5> QED BY <1>2, <5>1, <5>2
      <4> QED BY <4>1, <4>2
    <3>2. ASSUME NEW j \in S, j < p \/ j = p PROVE j < q
      <4>1. j \in 0..(Len(s) + 1)
        BY <1>1
      <4> QED BY <1>4, <3>2, <4>1
    <3> HIDE DEF S
    <3> QED BY <1>4, <3>1, <3>2
  <2>2. IsFiniteSet(B) /\ p \notin B
    <3>1. B \in SUBSET S /\ p \notin B
      OBVIOUS
    <3> HIDE DEF B, S
    <3> QED BY <1>1, <3>1, FS_Subset
  <2>3. Cardinality(B \cup {p}) = Cardinality(B) + 1
    <3> HIDE DEF B
    <3> QED BY <2>2, FS_AddElement
  <2>4. R(p) = Cardinality(B) /\ R(q) = Cardinality({j \in S : j < q})
    BY DEF Rank
  <2> HIDE DEF B, S, R
  <2> QED BY <2>1, <2>3, <2>4
<1> HIDE DEF S, n, R
<1>6. k \in 1..(n - 1) /\ k - 1 = R(p) /\ k \in 0..(n - 1) /\ k - 1 \in 0..(n - 1)
  <2>1. R(p) \in 0..(n - 1) /\ R(q) \in 0..(n - 1)
    BY <1>1, <1>4
  <2> QED BY <1>1, <1>5, <2>1
<1>7. ASSUME NEW i \in S, NEW j \in S, R(i) = R(j) PROVE i = j
  <2>1. i \in 0..(Len(s) + 1) /\ j \in 0..(Len(s) + 1)
    BY <1>1
  <2>2. R(i) \in 0..(n - 1) /\ R(j) \in 0..(n - 1)
    BY <1>1
  <2>3. ~(i < j) /\ ~(j < i)
    BY <1>1, <1>7, <2>2
  <2> QED BY <2>1, <2>3
<1>8. Cut(s, {c}, k) = q
  <2>1. Cut(s, {c}, k) \in S /\ R(Cut(s, {c}, k)) = R(q)
    BY <1>3, <1>6
  <2> QED BY <1>4, <1>7, <2>1
<1>9. Cut(s, {c}, k - 1) = p
  <2>1. Cut(s, {c}, k - 1) \in S /\ R(Cut(s, {c}, k - 1)) = R(p)
    BY <1>3, <1>6
  <2> QED BY <1>4, <1>7, <2>1
<1>10. /\ DOMAIN Split(s, c) = 1..(n - 1)
       /\ \A j \in 1..(n - 1) :
            Split(s, c)[j] = SubSeq(s, Cut(s, {c}, j - 1) + 1, Cut(s, {c}, j) - 1)
  BY SplitForm DEF n, S
<1>11. Split(s, c)[k] = SubSeq(s, p + 1, q - 1)
  <2> HIDE DEF k
  <2> QED BY <1>6, <1>8, <1>9, <1>10
<1> QED BY <1>6, <1>10, <1>11

\* Every place lies in a piece or at its end.
LEMMA PieceAround ==
    ASSUME NEW s \in Strings, NEW c, NEW x \in 1..(Len(s) + 1)
    PROVE  \E p, q \in Nat : Piece(s, c, p, q) /\ p < x /\ x <= q
<1> DEFINE S == Cuts(s, {c})
           A == {i \in S : i < x}
           B == {i \in S : x <= i}
<1>1. /\ S \in SUBSET (0..(Len(s) + 1)) /\ Len(s) \in Nat /\ 0 \in S /\ Len(s) + 1 \in S
      /\ \A i \in 1..Len(s) : i \in S <=> s[i] = c
  BY CutsForm
<1>2. A \in SUBSET (0..(Len(s) + 1)) /\ 0 \in A /\ Len(s) + 1 \in Nat
      /\ B \in SUBSET Nat /\ Len(s) + 1 \in B
  <2> HIDE DEF S
  <2>1. \A i \in S : i \in 0..(Len(s) + 1) /\ i \in Nat
    BY <1>1
  <2>2. 0 < x /\ x <= Len(s) + 1 /\ Len(s) + 1 \in Nat
    BY <1>1
  <2> QED BY <1>1, <2>1, <2>2
<1>3. Max(A) \in A /\ \A i \in A : i <= Max(A)
  BY <1>2, GreatestIsMax
<1>4. Min(B) \in B /\ \A i \in B : Min(B) <= i
  BY <1>2, LeastIsMin
<1> DEFINE p == Max(A)
           q == Min(B)
<1>5. p \in S /\ p < x /\ q \in S /\ x <= q
  BY <1>3, <1>4
<1> HIDE DEF p, q
<1>6. p \in 0..Len(s) /\ q \in (p + 1)..(Len(s) + 1) /\ p \in Nat /\ q \in Nat
  <2>1. p \in 0..(Len(s) + 1) /\ q \in 0..(Len(s) + 1)
    BY <1>1, <1>5
  <2> QED BY <1>1, <1>5, <2>1
<1>7. ASSUME NEW i \in (p + 1)..(q - 1), s[i] = c PROVE FALSE
  <2>1. i \in 1..Len(s)
    BY <1>1, <1>6
  <2>2. i \in S
    <3> HIDE DEF S
    <3> QED BY <1>1, <1>7, <2>1
  <2>3. i < x \/ x <= i
    BY <1>6
  <2>4. i <= p \/ q <= i
    BY <1>3, <1>4, <2>2, <2>3 DEF p, q
  <2> QED BY <1>6, <2>4
<1> HIDE DEF S
<1>8. p = 0 \/ s[p] = c
  BY <1>1, <1>5, <1>6
<1>9. q = Len(s) + 1 \/ s[q] = c
  <2>1. CASE q \in 1..Len(s)
    BY <1>1, <1>5, <2>1
  <2> QED BY <1>1, <1>6, <2>1
<1>10. Piece(s, c, p, q)
  BY <1>6, <1>7, <1>8, <1>9 DEF Piece
<1> QED BY <1>5, <1>6, <1>10

\* What ValidLabel asks of a piece.
ValidPiece(s, p, q) ==
    /\ q - p - 1 \in 1..MaxLabel
    /\ s[p + 1] = "a" /\ s[q - 1] = "a"
    /\ \A i \in (p + 1)..(q - 1) : s[i] = "a" \/ s[i] = "-"

LEMMA LabelForm ==
    ASSUME NEW s \in Strings, NEW p \in Nat, NEW q \in Nat, Piece(s, ".", p, q)
    PROVE  ValidLabel(SubSeq(s, p + 1, q - 1)) <=> ValidPiece(s, p, q)
<1> DEFINE t == SubSeq(s, p + 1, q - 1)
           n == q - p - 1
<1>1. Len(s) \in Nat /\ p <= Len(s) /\ p + 1 <= q /\ q <= Len(s) + 1 /\ n \in Nat
  BY DEF Piece, Strings
<1>2. /\ t \in Strings /\ Len(t) = n /\ DOMAIN t = 1..n
      /\ \A i \in 1..n : t[i] = s[p + i]
  BY <1>1 DEF Strings
<1>3. \A i \in (p + 1)..(q - 1) : i - p \in 1..n /\ t[i - p] = s[i]
  <2> TAKE i \in (p + 1)..(q - 1)
  <2>1. i - p \in 1..n /\ p + (i - p) = i
    BY <1>1
  <2> HIDE DEF t, n
  <2> QED BY <1>2, <2>1
<1>4. \A i \in 1..n : p + i \in (p + 1)..(q - 1)
  BY <1>1
<1>5. (\A i \in DOMAIN t : Alphanumeric(t[i]) \/ t[i] = "-")
        <=> \A i \in (p + 1)..(q - 1) : s[i] = "a" \/ s[i] = "-"
  <2> HIDE DEF t, n
  <2> QED BY <1>2, <1>3, <1>4 DEF Alphanumeric
<1>6. n \in 1..MaxLabel => Head(t) = s[p + 1] /\ Last(t) = s[q - 1]
  <2> SUFFICES ASSUME n \in 1..MaxLabel PROVE Head(t) = s[p + 1] /\ Last(t) = s[q - 1]
    OBVIOUS
  <2>1. 1 \in 1..n /\ n \in 1..n /\ p + n = q - 1 /\ n # 0
    BY <1>1
  <2> HIDE DEF t, n
  <2>2. Head(t) = t[1]
    BY <1>2, <2>1 DEF Strings
  <2> QED BY <1>2, <2>1, <2>2 DEF Last
<1> HIDE DEF t, n
<1>7. ValidLabel(t) <=> /\ n \in 1..MaxLabel /\ s[p + 1] = "a" /\ s[q - 1] = "a"
                        /\ \A i \in (p + 1)..(q - 1) : s[i] = "a" \/ s[i] = "-"
  BY <1>2, <1>5, <1>6 DEF ValidLabel, Alphanumeric
<1> QED BY <1>7 DEF ValidPiece, t, n

\* All labels are valid exactly if all pieces are.
LEMMA LabelsValid ==
    ASSUME NEW s \in Strings
    PROVE  (\A i \in DOMAIN Split(s, ".") : ValidLabel(Split(s, ".")[i]))
             <=> \A p, q \in Nat : Piece(s, ".", p, q) => ValidPiece(s, p, q)
<1> DEFINE L == Split(s, ".")
<1>1. ASSUME \A i \in DOMAIN L : ValidLabel(L[i]), NEW p \in Nat, NEW q \in Nat,
             Piece(s, ".", p, q)
      PROVE  ValidPiece(s, p, q)
  <2>1. PICK k \in DOMAIN L : L[k] = SubSeq(s, p + 1, q - 1)
    BY <1>1, PieceIsSplit
  <2>2. ValidLabel(SubSeq(s, p + 1, q - 1))
    BY <1>1, <2>1
  <2> QED BY <1>1, <2>2, LabelForm
<1>2. ASSUME \A p, q \in Nat : Piece(s, ".", p, q) => ValidPiece(s, p, q),
             NEW i \in DOMAIN L
      PROVE  ValidLabel(L[i])
  <2>1. PICK p, q \in Nat : Piece(s, ".", p, q) /\ L[i] = SubSeq(s, p + 1, q - 1)
    BY SplitIsPiece
  <2>2. ValidPiece(s, p, q)
    BY <1>2, <2>1
  <2>3. ValidLabel(SubSeq(s, p + 1, q - 1))
    BY <2>1, <2>2, LabelForm
  <2> QED BY <2>1, <2>3
<1> HIDE DEF L
<1> QED BY <1>1, <1>2 DEF L

LEMMA HostnameExact ==
    ASSUME NEW s \in Strings
    PROVE  isValidHostname(s) <=> Hostname(s)
<1> DEFINE n == Len(s)
           pieces == \A p, q \in Nat : Piece(s, ".", p, q) => ValidPiece(s, p, q)
<1>0. n \in Nat /\ MaxLabel \in Nat /\ DOMAIN s = 1..n
  BY TextAssumption DEF TextAssumption, Strings
<1>1. isValidHostname(s) <=> n \in 1..MaxHostname /\ pieces
  BY LabelsValid DEF isValidHostname
<1>2. ASSUME n \in 1..MaxHostname, pieces PROVE Hostname(s)
  <2>0. n >= 1
    BY <1>0, <1>2
  <2>1. ASSUME NEW i \in 1..n PROVE s[i] \in {"a", "-", "."}
    <3>1. PICK p, q \in Nat : Piece(s, ".", p, q) /\ p < i /\ i <= q
      BY <1>0, PieceAround
    <3>2. ValidPiece(s, p, q)
      BY <1>2, <3>1
    <3>3. CASE i = q
      BY <1>0, <3>1, <3>3 DEF Piece
    <3>4. CASE i # q
      <4>1. i \in (p + 1)..(q - 1)
        BY <1>0, <3>1, <3>4
      <4> QED BY <3>2, <4>1 DEF ValidPiece
    <3> QED BY <3>3, <3>4
  <2>2. ASSUME NEW x \in 1..(n + 1), x = 1 \/ s[x - 1] = "." PROVE s[x] = "a" /\ x \in 1..n
    <3>1. PICK p, q \in Nat : Piece(s, ".", p, q) /\ p < x /\ x <= q
      BY <1>0, PieceAround
    <3>2. ValidPiece(s, p, q)
      BY <1>2, <3>1
    <3>3. p + 1 = x
      <4> SUFFICES ASSUME p + 1 # x PROVE FALSE
        OBVIOUS
      <4>1. x - 1 \in (p + 1)..(q - 1) /\ x # 1
        BY <1>0, <3>1
      <4>2. s[x - 1] # "."
        BY <3>1, <4>1 DEF Piece
      <4> QED BY <2>2, <4>1, <4>2
    <3>4. x \in 1..n
      BY <1>0, <3>1, <3>2, <3>3 DEF Piece, ValidPiece
    <3> QED BY <3>2, <3>3, <3>4 DEF ValidPiece
  <2>3. ASSUME NEW x \in 1..(n + 1), x = n + 1 \/ s[x] = "." PROVE s[x - 1] = "a"
    <3>1. PICK p, q \in Nat : Piece(s, ".", p, q) /\ p < x /\ x <= q
      BY <1>0, PieceAround
    <3>2. ValidPiece(s, p, q)
      BY <1>2, <3>1
    <3>3. q = x
      <4> SUFFICES ASSUME q # x PROVE FALSE
        OBVIOUS
      <4>1. x \in (p + 1)..(q - 1) /\ x # n + 1
        BY <1>0, <3>1 DEF Piece
      <4>2. s[x] # "."
        BY <3>1, <4>1 DEF Piece
      <4> QED BY <2>3, <4>1, <4>2
    <3> QED BY <3>2, <3>3 DEF ValidPiece
  <2>4. {s[1], s[n]} \cap {".", "-"} = {}
    <3>1. s[1] = "a"
      BY <1>0, <2>2
    <3>2. s[n + 1 - 1] = "a" /\ n + 1 - 1 = n
      <4>1. n + 1 \in 1..(n + 1)
        BY <1>0
      <4>2. s[n + 1 - 1] = "a"
        BY <2>3, <4>1
      <4> QED BY <1>0, <4>2
    <3>3. s[n] = "a"
      BY <3>2
    <3> QED BY <3>1, <3>3
  <2>5. ASSUME NEW i \in 1..(n - 1), "." \in {s[i], s[i + 1]} PROVE "a" \in {s[i], s[i + 1]}
    <3>0. i + 1 \in 1..(n + 1) /\ i + 1 - 1 = i
      BY <1>0
    <3>1. CASE s[i] = "."
      <4>1. s[i + 1 - 1] = "."
        BY <3>0, <3>1
      <4> QED BY <2>2, <3>0, <4>1
    <3>2. CASE s[i + 1] = "."
      <4>1. s[i + 1 - 1] = "a"
        BY <2>3, <3>0, <3>2
      <4> QED BY <3>0, <4>1
    <3> QED BY <2>5, <3>1, <3>2
  <2>6. ASSUME NEW i \in 1..n, i + MaxLabel <= n PROVE \E j \in i..(i + MaxLabel) : s[j] = "."
    <3>1. PICK p, q \in Nat : Piece(s, ".", p, q) /\ p < i /\ i <= q
      BY <1>0, PieceAround
    <3>2. q - p - 1 <= MaxLabel /\ q - p - 1 >= 1
      BY <1>0, <1>2, <3>1 DEF ValidPiece
    <3>3. q \in i..(i + MaxLabel) /\ q # n + 1
      BY <1>0, <2>6, <3>1, <3>2
    <3> QED BY <3>1, <3>3 DEF Piece
  <2> HIDE DEF n
  <2> QED BY <1>0, <1>2, <2>1, <2>4, <2>5, <2>6 DEF Hostname, n
<1>3. ASSUME Hostname(s) PROVE n \in 1..MaxHostname /\ pieces
  <2>1. /\ n \in 1..MaxHostname /\ n >= 1
        /\ \A i \in 1..n : s[i] \in {"a", "-", "."}
        /\ {s[1], s[n]} \cap {".", "-"} = {}
        /\ \A i \in 1..(n - 1) : "." \in {s[i], s[i + 1]} => "a" \in {s[i], s[i + 1]}
        /\ \A i \in 1..n : i + MaxLabel <= n => \E j \in i..(i + MaxLabel) : s[j] = "."
    <3>1. n \in 1..MaxHostname
      BY <1>3 DEF Hostname
    <3>2. n >= 1
      BY <1>0, <3>1
    <3>3. /\ \A i \in 1..n : s[i] \in {"a", "-", "."}
          /\ {s[1], s[n]} \cap {".", "-"} = {}
          /\ \A i \in 1..(n - 1) : "." \in {s[i], s[i + 1]} => "a" \in {s[i], s[i + 1]}
      BY <1>0, <1>3 DEF Hostname
    <3>4. \A i \in 1..n : i + MaxLabel <= n => \E j \in i..(i + MaxLabel) : s[j] = "."
      BY <1>0, <1>3 DEF Hostname
    <3> QED BY <3>1, <3>2, <3>3, <3>4
  <2>2. s[1] \notin {".", "-"} /\ s[n] \notin {".", "-"}
    BY <2>1
  <2>3. ASSUME NEW p \in Nat, NEW q \in Nat, Piece(s, ".", p, q) PROVE ValidPiece(s, p, q)
    <3>0. /\ p <= n /\ p + 1 <= q /\ q <= n + 1
          /\ p = 0 \/ s[p] = "."
          /\ q = n + 1 \/ s[q] = "."
          /\ \A i \in (p + 1)..(q - 1) : s[i] # "."
      BY <1>0, <2>3 DEF Piece
    <3>1. q # p + 1
      <4> SUFFICES ASSUME q = p + 1 PROVE FALSE
        OBVIOUS
      <4>1. CASE p = 0
        <5>1. s[1] = "."
          BY <1>0, <2>1, <3>0, <4>1
        <5> QED BY <2>1, <5>1
      <4>2. CASE p # 0 /\ q = n + 1
        <5>1. p = n
          <6>1. p + 1 = n + 1
            BY <4>2
          <6> HIDE DEF n
          <6> QED BY <1>0, <6>1
        <5>2. s[p] = "."
          BY <3>0, <4>2
        <5> QED BY <2>2, <5>1, <5>2
      <4>3. CASE p # 0 /\ q # n + 1
        <5>1. p \in 1..(n - 1) /\ s[p] = "." /\ s[p + 1] = "."
          BY <1>0, <3>0, <4>3
        <5> QED BY <2>1, <5>1
      <4> QED BY <4>1, <4>2, <4>3
    <3>2. q - p - 1 <= MaxLabel
      <4> SUFFICES ASSUME q - p - 1 > MaxLabel PROVE FALSE
        BY <1>0
      <4>1. p + 1 \in 1..n /\ p + 1 + MaxLabel <= n
        BY <1>0, <3>0
      <4>2. PICK j \in (p + 1)..(p + 1 + MaxLabel) : s[j] = "."
        BY <2>1, <4>1
      <4>3. j \in (p + 1)..(q - 1)
        BY <1>0, <3>0
      <4> QED BY <3>0, <4>2, <4>3
    <3>3. q - p - 1 \in 1..MaxLabel
      BY <1>0, <3>0, <3>1, <3>2
    <3>4. ASSUME NEW i \in (p + 1)..(q - 1) PROVE s[i] = "a" \/ s[i] = "-"
      <4>1. i \in 1..n
        BY <1>0, <3>0
      <4> QED BY <2>1, <3>0, <4>1
    <3>5. s[p + 1] = "a"
      <4>0. p + 1 \in (p + 1)..(q - 1)
        BY <3>0, <3>1
      <4>1. s[p + 1] = "a" \/ s[p + 1] = "-"
        BY <3>4, <4>0
      <4>2. CASE p = 0
        <5>1. s[1] # "-" /\ p + 1 = 1
          BY <2>2, <4>2
        <5> QED BY <4>1, <5>1
      <4>3. CASE p # 0
        <5>1. p \in 1..(n - 1) /\ s[p] = "."
          BY <1>0, <3>0, <3>1, <4>3
        <5>2. "a" \in {s[p], s[p + 1]}
          BY <2>1, <5>1
        <5> QED BY <5>1, <5>2
      <4> QED BY <4>2, <4>3
    <3>6. s[q - 1] = "a"
      <4>0. q - 1 \in (p + 1)..(q - 1)
        BY <3>0, <3>1
      <4>1. s[q - 1] = "a" \/ s[q - 1] = "-"
        BY <3>4, <4>0
      <4>2. CASE q = n + 1
        <5>1. q - 1 = n
          BY <1>0, <4>2
        <5> QED BY <2>2, <4>1, <5>1
      <4>3. CASE q # n + 1
        <5>1. q - 1 \in 1..(n - 1) /\ s[q] = "." /\ q - 1 + 1 = q
          BY <1>0, <3>0, <3>1, <4>3
        <5>2. "a" \in {s[q - 1], s[q - 1 + 1]}
          <6>1. s[q - 1 + 1] = "."
            BY <5>1
          <6> QED BY <2>1, <5>1, <6>1
        <5> QED BY <5>1, <5>2
      <4> QED BY <4>2, <4>3
    <3> QED BY <3>3, <3>4, <3>5, <3>6 DEF ValidPiece
  <2> QED BY <2>1, <2>3
<1> HIDE DEF pieces
<1> QED BY <1>1, <1>2, <1>3

LEMMA HostExact ==
    ASSUME NEW s \in Strings
    PROVE  LET arg == TrimSpace(s)
           IN  ParseHeloHostname(s) <=>
                 Hostname(arg) \/ (arg # <<>> /\ arg[1] = "[" /\ arg[Len(arg)] = "]")
<1> DEFINE arg == TrimSpace(s)
<1>1. arg \in Strings
  BY TrimType
<1>2. ParseHeloHostname(s) <=>
        IF HasPrefix(arg, "[") THEN HasSuffix(arg, "]") ELSE isValidHostname(arg)
  BY DEF ParseHeloHostname
<1> HIDE DEF arg
<1>3. HasPrefix(arg, "[") <=> arg # <<>> /\ arg[1] = "["
  BY <1>1 DEF HasPrefix, Strings
<1>4. HasSuffix(arg, "]") <=> arg # <<>> /\ arg[Len(arg)] = "]"
  BY DEF HasSuffix, Last
<1>5. isValidHostname(arg) <=> Hostname(arg)
  BY <1>1, HostnameExact
<1>6. arg # <<>> /\ arg[1] = "[" => ~Hostname(arg)
  <2>1. arg # <<>> => 1 \in DOMAIN arg
    BY <1>1 DEF Strings
  <2> QED BY <2>1 DEF Hostname
<1>7. CASE HasPrefix(arg, "[")
  BY <1>2, <1>3, <1>4, <1>6, <1>7 DEF arg
<1>8. CASE ~HasPrefix(arg, "[")
  BY <1>2, <1>3, <1>5, <1>8 DEF arg
<1> QED BY <1>7, <1>8

-----------------------------------------------------------------------------
(* The theorems.                                                           *)

\* Whatever a command line holds, blanks before its ending, and whether that is CRLF or a
\* line feed, change nothing of what ParseCommand makes of it (parser.go:88).
THEOREM BlanksHarmless == Spec => []BlanksMakeNoDifference
<1>1. Inv => BlanksMakeNoDifference
  BY BlanksAllIgnored DEF Inv, TextOK, Strings, BlanksMakeNoDifference
<1> QED BY <1>1, WireInvariant, PTL

\* ParseMailPath, where the address has one "@", and ParseHeloHostname accept exactly the
\* paths and host names of the grammars, of any length and with any limits on labels and
\* names.
THEOREM GrammarsAccepted == Spec => []ArgumentsExact
<1>1. Inv => ArgumentsExact
  <2> SUFFICES ASSUME Inv PROVE ArgumentsExact
    OBVIOUS
  <2>1. text \in Strings
    BY DEF Inv, TextOK, Strings
  <2> QED BY <2>1, MailPathExact, HostExact DEF ArgumentsExact
<1> QED BY <1>1, WireInvariant, PTL

\* extractPath and parseESMTPParams, which look for the end of the path separately, find
\* the same place in every argument of MAIL that is accepted.
THEOREM PathAndParamsAgree == Spec => []PathAndParamsMeet
<1>1. Inv => PathAndParamsMeet
  <2> SUFFICES ASSUME Inv PROVE PathAndParamsMeet
    OBVIOUS
  <2>1. text \in Strings
    BY DEF Inv, TextOK, Strings
  <2> QED BY <2>1, PathEndsOnce DEF PathAndParamsMeet
<1> QED BY <1>1, WireInvariant, PTL
=============================================================================

---------------------------- MODULE FlatSequences ----------------------------
(***************************************************************************)
(* Facts about FlattenSeq of the community modules, by which the images of *)
(* programs and the lines of a listing are put together: what it is on the *)
(* empty sequence, on one element more, on two sequences joined, and where *)
(* in the result each of its parts lies.                                   *)
(*                                                                         *)
(* They need induction.  It is stated for sets, Induction below, since the *)
(* provers can instantiate that: to prove P for all naturals, take for T   *)
(* the set of the naturals that satisfy P.                                 *)
(***************************************************************************)
EXTENDS Integers, SequencesExt, SequenceTheorems, WellFoundedInduction, TLAPS

\* A set of naturals that is not empty has a least element.
LEMMA LeastOf ==
  ASSUME NEW T, T \subseteq Nat, T # {}
  PROVE  \E x \in T : \A y \in T : x <= y
<1>1. PICK x \in T : \A y \in T : ~(<<y, x>> \in OpToRel(<, Nat))
      BY NatLessThanWellFounded, WFMin
<1>2. \A y \in T : ~(y < x) BY <1>1, Zenon DEF OpToRel
<1>3. x \in Nat /\ \A y \in T : y \in Nat OBVIOUS
<1>4. \A y \in T : x <= y BY <1>2, <1>3
<1> QED BY <1>4

\* A set that has 0 and with each natural the next has them all.
LEMMA Induction ==
  ASSUME NEW T, 0 \in T, \A n \in Nat : n \in T => n + 1 \in T
  PROVE  Nat \subseteq T
<1> SUFFICES ASSUME Nat \ T # {} PROVE FALSE OBVIOUS
<1>1. PICK x \in Nat \ T : \A y \in Nat \ T : x <= y BY LeastOf
<1>2. x # 0 /\ x - 1 \in Nat BY <1>1
<1>3. x - 1 \in T BY <1>1, <1>2
<1> QED BY <1>1, <1>2, <1>3

\* A set that has the empty sequence and with each sequence those one element longer.
LEMMA SequenceInduction ==
  ASSUME NEW S, NEW T, <<>> \in T, \A s \in Seq(S), e \in S : s \in T => Append(s, e) \in T
  PROVE  Seq(S) \subseteq T
<1> DEFINE N == {n \in Nat : \A s \in Seq(S) : Len(s) = n => s \in T}
<1>1. 0 \in N
  <2>1. \A s \in Seq(S) : Len(s) = 0 => s = <<>> BY EmptySeq
  <2> QED BY <2>1
<1>2. ASSUME NEW n \in Nat, n \in N PROVE n + 1 \in N
  <2> SUFFICES ASSUME NEW s \in Seq(S), Len(s) = n + 1 PROVE s \in T OBVIOUS
  <2> DEFINE front == SubSeq(s, 1, n)
  <2>1. front \in Seq(S) /\ Len(front) = n /\ s[n + 1] \in S
    <3>1. \A i \in 1 .. n + 1 : s[i] \in S BY ElementOfSeq
    <3>2. \A i \in 1 .. n : s[i] \in S BY <3>1
    <3>3. n + 1 \in 1 .. n + 1 BY <1>2
    <3> QED BY <3>1, <3>2, <3>3, SubSeqProperties
  <2>2. s = Append(front, s[n + 1])
    <3>1. n + 1 \in 1 .. Len(s) /\ n + 1 \in 1 .. n + 1 /\ 1 \in 1 .. n + 1 OBVIOUS
    <3>2. SubSeq(s, 1, n + 1) = SubSeq(s, 1, n + 1 - 1) \o << s[n + 1] >>
          BY <3>1, SubSeqRecursiveSecond
    <3>3. SubSeq(s, 1, n + 1) = s BY SubSeqFull
    <3>4. n + 1 - 1 = n OBVIOUS
    <3>5. front \o << s[n + 1] >> = Append(front, s[n + 1]) BY <2>1, AppendIsConcat
    <3> QED BY <3>2, <3>3, <3>4, <3>5
  <2> HIDE DEF front
  <2>3. front \in T BY <1>2, <2>1
  <2> QED BY <2>1, <2>2, <2>3
<1> HIDE DEF N
<1>3. Nat \subseteq N BY <1>1, <1>2, Induction
<1>4. ASSUME NEW s \in Seq(S) PROVE s \in T
  <2>1. Len(s) \in N BY <1>3, LenProperties
  <2> QED BY <2>1 DEF N
<1> QED BY <1>4
-----------------------------------------------------------------------------
\* f is the recursive function of FlattenSeq's definition, on the first n elements.
Unrolls(f, ss, n) == f = [i \in 1 .. n |-> IF i = 1 THEN ss[i] ELSE f[i - 1] \o ss[i]]

\* Each value of an unrolling from the one before.
LEMMA UnrollsAt ==
  ASSUME NEW f, NEW ss, NEW n, Unrolls(f, ss, n), NEW i \in 1 .. n
  PROVE  f[i] = IF i = 1 THEN ss[i] ELSE f[i - 1] \o ss[i]
BY DEF Unrolls

\* An unrolling goes one element further, ...
LEMMA UnrollsExtended ==
  ASSUME NEW S, NEW ss \in Seq(Seq(S)), NEW n \in Nat, n + 1 <= Len(ss),
         NEW f \in [1 .. n -> Seq(S)], Unrolls(f, ss, n)
  PROVE  \E g \in [1 .. n + 1 -> Seq(S)] : Unrolls(g, ss, n + 1)
<1> DEFINE last == IF n = 0 THEN ss[1] ELSE f[n] \o ss[n + 1]
           g == [i \in 1 .. n + 1 |-> IF i = n + 1 THEN last ELSE f[i]]
<1>1. last \in Seq(S)
  <2>1. CASE n = 0 BY <2>1
  <2>2. CASE n # 0
    <3>1. n \in 1 .. n /\ n + 1 \in 1 .. Len(ss) BY <2>2
    <3>2. f[n] \in Seq(S) /\ ss[n + 1] \in Seq(S) BY <3>1
    <3> QED BY <2>2, <3>2
  <2> QED BY <2>1, <2>2
<1> HIDE DEF last
<1>2. g \in [1 .. n + 1 -> Seq(S)] BY <1>1
<1>3. g[n + 1] = last OBVIOUS
<1>4. \A i \in 1 .. n : g[i] = f[i]
  <2> TAKE i \in 1 .. n
  <2>1. i \in 1 .. n + 1 /\ i # n + 1 OBVIOUS
  <2> QED BY <2>1
<1>5. g = [i \in 1 .. n + 1 |-> g[i]] OBVIOUS
<1>6. \A i \in 1 .. n : f[i] = IF i = 1 THEN ss[i] ELSE f[i - 1] \o ss[i] BY DEF Unrolls
<1> HIDE DEF g
<1>7. \A i \in 1 .. n + 1 : g[i] = IF i = 1 THEN ss[i] ELSE g[i - 1] \o ss[i]
  <2> TAKE i \in 1 .. n + 1
  <2>1. CASE i = n + 1 /\ n = 0 BY <1>3, <2>1 DEF last
  <2>2. CASE i = n + 1 /\ n # 0
    <3>1. g[n] = f[n] /\ i # 1 /\ i - 1 = n BY <1>4, <2>2
    <3>2. g[i] = f[n] \o ss[n + 1] BY <1>3, <2>2 DEF last
    <3>3. g[i] = g[i - 1] \o ss[i] BY <2>2, <3>1, <3>2
    <3> QED BY <3>1, <3>3
  <2>3. CASE i \in 1 .. n /\ i = 1 BY <1>4, <1>6, <2>3
  <2>4. CASE i \in 1 .. n /\ i # 1
    <3>1. i - 1 \in 1 .. n BY <2>4
    <3>2. g[i - 1] = f[i - 1] /\ g[i] = f[i] BY <1>4, <2>4, <3>1
    <3> QED BY <1>6, <2>4, <3>2
  <2> QED BY <2>1, <2>2, <2>3, <2>4
<1>8. Unrolls(g, ss, n + 1) BY <1>5, <1>7 DEF Unrolls
<1> QED BY <1>2, <1>8

\* ... and so there is one of every length.
LEMMA UnrollsExists ==
  ASSUME NEW S, NEW ss \in Seq(Seq(S)), NEW m \in 0 .. Len(ss)
  PROVE  \E f \in [1 .. m -> Seq(S)] : Unrolls(f, ss, m)
<1> DEFINE T == {n \in Nat : n <= Len(ss) => \E f \in [1 .. n -> Seq(S)] : Unrolls(f, ss, n)}
<1>1. 0 \in T
  <2> DEFINE none == [i \in 1 .. 0 |-> <<>>]
  <2>1. none \in [1 .. 0 -> Seq(S)] /\ Unrolls(none, ss, 0) BY DEF Unrolls
  <2> QED BY <2>1
<1>2. ASSUME NEW n \in Nat, n \in T PROVE n + 1 \in T
  <2> SUFFICES ASSUME n + 1 <= Len(ss)
               PROVE  \E g \in [1 .. n + 1 -> Seq(S)] : Unrolls(g, ss, n + 1)
      OBVIOUS
  <2>1. n <= Len(ss) OBVIOUS
  <2>2. PICK f \in [1 .. n -> Seq(S)] : Unrolls(f, ss, n) BY <1>2, <2>1
  <2> QED BY <2>2, UnrollsExtended
<1> HIDE DEF T
<1>3. Nat \subseteq T BY <1>1, <1>2, Induction
<1>4. m \in T BY <1>3
<1> QED BY <1>4 DEF T

\* Two such functions agree where both are defined, on sequences that agree there.
LEMMA UnrollsUnique ==
  ASSUME NEW ss, NEW tt, NEW n \in Nat, NEW m \in Nat, n <= m, NEW f, NEW g,
         \A i \in 1 .. n : ss[i] = tt[i],
         Unrolls(f, ss, n), Unrolls(g, tt, m)
  PROVE  \A i \in 1 .. n : f[i] = g[i]
<1> DEFINE T == {i \in 1 .. n : f[i] # g[i]}
<1> SUFFICES ASSUME T # {} PROVE FALSE OBVIOUS
<1>1. PICK i \in T : \A j \in T : i <= j
  <2>1. T \subseteq Nat OBVIOUS
  <2> QED BY <2>1, LeastOf
<1> i \in 1 .. n /\ i \in 1 .. m /\ f[i] # g[i] OBVIOUS
<1>2. f[i] = IF i = 1 THEN ss[i] ELSE f[i - 1] \o ss[i] BY UnrollsAt
<1>3. g[i] = IF i = 1 THEN tt[i] ELSE g[i - 1] \o tt[i] BY UnrollsAt
<1>4. CASE i = 1 BY <1>2, <1>3, <1>4
<1>5. CASE i # 1
  <2>1. i - 1 \in 1 .. n /\ i - 1 \notin T BY <1>1, <1>5
  <2>2. f[i - 1] = g[i - 1] BY <2>1
  <2> QED BY <1>2, <1>3, <1>5, <2>2
<1> QED BY <1>4, <1>5

\* Any such function gives FlattenSeq.
LEMMA FlattenUnrolls ==
  ASSUME NEW S, NEW ss \in Seq(Seq(S)), ss # <<>>, NEW f, Unrolls(f, ss, Len(ss))
  PROVE  FlattenSeq(ss) = f[Len(ss)]
<1> DEFINE g == CHOOSE h : Unrolls(h, ss, Len(ss))
<1>1. Unrolls(g, ss, Len(ss)) OBVIOUS
<1>2. Len(ss) # 0 /\ Len(ss) \in Nat OBVIOUS
<1>3. FlattenSeq(ss) = g[Len(ss)] BY <1>2 DEF FlattenSeq, Unrolls
<1> HIDE DEF g
<1>4. g[Len(ss)] = f[Len(ss)] BY <1>1, <1>2, UnrollsUnique
<1> QED BY <1>3, <1>4
-----------------------------------------------------------------------------
\* FlattenSeq of no sequence, ...
LEMMA FlattenEmpty == FlattenSeq(<<>>) = <<>>
BY DEF FlattenSeq

\* ... of sequences over S, ...
LEMMA FlattenType ==
  ASSUME NEW S, NEW ss \in Seq(Seq(S))
  PROVE  FlattenSeq(ss) \in Seq(S)
<1>1. CASE ss = <<>>
  <2>1. <<>> \in Seq(S) OBVIOUS
  <2> QED BY <1>1, <2>1, FlattenEmpty
<1>2. CASE ss # <<>>
  <2>1. Len(ss) \in Nat /\ Len(ss) # 0 BY <1>2
  <2>2. PICK f \in [1 .. Len(ss) -> Seq(S)] : Unrolls(f, ss, Len(ss))
    <3>1. Len(ss) \in 0 .. Len(ss) BY <2>1
    <3> QED BY <3>1, UnrollsExists
  <2>3. FlattenSeq(ss) = f[Len(ss)] BY <1>2, <2>2, FlattenUnrolls
  <2>4. Len(ss) \in 1 .. Len(ss) BY <2>1
  <2>5. f[Len(ss)] \in Seq(S) BY <2>4
  <2> QED BY <2>3, <2>5
<1> QED BY <1>1, <1>2

\* ... of one sequence more, ...
LEMMA FlattenAppend ==
  ASSUME NEW S, NEW ss \in Seq(Seq(S)), NEW t \in Seq(S)
  PROVE  FlattenSeq(Append(ss, t)) = FlattenSeq(ss) \o t
<1> DEFINE tt == Append(ss, t)
           n == Len(ss)
<1>1. n \in Nat OBVIOUS
<1>2. tt \in Seq(Seq(S)) OBVIOUS
<1>3. Len(tt) = n + 1 /\ tt[n + 1] = t OBVIOUS
<1>4. \A i \in 1 .. n : ss[i] = tt[i] OBVIOUS
<1> HIDE DEF tt, n
<1>5. tt # <<>> BY <1>1, <1>3
<1>6. n + 1 \in 0 .. Len(tt) BY <1>1, <1>3
<1>7. PICK g : Unrolls(g, tt, n + 1) BY <1>2, <1>6, UnrollsExists
<1>8. FlattenSeq(tt) = g[n + 1] BY <1>2, <1>3, <1>5, <1>7, FlattenUnrolls
<1>9. n + 1 \in 1 .. n + 1 /\ n + 1 - 1 = n BY <1>1
<1>10. g[n + 1] = IF n + 1 = 1 THEN tt[n + 1] ELSE g[n + 1 - 1] \o tt[n + 1]
       BY <1>1, <1>7, <1>9, UnrollsAt
<1>11. CASE n = 0
  <2>1. ss = <<>> BY <1>11 DEF n
  <2>2. FlattenSeq(ss) = <<>> BY <2>1, FlattenEmpty
  <2>3. <<>> \o t = t OBVIOUS
  <2>4. g[n + 1] = t BY <1>3, <1>10, <1>11
  <2> QED BY <1>8, <2>2, <2>3, <2>4 DEF tt
<1>12. CASE n # 0
  <2>1. n \in 0 .. Len(ss) /\ n \in 1 .. n BY <1>1, <1>12 DEF n
  <2>2. PICK f : Unrolls(f, ss, n) BY <2>1, UnrollsExists
  <2>3. ss # <<>> BY <1>12 DEF n
  <2>4. FlattenSeq(ss) = f[n] BY <2>2, <2>3, FlattenUnrolls DEF n
  <2>5. n <= n + 1 /\ n + 1 \in Nat BY <1>1
  <2>6. \A i \in 1 .. n : f[i] = g[i] BY <1>1, <1>4, <1>7, <2>2, <2>5, UnrollsUnique
  <2>7. n \in 1 .. n BY <2>1
  <2>8. g[n] = f[n] BY <2>6, <2>7
  <2>9. n + 1 # 1 BY <1>1, <1>12
  <2>10. g[n + 1] = g[n] \o t BY <1>3, <1>9, <1>10, <2>9
  <2> QED BY <1>8, <2>4, <2>8, <2>10 DEF tt
<1> QED BY <1>11, <1>12

\* ... of one, ...
LEMMA FlattenOne ==
  ASSUME NEW S, NEW t \in Seq(S)
  PROVE  FlattenSeq(<<t>>) = t
<1>1. <<>> \in Seq(Seq(S)) /\ Append(<<>>, t) = <<t>> BY EmptySeq
<1>2. FlattenSeq(<<t>>) = <<>> \o t BY <1>1, FlattenAppend, FlattenEmpty
<1> QED BY <1>2, ConcatEmptySeq

\* Append and concatenation.
LEMMA AppendToConcat ==
  ASSUME NEW S, NEW a \in Seq(S), NEW c \in Seq(S), NEW e \in S
  PROVE  a \o Append(c, e) = Append(a \o c, e)
<1>1. <<e>> \in Seq(S) /\ a \o c \in Seq(S) BY ConcatProperties
<1>2. Append(c, e) = c \o <<e>> /\ Append(a \o c, e) = (a \o c) \o <<e>>
      BY <1>1, AppendIsConcat
<1>3. (a \o c) \o <<e>> = a \o (c \o <<e>>) BY <1>1, ConcatAssociative
<1> QED BY <1>2, <1>3

\* ... of two sequences of sequences joined, ...
LEMMA FlattenConcat ==
  ASSUME NEW S, NEW a \in Seq(Seq(S)), NEW b \in Seq(Seq(S))
  PROVE  FlattenSeq(a \o b) = FlattenSeq(a) \o FlattenSeq(b)
<1> DEFINE T == {c \in Seq(Seq(S)) : FlattenSeq(a \o c) = FlattenSeq(a) \o FlattenSeq(c)}
<1>1. FlattenSeq(a) \in Seq(S) BY FlattenType
<1>2. <<>> \in T
  <2>1. a \o <<>> = a /\ <<>> \in Seq(Seq(S)) BY ConcatEmptySeq, EmptySeq
  <2>2. FlattenSeq(a) \o <<>> = FlattenSeq(a) BY <1>1, ConcatEmptySeq
  <2> QED BY <2>1, <2>2, FlattenEmpty
<1>3. ASSUME NEW c \in Seq(Seq(S)), NEW e \in Seq(S), c \in T PROVE Append(c, e) \in T
  <2>1. Append(c, e) \in Seq(Seq(S)) /\ a \o c \in Seq(Seq(S))
        BY AppendProperties, ConcatProperties
  <2>2. a \o Append(c, e) = Append(a \o c, e) BY AppendToConcat
  <2>3. FlattenSeq(a \o Append(c, e)) = FlattenSeq(a \o c) \o e BY <2>1, <2>2, FlattenAppend
  <2>4. FlattenSeq(Append(c, e)) = FlattenSeq(c) \o e BY FlattenAppend
  <2>5. FlattenSeq(a \o c) = FlattenSeq(a) \o FlattenSeq(c) BY <1>3
  <2>6. FlattenSeq(c) \in Seq(S) BY FlattenType
  <2>7. (FlattenSeq(a) \o FlattenSeq(c)) \o e = FlattenSeq(a) \o (FlattenSeq(c) \o e)
        BY <1>1, <2>6, ConcatAssociative
  <2> QED BY <2>1, <2>3, <2>4, <2>5, <2>7
<1> HIDE DEF T
<1>4. Seq(Seq(S)) \subseteq T BY <1>2, <1>3, SequenceInduction
<1>5. b \in T BY <1>4
<1> QED BY <1>5 DEF T

\* Where part n of the result begins, and what lies there.
Before(ss, n) == Len(FlattenSeq(SubSeq(ss, 1, n - 1)))

\* ... and of one cut in two.
LEMMA FlattenCut ==
  ASSUME NEW S, NEW ss \in Seq(Seq(S)), NEW n \in 0 .. Len(ss)
  PROVE  /\ SubSeq(ss, 1, n) \in Seq(Seq(S)) /\ SubSeq(ss, n + 1, Len(ss)) \in Seq(Seq(S))
         /\ FlattenSeq(ss) =
              FlattenSeq(SubSeq(ss, 1, n)) \o FlattenSeq(SubSeq(ss, n + 1, Len(ss)))
         /\ Len(FlattenSeq(ss)) =
              Len(FlattenSeq(SubSeq(ss, 1, n))) + Len(FlattenSeq(SubSeq(ss, n + 1, Len(ss))))
<1> DEFINE a == SubSeq(ss, 1, n)
           b == SubSeq(ss, n + 1, Len(ss))
<1>1. Len(ss) \in Nat /\ n \in Nat BY LenProperties
<1>2. \A i \in 1 .. Len(ss) : ss[i] \in Seq(S) BY ElementOfSeq
<1>3. a \in Seq(Seq(S))
  <2>1. \A i \in 1 .. n : ss[i] \in Seq(S) BY <1>1, <1>2
  <2> QED BY <1>1, <2>1, SubSeqProperties
<1>4. b \in Seq(Seq(S))
  <2>1. \A i \in n + 1 .. Len(ss) : ss[i] \in Seq(S) BY <1>1, <1>2
  <2>2. n + 1 \in Int /\ Len(ss) \in Int BY <1>1
  <2> QED BY <2>1, <2>2, SubSeqProperties
<1>5. a \o b = ss
  <2>1. 1 \in 1 .. Len(ss) + 1 /\ n \in 1 - 1 .. Len(ss) /\ Len(ss) \in n .. Len(ss) BY <1>1
  <2>2. a \o b = SubSeq(ss, 1, Len(ss)) BY <2>1, ConcatAdjacentSubSeq
  <2> QED BY <2>2, SubSeqFull
<1> HIDE DEF a, b
<1>6. FlattenSeq(ss) = FlattenSeq(a) \o FlattenSeq(b) BY <1>3, <1>4, <1>5, FlattenConcat
<1>7. FlattenSeq(a) \in Seq(S) /\ FlattenSeq(b) \in Seq(S) BY <1>3, <1>4, FlattenType
<1>8. Len(FlattenSeq(ss)) = Len(FlattenSeq(a)) + Len(FlattenSeq(b))
      BY <1>6, <1>7, ConcatProperties
<1> QED BY <1>3, <1>4, <1>6, <1>8 DEF a, b

\* One part more.
LEMMA FlattenNext ==
  ASSUME NEW S, NEW ss \in Seq(Seq(S)), NEW n \in 1 .. Len(ss)
  PROVE  /\ FlattenSeq(SubSeq(ss, 1, n)) = FlattenSeq(SubSeq(ss, 1, n - 1)) \o ss[n]
         /\ FlattenSeq(SubSeq(ss, n, Len(ss))) =
              ss[n] \o FlattenSeq(SubSeq(ss, n + 1, Len(ss)))
<1>1. Len(ss) \in Nat /\ n \in Nat /\ ss[n] \in Seq(S) BY LenProperties, ElementOfSeq
<1>2. /\ n - 1 \in 0 .. Len(ss) /\ n \in 0 .. Len(ss)
      /\ n \in n .. Len(ss) /\ Len(ss) \in n .. Len(ss) /\ 1 \in 1 .. Len(ss)
      BY <1>1
<1>3. SubSeq(ss, 1, n - 1) \in Seq(Seq(S)) BY <1>2, FlattenCut
<1>4. SubSeq(ss, n + 1, Len(ss)) \in Seq(Seq(S)) BY <1>2, FlattenCut
<1>5. <<ss[n]>> \in Seq(Seq(S)) /\ FlattenSeq(<<ss[n]>>) = ss[n] BY <1>1, FlattenOne
<1>6. SubSeq(ss, 1, n) = SubSeq(ss, 1, n - 1) \o <<ss[n]>>
      BY <1>1, <1>2, SubSeqRecursiveSecond
<1>7. SubSeq(ss, n, Len(ss)) = <<ss[n]>> \o SubSeq(ss, n + 1, Len(ss))
      BY <1>1, <1>2, SubSeqRecursiveFirst
<1>8. FlattenSeq(SubSeq(ss, 1, n)) = FlattenSeq(SubSeq(ss, 1, n - 1)) \o ss[n]
      BY <1>3, <1>5, <1>6, FlattenConcat
<1>9. FlattenSeq(SubSeq(ss, n, Len(ss))) = ss[n] \o FlattenSeq(SubSeq(ss, n + 1, Len(ss)))
      BY <1>4, <1>5, <1>7, FlattenConcat
<1> QED BY <1>8, <1>9

\* Where the n-th sequence lies in the flattened one.
LEMMA FlattenAt ==
  ASSUME NEW S, NEW ss \in Seq(Seq(S)), NEW n \in 1 .. Len(ss)
  PROVE  /\ Before(ss, n) \in Nat
         /\ Before(ss, n) + Len(ss[n]) <= Len(FlattenSeq(ss))
         /\ Before(ss, n) + Len(FlattenSeq(SubSeq(ss, n, Len(ss)))) = Len(FlattenSeq(ss))
         /\ \A j \in 1 .. Len(ss[n]) : FlattenSeq(ss)[Before(ss, n) + j] = ss[n][j]
<1> DEFINE a == FlattenSeq(SubSeq(ss, 1, n - 1))
           t == ss[n]
           z == FlattenSeq(SubSeq(ss, n + 1, Len(ss)))
<1>1. n \in Nat /\ Len(ss) \in Nat /\ n - 1 \in 0 .. Len(ss) /\ n \in 0 .. Len(ss)
      /\ n - 1 + 1 = n
      BY LenProperties
<1>2. /\ a \in Seq(S) /\ t \in Seq(S) /\ z \in Seq(S)
      BY <1>1, FlattenCut, FlattenType, ElementOfSeq
<1>3. FlattenSeq(ss) = a \o FlattenSeq(SubSeq(ss, n, Len(ss))) BY <1>1, FlattenCut
<1>4. FlattenSeq(SubSeq(ss, n, Len(ss))) = t \o z BY FlattenNext
<1>5. Before(ss, n) = Len(a) BY DEF Before
<1> HIDE DEF a, t, z
<1>6. t \o z \in Seq(S) /\ Len(t \o z) = Len(t) + Len(z) BY <1>2, ConcatProperties
<1>7. Len(a) \in Nat /\ Len(t) \in Nat /\ Len(z) \in Nat BY <1>2, LenProperties
<1>8. Len(FlattenSeq(ss)) = Len(a) + (Len(t) + Len(z))
      BY <1>2, <1>3, <1>4, <1>6, ConcatProperties
<1>9. ASSUME NEW j \in 1 .. Len(t) PROVE FlattenSeq(ss)[Len(a) + j] = t[j]
  <2>1. Len(a) + j \in 1 .. Len(a) + Len(t \o z) /\ j \in 1 .. Len(t) + Len(z)
        BY <1>6, <1>7
  <2>2. ~(Len(a) + j <= Len(a)) /\ Len(a) + j - Len(a) = j /\ j <= Len(t) BY <1>7
  <2>3. (a \o (t \o z))[Len(a) + j] = (t \o z)[Len(a) + j - Len(a)]
        BY <1>2, <1>6, <2>1, <2>2, ConcatProperties
  <2>4. (t \o z)[j] = t[j] BY <1>2, <2>1, <2>2, ConcatProperties
  <2> QED BY <1>3, <1>4, <2>2, <2>3, <2>4
<1> QED BY <1>4, <1>5, <1>6, <1>7, <1>8, <1>9 DEF t
=============================================================================

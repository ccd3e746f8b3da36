---------------------------- MODULE LaunchProofs ----------------------------
(***************************************************************************)
(* Proofs about Launch for all files, command lines and requests that its  *)
(* assumptions allow.  A block of arguments is words and characters laid   *)
(* out in a sequence; the proofs say where in memory each of them lies,    *)
(* and that what reads it there finds it.                                  *)
(***************************************************************************)
EXTENDS Launch, X86AluProofs, FlatSequences

\* A word and its two bytes.
LEMMA PairOfHalves ==
  ASSUME NEW v \in Word
  PROVE  /\ LowByte(v) \in Byte /\ HighByte(v) \in Byte
         /\ Pair(LowByte(v), HighByte(v)) = v
<1>1. v \in Int /\ 0 <= v /\ v < 65536 BY InWord
<1>2. Pair(LowByte(v), HighByte(v)) = v BY <1>1 DEF Pair, LowByte, HighByte
<1> QED BY <1>1, <1>2, HalvesAreBytes
-----------------------------------------------------------------------------
\* The bytes of words.
LEMMA WordsOfMore ==
  ASSUME NEW ws \in Seq(Int), NEW w \in Int
  PROVE  /\ Words(ws) \in Seq(Byte)
         /\ Words(Append(ws, w)) = Words(ws) \o <<LowByte(w), HighByte(w)>>
<1> DEFINE bytes(s) == [k \in DOMAIN s |-> <<LowByte(s[k]), HighByte(s[k])>>]
<1>1. ASSUME NEW s \in Seq(Int) PROVE bytes(s) \in Seq(Seq(Byte)) /\ Len(bytes(s)) = Len(s)
  <2>1. \A k \in 1 .. Len(s) : <<LowByte(s[k]), HighByte(s[k])>> \in Seq(Byte)
        BY ElementOfSeq, HalvesAreBytes
  <2>2. Len(s) \in Nat /\ DOMAIN s = 1 .. Len(s) BY LenProperties
  <2> QED BY <2>1, <2>2
<1>2. <<LowByte(w), HighByte(w)>> \in Seq(Byte) BY HalvesAreBytes
<1>3. bytes(Append(ws, w)) = Append(bytes(ws), <<LowByte(w), HighByte(w)>>)
  <2> DEFINE more == Append(ws, w)
             s == bytes(more)
             t == Append(bytes(ws), <<LowByte(w), HighByte(w)>>)
  <2>1. more \in Seq(Int) /\ Len(more) = Len(ws) + 1 /\ Len(ws) \in Nat
        /\ more[Len(ws) + 1] = w /\ \A i \in 1 .. Len(ws) : more[i] = ws[i]
        BY AppendProperties, LenProperties
  <2>2. s \in Seq(Seq(Byte)) /\ Len(s) = Len(ws) + 1 BY <1>1, <2>1
  <2>3. bytes(ws) \in Seq(Seq(Byte)) /\ Len(bytes(ws)) = Len(ws) BY <1>1
  <2>4. t \in Seq(Seq(Byte)) /\ Len(t) = Len(ws) + 1
        /\ t[Len(ws) + 1] = <<LowByte(w), HighByte(w)>>
        /\ \A i \in 1 .. Len(ws) : t[i] = bytes(ws)[i]
        BY <1>2, <2>3, AppendProperties
  <2>5. DOMAIN more = 1 .. Len(ws) + 1 /\ DOMAIN ws = 1 .. Len(ws) BY <2>1, LenProperties
  <2>6. ASSUME NEW i \in 1 .. Len(ws) + 1 PROVE s[i] = t[i]
    <3>1. s[i] = <<LowByte(more[i]), HighByte(more[i])>> BY <2>5
    <3>2. CASE i = Len(ws) + 1 BY <2>1, <2>4, <3>1, <3>2
    <3>3. CASE i \in 1 .. Len(ws)
      <4>1. bytes(ws)[i] = <<LowByte(ws[i]), HighByte(ws[i])>> BY <2>5, <3>3
      <4> QED BY <2>1, <2>4, <3>1, <3>3, <4>1
    <3> QED BY <2>1, <3>2, <3>3
  <2> HIDE DEF s, t
  <2>7. s = t BY <2>2, <2>4, <2>6, SeqEqual
  <2> QED BY <2>7 DEF s, t
<1>4. Words(ws) \in Seq(Byte) BY <1>1, FlattenType DEF Words
<1>5. Words(Append(ws, w)) = FlattenSeq(bytes(Append(ws, w))) BY DEF Words
<1> HIDE DEF bytes
<1>6. FlattenSeq(Append(bytes(ws), <<LowByte(w), HighByte(w)>>))
        = FlattenSeq(bytes(ws)) \o <<LowByte(w), HighByte(w)>>
      BY <1>1, <1>2, FlattenAppend
<1> QED BY <1>3, <1>4, <1>5, <1>6 DEF Words, bytes

\* Each word is two bytes, at twice its place.
LEMMA WordsAt ==
  ASSUME NEW ws \in Seq(Int)
  PROVE  /\ Words(ws) \in Seq(Byte) /\ Len(Words(ws)) = 2 * Len(ws)
         /\ \A k \in 1 .. Len(ws) : /\ Words(ws)[2 * k - 1] = LowByte(ws[k])
                                    /\ Words(ws)[2 * k] = HighByte(ws[k])
<1> DEFINE P(s) == /\ Len(Words(s)) = 2 * Len(s)
                   /\ \A k \in 1 .. Len(s) : /\ Words(s)[2 * k - 1] = LowByte(s[k])
                                             /\ Words(s)[2 * k] = HighByte(s[k])
           T == {s \in Seq(Int) : P(s)}
<1>1. <<>> \in T
  <2>1. DOMAIN <<>> = {} /\ Len(<<>>) = 0 /\ <<>> \in Seq(Int) OBVIOUS
  <2>2. Words(<<>>) = FlattenSeq(<<>>) BY <2>1 DEF Words
  <2> QED BY <2>1, <2>2, FlattenEmpty
<1>2. ASSUME NEW s \in Seq(Int), NEW w \in Int, s \in T PROVE Append(s, w) \in T
  <2> DEFINE pair == <<LowByte(w), HighByte(w)>>
             n == Len(s)
             more == Append(s, w)
             b == Words(s)
  <2>1. pair \in Seq(Byte) /\ Len(pair) = 2 /\ pair[1] = LowByte(w) /\ pair[2] = HighByte(w)
        BY HalvesAreBytes
  <2>2. b \in Seq(Byte) /\ Words(more) = b \o pair BY WordsOfMore
  <2>3. Len(b) = 2 * n /\ n \in Nat BY <1>2, LenProperties
  <2>4. \A k \in 1 .. n : b[2 * k - 1] = LowByte(s[k]) /\ b[2 * k] = HighByte(s[k]) BY <1>2
  <2>5. more \in Seq(Int) /\ Len(more) = n + 1 /\ more[n + 1] = w
        /\ \A i \in 1 .. n : more[i] = s[i]
        BY AppendProperties
  <2> HIDE DEF pair, n, more, b
  <2>6. Len(b \o pair) = 2 * n + 2
        /\ \A i \in 1 .. 2 * n + 2 : (b \o pair)[i] = IF i <= 2 * n THEN b[i] ELSE pair[i - 2 * n]
    <3>1. /\ Len(b \o pair) = Len(b) + Len(pair)
          /\ \A i \in 1 .. Len(b) + Len(pair) :
               (b \o pair)[i] = IF i <= Len(b) THEN b[i] ELSE pair[i - Len(b)]
          BY <2>1, <2>2, ConcatProperties
    <3> QED BY <2>1, <2>3, <3>1
  <2>7. ASSUME NEW k \in 1 .. n + 1
        PROVE  Words(more)[2 * k - 1] = LowByte(more[k]) /\ Words(more)[2 * k] = HighByte(more[k])
    <3>1. CASE k \in 1 .. n
      <4>1. 2 * k - 1 \in 1 .. 2 * n + 2 /\ 2 * k \in 1 .. 2 * n + 2
            /\ 2 * k - 1 <= 2 * n /\ 2 * k <= 2 * n
            BY <2>3, <3>1
      <4> QED BY <2>2, <2>4, <2>5, <2>6, <3>1, <4>1
    <3>2. CASE k = n + 1
      <4>1. 2 * k - 1 \in 1 .. 2 * n + 2 /\ 2 * k \in 1 .. 2 * n + 2
            /\ ~(2 * k - 1 <= 2 * n) /\ ~(2 * k <= 2 * n)
            /\ 2 * k - 1 - 2 * n = 1 /\ 2 * k - 2 * n = 2
            BY <2>3, <3>2
      <4>2. (b \o pair)[2 * k - 1] = pair[1] /\ (b \o pair)[2 * k] = pair[2] BY <2>6, <4>1
      <4> QED BY <2>1, <2>2, <2>5, <3>2, <4>2
    <3> QED BY <2>3, <3>1, <3>2
  <2>8. P(more)
    <3>1. Len(Words(more)) = 2 * Len(more) BY <2>2, <2>3, <2>5, <2>6
    <3> QED BY <2>5, <2>7, <3>1
  <2> QED BY <2>5, <2>8 DEF more
<1> HIDE DEF P, T
<1>3. Seq(Int) \subseteq T BY <1>1, <1>2, SequenceInduction
<1>4. ws \in T BY <1>3
<1>5. P(ws) BY <1>4 DEF T
<1>6. Words(ws) \in Seq(Byte)
  <2>1. 0 \in Int OBVIOUS
  <2> QED BY <2>1, WordsOfMore
<1> QED BY <1>5, <1>6 DEF P
-----------------------------------------------------------------------------
\* Strings with the 0 at their ends.
LEMMA EndedType ==
  ASSUME NEW strings \in Seq(Strings)
  PROVE  /\ Ended(strings) \in Seq(Seq(Byte)) /\ Len(Ended(strings)) = Len(strings)
         /\ Characters(strings) \in Seq(Byte)
         /\ \A k \in 1 .. Len(strings) :
              Ended(strings)[k] = strings[k] \o <<0>> /\ strings[k] \in Strings
<1>1. Len(strings) \in Nat /\ DOMAIN strings = 1 .. Len(strings) BY LenProperties
<1>2. ASSUME NEW k \in 1 .. Len(strings)
      PROVE  strings[k] \in Strings /\ strings[k] \o <<0>> \in Seq(Byte)
  <2>1. strings[k] \in Strings BY ElementOfSeq
  <2>2. \A v \in Byte \ {0} : v \in Byte BY InByte
  <2>3. strings[k] \in Seq(Byte) BY <2>1, <2>2, SeqMonotonic DEF Strings
  <2>4. <<0>> \in Seq(Byte)
    <3>1. 0 \in Byte BY InByte
    <3> QED BY <3>1
  <2> QED BY <2>1, <2>3, <2>4, ConcatProperties
<1>3. Ended(strings) = [k \in 1 .. Len(strings) |-> strings[k] \o <<0>>] BY <1>1 DEF Ended
<1>4. Ended(strings) \in Seq(Seq(Byte)) /\ Len(Ended(strings)) = Len(strings)
      BY <1>1, <1>2, <1>3
<1> QED BY <1>2, <1>3, <1>4, FlattenType DEF Characters

\* A string with its 0: its length and its bytes.
LEMMA EndedString ==
  ASSUME NEW s \in Strings
  PROVE  /\ s \o <<0>> \in Seq(Byte) /\ Len(s \o <<0>>) = Len(s) + 1 /\ Len(s) \in Nat
         /\ (s \o <<0>>)[Len(s) + 1] = 0
         /\ \A j \in 1 .. Len(s) : (s \o <<0>>)[j] = s[j] /\ s[j] # 0
<1>1. \A v \in Byte \ {0} : v \in Byte /\ v # 0 BY InByte
<1>2. s \in Seq(Byte) /\ Len(s) \in Nat BY <1>1, SeqMonotonic, LenProperties DEF Strings
<1>3. 0 \in Byte /\ <<0>> \in Seq(Byte) /\ Len(<<0>>) = 1 /\ <<0>>[1] = 0
  <2>1. 0 \in Byte BY InByte
  <2> QED BY <2>1
<1>4. /\ s \o <<0>> \in Seq(Byte) /\ Len(s \o <<0>>) = Len(s) + 1
      /\ \A i \in 1 .. Len(s) + 1 : (s \o <<0>>)[i] = IF i <= Len(s) THEN s[i] ELSE <<0>>[i - Len(s)]
      BY <1>2, <1>3, ConcatProperties
<1>5. (s \o <<0>>)[Len(s) + 1] = 0 BY <1>2, <1>3, <1>4
<1>6. ASSUME NEW j \in 1 .. Len(s) PROVE (s \o <<0>>)[j] = s[j] /\ s[j] # 0
  <2>1. s[j] \in Byte \ {0} BY ElementOfSeq DEF Strings
  <2>2. j \in 1 .. Len(s) + 1 /\ j <= Len(s) BY <1>2
  <2>3. (s \o <<0>>)[j] = s[j] BY <1>4, <2>2
  <2>4. s[j] # 0 BY <1>1, <2>1
  <2> QED BY <2>3, <2>4
<1> QED BY <1>2, <1>4, <1>5, <1>6

\* The last strings, with their ends.
LEMMA EndedOfSubSeq ==
  ASSUME NEW strings \in Seq(Strings), NEW k \in Int, NEW n \in Int, 1 <= k, n <= Len(strings)
  PROVE  /\ SubSeq(strings, k, n) \in Seq(Strings)
         /\ Ended(SubSeq(strings, k, n)) = SubSeq(Ended(strings), k, n)
<1> DEFINE s == SubSeq(strings, k, n)
           e == Ended(strings)
<1>1. Len(strings) \in Nat BY LenProperties
<1>2. \A i \in k .. n : strings[i] \in Strings BY <1>1, ElementOfSeq
<1>3. s \in Seq(Strings) /\ Len(s) = (IF k <= n THEN n - k + 1 ELSE 0)
      /\ \A i \in 1 .. n - k + 1 : s[i] = strings[k + i - 1]
      BY <1>2, SubSeqProperties
<1>4. e \in Seq(Seq(Byte)) /\ Len(e) = Len(strings)
      /\ \A i \in 1 .. Len(strings) : e[i] = strings[i] \o <<0>>
      BY EndedType
<1>5. \A i \in k .. n : e[i] \in Seq(Byte) BY <1>1, <1>4, ElementOfSeq
<1>6. SubSeq(e, k, n) \in Seq(Seq(Byte)) /\ Len(SubSeq(e, k, n)) = (IF k <= n THEN n - k + 1 ELSE 0)
      /\ \A i \in 1 .. n - k + 1 : SubSeq(e, k, n)[i] = e[k + i - 1]
      BY <1>5, SubSeqProperties
<1>7. Ended(s) \in Seq(Seq(Byte)) /\ Len(Ended(s)) = Len(s)
      /\ \A i \in 1 .. Len(s) : Ended(s)[i] = s[i] \o <<0>>
      BY <1>3, EndedType
<1> HIDE DEF s, e
<1>8. ASSUME NEW i \in 1 .. Len(s) PROVE Ended(s)[i] = SubSeq(e, k, n)[i]
  <2>1. i \in 1 .. n - k + 1 /\ k + i - 1 \in 1 .. Len(strings) BY <1>1, <1>3
  <2> QED BY <1>3, <1>4, <1>6, <1>7, <2>1
<1>9. Ended(s) = SubSeq(e, k, n) BY <1>3, <1>6, <1>7, <1>8, SeqEqual
<1> QED BY <1>3, <1>9 DEF s, e
-----------------------------------------------------------------------------
\* The bytes of s lie in m from a upwards.
Lies(m, a, s) == \A j \in 1 .. Len(s) : At(m, a + j - 1) = s[j]

\* What lies in memory lies there in its two parts.
LEMMA LiesInParts ==
  ASSUME NEW m, NEW a, a \in Int, NEW s \in Seq(Byte), NEW t \in Seq(Byte), Lies(m, a, s \o t)
  PROVE  Lies(m, a, s) /\ Lies(m, a + Len(s), t)
<1>1. Len(s) \in Nat /\ Len(t) \in Nat BY LenProperties
<1>2. /\ Len(s \o t) = Len(s) + Len(t)
      /\ \A i \in 1 .. Len(s) + Len(t) : (s \o t)[i] = IF i <= Len(s) THEN s[i] ELSE t[i - Len(s)]
      BY ConcatProperties
<1>3. ASSUME NEW j \in 1 .. Len(s) PROVE At(m, a + j - 1) = s[j]
  <2>1. j \in 1 .. Len(s \o t) /\ (s \o t)[j] = s[j] BY <1>1, <1>2
  <2> QED BY <2>1 DEF Lies
<1>4. ASSUME NEW j \in 1 .. Len(t) PROVE At(m, a + Len(s) + j - 1) = t[j]
  <2>1. Len(s) + j \in 1 .. Len(s) + Len(t) /\ ~(Len(s) + j <= Len(s))
        /\ Len(s) + j - Len(s) = j
        BY <1>1
  <2>2. (s \o t)[Len(s) + j] = t[j] BY <1>2, <2>1
  <2>3. At(m, a + (Len(s) + j) - 1) = (s \o t)[Len(s) + j] BY <1>2, <2>1 DEF Lies
  <2>4. a + (Len(s) + j) - 1 = a + Len(s) + j - 1 BY <1>1
  <2> QED BY <2>2, <2>3, <2>4
<1> QED BY <1>3, <1>4 DEF Lies

Three(s, t, u) == s \o t \o u
\* Where the second part begins.
After(a, s) == a + Len(s)

\* And in its three.
LEMMA LiesInThree ==
  ASSUME NEW m, NEW a, a \in Int, NEW s \in Seq(Byte), NEW t \in Seq(Byte), NEW u \in Seq(Byte),
         Lies(m, a, Three(s, t, u))
  PROVE  Lies(m, a, s) /\ Lies(m, After(a, s), t)
<1>1. s \o t \in Seq(Byte) BY ConcatProperties
<1>2. Lies(m, a, (s \o t) \o u) BY DEF Three
<1> DEFINE d == s \o t
<1>3. d \in Seq(Byte) /\ Lies(m, a, d \o u) BY <1>1, <1>2
<1> HIDE DEF d
<1>4. Lies(m, a, d) BY <1>3, LiesInParts
<1>5. Lies(m, a, s \o t) BY <1>4 DEF d
<1>6. Lies(m, a, s) /\ Lies(m, a + Len(s), t) BY <1>5, LiesInParts
<1> QED BY <1>6 DEF After

\* Where words lie they are read.
LEMMA WordsRead ==
  ASSUME NEW m, NEW a \in Int, NEW ws \in Seq(Word), Lies(m, a, Words(ws)),
         NEW k \in 1 .. Len(ws)
  PROVE  WordAt(m, a + 2 * (k - 1)) = ws[k]
<1>1. Len(ws) \in Nat BY LenProperties
<1>2. /\ Len(Words(ws)) = 2 * Len(ws)
      /\ Words(ws)[2 * k - 1] = LowByte(ws[k]) /\ Words(ws)[2 * k] = HighByte(ws[k])
  <2>1. ws \in Seq(Int) BY WordIsInt, SeqMonotonic
  <2> QED BY <2>1, WordsAt
<1>3. 2 * k - 1 \in 1 .. 2 * Len(ws) /\ 2 * k \in 1 .. 2 * Len(ws)
      /\ a + (2 * k - 1) - 1 = a + 2 * (k - 1) /\ a + 2 * k - 1 = a + 2 * (k - 1) + 1
      BY <1>1
<1>4. At(m, a + (2 * k - 1) - 1) = LowByte(ws[k]) /\ At(m, a + 2 * k - 1) = HighByte(ws[k])
      BY <1>2, <1>3 DEF Lies
<1>5. ws[k] \in Word BY ElementOfSeq
<1> QED BY <1>3, <1>4, <1>5, PairOfHalves DEF WordAt

\* A string of C is read up to its 0: l bytes that are not 0 lie before one that is.
EndsAfter(m, a, l) == At(m, a + l) = 0 /\ \A j \in 0 .. l - 1 : At(m, a + j) # 0

\* A string is read up to the first 0.
LEMMA CStringOf ==
  ASSUME NEW m, NEW a \in Int, NEW l \in Nat, l <= 65536, EndsAfter(m, a, l)
  PROVE  CString(m, a) = [j \in 1 .. l |-> At(m, a + j - 1)]
<1> DEFINE End(k) == At(m, a + k) = 0 /\ \A j \in 0 .. k - 1 : At(m, a + j) # 0
           n == CHOOSE k \in Values(65537) : End(k)
<1>1. \A j \in 0 .. l - 1 : At(m, a + j) # 0 BY DEF EndsAfter
<1>2. At(m, a + l) = 0 BY DEF EndsAfter
<1>3. End(l) BY <1>1, <1>2
<1>4. ASSUME NEW k \in Nat, End(k) PROVE k = l
  <2>1. At(m, a + k) = 0 /\ \A j \in 0 .. k - 1 : At(m, a + j) # 0 BY <1>4
  <2> HIDE DEF End
  <2>2. ASSUME k < l PROVE FALSE
    <3>1. k \in 0 .. l - 1 BY <2>2
    <3> QED BY <1>1, <2>1, <3>1
  <2>3. ASSUME l < k PROVE FALSE
    <3>1. l \in 0 .. k - 1 BY <2>3
    <3> QED BY <1>2, <2>1, <3>1
  <2> QED BY <2>2, <2>3
<1> HIDE DEF End
<1>5. n = l
  <2>1. l \in Values(65537) /\ \A k \in Values(65537) : k \in Nat BY InValues
  <2> QED BY <1>3, <1>4, <2>1
<1>6. CString(m, a) = [j \in 1 .. n |-> m[a + j - 1]] BY DEF CString, End
<1> HIDE DEF n
<1>7. CString(m, a) = [j \in 1 .. l |-> m[a + j - 1]] BY <1>5, <1>6
<1>8. ASSUME NEW j \in 1 .. l PROVE m[a + j - 1] = At(m, a + j - 1)
  <2> DEFINE i == j - 1
  <2>1. i \in 0 .. l - 1 /\ a + j - 1 = a + i OBVIOUS
  <2> HIDE DEF i
  <2>2. At(m, a + i) # 0 BY <1>1, <2>1
  <2>3. m[a + i] = At(m, a + i) BY <2>2 DEF At
  <2> QED BY <2>1, <2>3
<1> DEFINE f == [j \in 1 .. l |-> m[a + j - 1]]
           g == [j \in 1 .. l |-> At(m, a + j - 1)]
<1>9. f = g BY <1>8
<1>10. CString(m, a) = f BY <1>7
<1>11. CString(m, a) = g
  <2> HIDE DEF f, g
  <2> QED BY <1>9, <1>10
<1> QED BY <1>11

\* A string lies in memory with its 0, and is short enough to be found.
StringLies(m, a, s) == Len(s) <= 65536 /\ Lies(m, a, s \o <<0>>)

\* A string with its 0 that lies in memory is read back.
LEMMA CStringFound ==
  ASSUME NEW m, NEW a, a \in Int, NEW s \in Strings, StringLies(m, a, s)
  PROVE  CString(m, a) = s
<1> DEFINE l == Len(s)
           t == s \o <<0>>
<1>1. /\ Len(t) = l + 1 /\ l \in Nat /\ t[l + 1] = 0
      /\ \A j \in 1 .. l : t[j] = s[j] /\ s[j] # 0
      BY EndedString
<1>2. l <= 65536 /\ Lies(m, a, t) BY DEF StringLies
<1>3. s \in [1 .. l -> Byte \ {0}]
  <2>1. s \in Seq(Byte \ {0}) BY DEF Strings
  <2> QED BY <2>1, LenProperties
<1> HIDE DEF l, t
<1>4. l \in Nat /\ l <= 65536 BY <1>1, <1>2
<1>5. At(m, a + l) = 0
  <2>1. l + 1 \in 1 .. l + 1 /\ a + (l + 1) - 1 = a + l BY <1>4
  <2>2. At(m, a + (l + 1) - 1) = 0 BY <1>1, <1>2, <2>1 DEF Lies
  <2> QED BY <2>1, <2>2
<1>6. ASSUME NEW j \in 1 .. l PROVE At(m, a + j - 1) = s[j] /\ s[j] # 0
  <2>1. j \in 1 .. l + 1 BY <1>4
  <2> QED BY <1>1, <1>2, <2>1 DEF Lies
<1>7. EndsAfter(m, a, l)
  <2>1. ASSUME NEW j \in 0 .. l - 1 PROVE At(m, a + j) # 0
    <3> DEFINE i == j + 1
    <3>1. i \in 1 .. l /\ a + i - 1 = a + j BY <1>4
    <3> HIDE DEF i
    <3>2. At(m, a + i - 1) # 0 BY <1>6, <3>1
    <3> QED BY <3>1, <3>2
  <2> QED BY <1>5, <2>1 DEF EndsAfter
<1>8. CString(m, a) = [j \in 1 .. l |-> At(m, a + j - 1)] BY <1>4, <1>7, CStringOf
<1> QED BY <1>3, <1>6, <1>8

\* And words up to one that is 0, if they do not reach the end of the segment.
WordsEndAfter(m, a, l) ==
  WordAt(m, a + 2 * l) = 0 /\ \A j \in 0 .. l - 1 : WordAt(m, a + 2 * j) # 0

\* An array of pointers is read up to the first 0.
LEMMA PointersOf ==
  ASSUME NEW m, NEW a \in Nat, NEW l \in Nat, a + 2 * l < 65536, WordsEndAfter(m, a, l)
  PROVE  Pointers(m, a) = [j \in 1 .. l |-> WordAt(m, a + 2 * (j - 1))]
<1> DEFINE at(k) == WordAt(m, (a + 2 * k) % 65536)
           End(k) == at(k) = 0 /\ \A j \in 0 .. k - 1 : at(j) # 0
           n == CHOOSE k \in Values(32769) : End(k)
<1>1. ASSUME NEW k \in 0 .. l PROVE at(k) = WordAt(m, a + 2 * k)
  <2>1. (a + 2 * k) % 65536 = a + 2 * k OBVIOUS
  <2> QED BY <2>1
<1> HIDE DEF at
<1>2. at(l) = 0
  <2>1. WordAt(m, a + 2 * l) = 0 BY DEF WordsEndAfter
  <2> QED BY <1>1, <2>1
<1>3. \A j \in 1 .. l : at(j - 1) = WordAt(m, a + 2 * (j - 1))
  <2> TAKE j \in 1 .. l
  <2>1. j - 1 \in 0 .. l OBVIOUS
  <2> QED BY <1>1, <2>1
<1>4. \A j \in 0 .. l - 1 : at(j) # 0
  <2> TAKE j \in 0 .. l - 1
  <2>1. j \in 0 .. l /\ WordAt(m, a + 2 * j) # 0 BY DEF WordsEndAfter
  <2> QED BY <1>1, <2>1
<1>5. l <= 32768 OBVIOUS
<1>6. End(l) BY <1>2, <1>4
<1>7. ASSUME NEW k \in Nat, End(k) PROVE k = l
  <2>1. at(k) = 0 /\ \A j \in 0 .. k - 1 : at(j) # 0 BY <1>7
  <2> HIDE DEF End
  <2>2. ASSUME k < l PROVE FALSE
    <3>1. k \in 0 .. l - 1 BY <2>2
    <3> QED BY <1>4, <2>1, <3>1
  <2>3. ASSUME l < k PROVE FALSE
    <3>1. l \in 0 .. k - 1 BY <2>3
    <3> QED BY <1>2, <2>1, <3>1
  <2> QED BY <2>2, <2>3
<1> HIDE DEF End
<1>8. n = l
  <2>1. l \in Values(32769) /\ \A k \in Values(32769) : k \in Nat BY <1>5, InValues
  <2> QED BY <1>6, <1>7, <2>1
<1>9. Pointers(m, a) = [j \in 1 .. n |-> at(j - 1)] BY DEF Pointers, at, End
<1> HIDE DEF n
<1>10. Pointers(m, a) = [j \in 1 .. l |-> at(j - 1)] BY <1>8, <1>9
<1> QED BY <1>3, <1>10
-----------------------------------------------------------------------------
\* Where the strings of a block are found: each after those before it.
Start(strings, k) == Before(Ended(strings), k)

\* Each string lies within the characters of all.
LEMMA StartBounds ==
  ASSUME NEW strings \in Seq(Strings), NEW k \in 1 .. Len(strings)
  PROVE  /\ Start(strings, k) \in Nat /\ Len(strings[k]) \in Nat
         /\ Start(strings, k) + Len(strings[k]) < Len(Characters(strings))
         /\ Start(strings, k) + Len(Characters(SubSeq(strings, k, Len(strings))))
              = Len(Characters(strings))
<1>1. /\ Ended(strings) \in Seq(Seq(Byte)) /\ Len(Ended(strings)) = Len(strings)
      /\ Ended(strings)[k] = strings[k] \o <<0>> /\ strings[k] \in Strings
      BY EndedType
<1>2. Len(strings) \in Nat BY LenProperties
<1>3. Len(strings[k]) \in Nat /\ Len(Ended(strings)[k]) = Len(strings[k]) + 1
      BY <1>1, EndedString
<1> DEFINE e == Ended(strings)
           n == Len(strings)
<1>4. Ended(SubSeq(strings, k, n)) = SubSeq(e, k, n) BY <1>2, EndedOfSubSeq
<1> HIDE DEF e
<1>5. e \in Seq(Seq(Byte)) /\ k \in 1 .. Len(e) BY <1>1 DEF e
<1>6. /\ Before(e, k) \in Nat
      /\ Before(e, k) + Len(e[k]) <= Len(FlattenSeq(e))
      /\ Before(e, k) + Len(FlattenSeq(SubSeq(e, k, Len(e)))) = Len(FlattenSeq(e))
      BY <1>5, FlattenAt
<1>7. Characters(strings) = FlattenSeq(e) /\ Characters(SubSeq(strings, k, n)) = FlattenSeq(SubSeq(e, k, n))
      BY <1>4 DEF Characters, e
<1>8. Start(strings, k) = Before(e, k) BY DEF Start, e
<1>9. Len(e) = n /\ Len(e[k]) = Len(strings[k]) + 1 BY <1>1, <1>3 DEF e
<1>10. Len(FlattenSeq(e)) \in Nat BY <1>5, FlattenType, LenProperties
<1> QED BY <1>3, <1>6, <1>7, <1>8, <1>9, <1>10

\* Each of the strings that lie in memory is read at its start.
LEMMA StringsFound ==
  ASSUME NEW m, NEW a, a \in Int, NEW strings \in Seq(Strings), NEW k \in 1 .. Len(strings),
         Len(Characters(strings)) <= 65536, Lies(m, a, Characters(strings))
  PROVE  CString(m, a + Start(strings, k)) = strings[k]
<1> DEFINE s == strings[k]
           t == s \o <<0>>
           b == Start(strings, k)
           all == Characters(strings)
<1>1. b \in Nat /\ Len(s) \in Nat /\ b + Len(s) < Len(all) BY StartBounds
<1>2. s \in Strings /\ Ended(strings)[k] = t BY EndedType
<1>3. Len(t) = Len(s) + 1 BY <1>2, EndedString
<1>4. \A j \in 1 .. Len(t) : all[b + j] = t[j]
  <2>1. Ended(strings) \in Seq(Seq(Byte)) /\ Len(Ended(strings)) = Len(strings) BY EndedType
  <2>2. k \in 1 .. Len(Ended(strings)) BY <2>1
  <2>3. \A j \in 1 .. Len(Ended(strings)[k]) :
          FlattenSeq(Ended(strings))[Before(Ended(strings), k) + j] = Ended(strings)[k][j]
        BY <2>1, <2>2, FlattenAt
  <2> QED BY <1>2, <2>3 DEF Characters, Start
<1>5. Len(all) \in Nat BY EndedType, LenProperties
<1>6. Len(all) <= 65536 /\ Lies(m, a, all) OBVIOUS
<1> HIDE DEF s, t, b, all
<1>7. ASSUME NEW j \in 1 .. Len(t) PROVE At(m, a + b + j - 1) = t[j]
  <2> DEFINE i == b + j
  <2>1. i \in 1 .. Len(all) /\ a + b + j - 1 = a + i - 1 BY <1>1, <1>3, <1>5
  <2>2. all[i] = t[j] BY <1>4
  <2> HIDE DEF i
  <2>3. At(m, a + i - 1) = all[i] BY <1>6, <2>1 DEF Lies
  <2> QED BY <2>1, <2>2, <2>3
<1>8. Len(s) <= 65536 BY <1>1, <1>5, <1>6
<1>9. StringLies(m, a + b, s) BY <1>7, <1>8 DEF StringLies, Lies, t
<1>10. a + b \in Int BY <1>1
<1>11. CString(m, a + b) = s BY <1>2, <1>9, <1>10, CStringFound
<1> QED BY <1>11 DEF s, b

\* A padding of 0 or 1 byte makes the size even.
LEMMA PaddingType ==
  ASSUME NEW strings \in Seq(Strings)
  PROVE  /\ Padding(strings) \in Seq(Byte) /\ Len(Padding(strings)) \in Nat
         /\ (Len(Characters(strings)) + Len(Padding(strings))) % 2 = 0
<1>1. Len(Characters(strings)) \in Nat BY EndedType, LenProperties
<1>2. 0 \in Byte BY InByte
<1>3. <<0>> \in Seq(Byte) /\ Len(<<0>>) = 1 /\ <<>> \in Seq(Byte) /\ Len(<<>>) = 0 BY <1>2
<1>4. CASE Len(Characters(strings)) % 2 = 1
  <2>1. Padding(strings) = <<0>> BY <1>4 DEF Padding
  <2> QED BY <1>1, <1>3, <1>4, <2>1
<1>5. CASE Len(Characters(strings)) % 2 # 1
  <2>1. Padding(strings) = <<>> BY <1>5 DEF Padding
  <2>2. Len(Characters(strings)) % 2 = 0 BY <1>1, <1>5
  <2> QED BY <1>1, <1>3, <2>1, <2>2
<1> QED BY <1>4, <1>5

\* The places noted for the strings are words, ...
LEMMA PlacesType ==
  ASSUME NEW strings \in Seq(Strings)
  PROVE  Places(strings) \in Seq(Word) /\ Len(Places(strings)) = Len(strings)
<1> DEFINE n == Len(strings)
           p == Padding(strings)
           z(k) == Characters(SubSeq(strings, k, n))
<1>1. n \in Nat /\ DOMAIN strings = 1 .. n BY LenProperties
<1>2. Places(strings) = [k \in 1 .. n |-> (-Len(z(k) \o p)) % 65536] BY <1>1 DEF Places
<1>3. ASSUME NEW k \in 1 .. n PROVE (-Len(z(k) \o p)) % 65536 \in Word
  <2>1. SubSeq(strings, k, n) \in Seq(Strings) BY <1>1, EndedOfSubSeq
  <2>2. z(k) \in Seq(Byte) BY <2>1, EndedType
  <2>3. p \in Seq(Byte) BY PaddingType
  <2> HIDE DEF z, n, p
  <2>4. z(k) \o p \in Seq(Byte) BY <2>2, <2>3, ConcatProperties
  <2>5. Len(z(k) \o p) \in Nat BY <2>4, LenProperties
  <2>6. -Len(z(k) \o p) \in Int BY <2>5
  <2> QED BY <2>6, ModWord
<1> HIDE DEF n, p, z
<1>4. Places(strings) \in Seq(Word) /\ Len(Places(strings)) = n BY <1>1, <1>2, <1>3
<1> QED BY <1>4 DEF n

\* ... never 0, and where the strings end up on an empty stack.
LEMMA PlacesAt ==
  ASSUME NEW strings \in Seq(Strings),
         Len(Characters(strings)) + Len(Padding(strings)) < 65536
  PROVE  \A k \in 1 .. Len(strings) :
           /\ Places(strings)[k] # 0
           /\ Places(strings)[k] = 65536 - (Len(Characters(strings)) + Len(Padding(strings)))
                                    + Start(strings, k)
<1> DEFINE n == Len(strings)
           p == Padding(strings)
           z(k) == Characters(SubSeq(strings, k, n))
           l == Len(Characters(strings)) + Len(p)
<1>1. n \in Nat /\ DOMAIN strings = 1 .. n BY LenProperties
<1>2. Places(strings) = [k \in 1 .. n |-> (-Len(z(k) \o p)) % 65536] BY <1>1 DEF Places
<1>3. p \in Seq(Byte) /\ Len(p) \in Nat BY PaddingType
<1>4. Len(Characters(strings)) \in Nat BY EndedType, LenProperties
<1>5. ASSUME NEW k \in 1 .. n
      PROVE  /\ Places(strings)[k] = 65536 - l + Start(strings, k)
             /\ Places(strings)[k] # 0
  <2>1. /\ Start(strings, k) \in Nat /\ Len(strings[k]) \in Nat
        /\ Start(strings, k) + Len(strings[k]) < Len(Characters(strings))
        /\ Start(strings, k) + Len(z(k)) = Len(Characters(strings))
        BY StartBounds
  <2>2. SubSeq(strings, k, n) \in Seq(Strings) BY <1>1, EndedOfSubSeq
  <2>3. z(k) \in Seq(Byte)
    <3> DEFINE u == SubSeq(strings, k, n)
    <3>1. u \in Seq(Strings) BY <2>2
    <3> HIDE DEF u
    <3>2. Characters(u) \in Seq(Byte) BY <3>1, EndedType
    <3> QED BY <3>2 DEF u
  <2>4. Len(z(k)) \in Nat BY <2>3, LenProperties
  <2> HIDE DEF z, n
  <2>5. Len(z(k) \o p) = Len(z(k)) + Len(p) BY <1>3, <2>3, ConcatProperties
  <2>6. Places(strings)[k] = (-(Len(z(k)) + Len(p))) % 65536 BY <1>2, <2>5
  <2> DEFINE r == Len(z(k)) + Len(p)
  <2>7. r \in Nat /\ 0 < r /\ r <= l /\ 65536 - l + Start(strings, k) = 65536 - r
    <3> DEFINE C == Len(Characters(strings))
               Z == Len(z(k))
               P == Len(p)
               T == Start(strings, k)
               V == Len(strings[k])
    <3>1. /\ C \in Nat /\ Z \in Nat /\ P \in Nat /\ T \in Nat /\ V \in Nat
          /\ T + V < C /\ T + Z = C
          BY <1>3, <1>4, <2>1, <2>4
    <3> HIDE DEF C, Z, P, T, V
    <3>2. Z + P \in Nat /\ 0 < Z + P /\ Z + P <= C + P
          /\ 65536 - (C + P) + T = 65536 - (Z + P)
          BY <3>1
    <3> QED BY <3>2 DEF C, Z, P, T
  <2>8. l < 65536 OBVIOUS
  <2>9. l \in Nat BY <1>3, <1>4
  <2>10. Places(strings)[k] = (-r) % 65536 BY <2>6
  <2> HIDE DEF r, l, p
  <2>11. (-r) % 65536 = 65536 - r BY <2>7, <2>8, <2>9
  <2>12. 65536 - r # 0 BY <2>7, <2>8, <2>9
  <2> QED BY <2>7, <2>10, <2>11, <2>12
<1> QED BY <1>5
-----------------------------------------------------------------------------
\* A block on an empty stack lies at its bottom, and below it memory is what it was.
LEMMA PushedLies ==
  ASSUME NEW m, IsMemory(m), NEW block \in Seq(Byte), 0 < Len(block), Len(block) <= 65536
  PROVE  /\ Bottom(block) = 65536 - Len(block) /\ Bottom(block) \in Word
         /\ IsMemory(Pushed(m, block)) /\ Lies(Pushed(m, block), Bottom(block), block)
         /\ \A a \in Int : a < Bottom(block) => At(Pushed(m, block), a) = At(m, a)
<1> DEFINE l == Len(block)
           b == Bottom(block)
           new == [a \in b .. 65535 |-> block[a - b + 1]]
           after == Pushed(m, block)
<1>1. l \in Nat /\ 0 < l /\ l <= 65536 BY LenProperties
<1>2. b = 65536 - l
  <2>1. b = (-l) % 65536 BY DEF Bottom
  <2> HIDE DEF l
  <2> QED BY <1>1, <2>1
<1>3. b \in Nat /\ b < 65536 BY <1>1, <1>2
<1>4. after = StoreAll(m, new) BY DEF Pushed
<1>5. \A j \in 1 .. l : block[j] \in Byte BY ElementOfSeq
<1> HIDE DEF l, b, after
<1>6. ASSUME NEW a \in b .. 65535 PROVE a - b + 1 \in 1 .. l /\ a \in Word
      BY <1>1, <1>2, <1>3, InWord
<1>7. ASSUME NEW a \in DOMAIN new PROVE a \in Word /\ new[a] \in Byte /\ new[a] = block[a - b + 1]
      BY <1>5, <1>6
<1>8. DOMAIN new = b .. 65535 OBVIOUS
<1> HIDE DEF new
<1>9. DOMAIN after = DOMAIN m \cup DOMAIN new
      /\ \A a \in DOMAIN after : after[a] = IF a \in DOMAIN new THEN new[a] ELSE m[a]
      BY <1>4 DEF StoreAll
<1>10. IsMemory(after)
  <2>1. ASSUME NEW a \in DOMAIN after PROVE a \in Word /\ after[a] \in Byte
    <3>1. CASE a \in DOMAIN new BY <1>7, <1>9, <3>1
    <3>2. CASE a \notin DOMAIN new BY <1>9, <3>2 DEF IsMemory
    <3> QED BY <3>1, <3>2
  <2> QED BY <2>1 DEF IsMemory
<1>11. ASSUME NEW j \in 1 .. l PROVE At(after, b + j - 1) = block[j]
  <2> DEFINE a == b + j - 1
  <2>1. a \in b .. 65535 /\ a - b + 1 = j BY <1>1, <1>2, <1>3
  <2> HIDE DEF a
  <2>2. a \in DOMAIN after /\ after[a] = block[j] BY <1>7, <1>8, <1>9, <2>1
  <2>3. At(after, a) = block[j] BY <2>2 DEF At
  <2> QED BY <2>3 DEF a
<1>12. Lies(after, b, block) BY <1>11 DEF Lies, l
<1>13. ASSUME NEW a \in Int, a < b PROVE At(after, a) = At(m, a)
  <2>1. a \notin DOMAIN new BY <1>3, <1>8, <1>13
  <2> QED BY <1>9, <2>1 DEF At
<1>14. b \in Word BY <1>3, InWord
<1> QED BY <1>2, <1>10, <1>12, <1>13, <1>14 DEF b, l, after
-----------------------------------------------------------------------------
\* A block is words, the characters of strings, and what makes its length even.
Block(head, strings) == Words(head) \o Characters(strings) \o Padding(strings)

\* How long a block is and what its parts are.
LEMMA BlockSize ==
  ASSUME NEW head \in Seq(Int), NEW strings \in Seq(Strings)
  PROVE  /\ Block(head, strings) \in Seq(Byte)
         /\ Words(head) \in Seq(Byte) /\ Characters(strings) \in Seq(Byte)
         /\ Padding(strings) \in Seq(Byte)
         /\ Len(head) \in Nat /\ Len(Characters(strings)) \in Nat /\ Len(Padding(strings)) \in Nat
         /\ Len(Block(head, strings))
              = 2 * Len(head) + (Len(Characters(strings)) + Len(Padding(strings)))
         /\ Len(Block(head, strings)) % 2 = 0
<1> DEFINE w == Words(head)
           c == Characters(strings)
           p == Padding(strings)
           h == Len(head)
<1>1. w \in Seq(Byte) /\ Len(w) = 2 * h BY WordsAt
<1>2. c \in Seq(Byte) BY EndedType
<1>3. p \in Seq(Byte) /\ (Len(c) + Len(p)) % 2 = 0 BY PaddingType
<1>4. h \in Nat /\ Len(c) \in Nat /\ Len(p) \in Nat BY <1>2, <1>3, LenProperties
<1>5. Block(head, strings) = (w \o c) \o p BY DEF Block
<1> HIDE DEF w, c, p, h
<1>6. w \o c \in Seq(Byte) /\ Len(w \o c) = Len(w) + Len(c) BY <1>1, <1>2, ConcatProperties
<1>7. (w \o c) \o p \in Seq(Byte) /\ Len((w \o c) \o p) = Len(w \o c) + Len(p)
      BY <1>3, <1>6, ConcatProperties
<1>8. Len(Block(head, strings)) = 2 * h + (Len(c) + Len(p)) BY <1>1, <1>4, <1>5, <1>6, <1>7
<1>9. (2 * h + (Len(c) + Len(p))) % 2 = 0 BY <1>3, <1>4
<1> QED BY <1>1, <1>2, <1>3, <1>4, <1>5, <1>7, <1>8, <1>9 DEF w, c, p, h

\* Word k from b on.
WordIn(m, b, k) == WordAt(m, b + 2 * (k - 1))

BlockLies(m, b, head, strings) ==
  /\ Len(Block(head, strings)) <= 65536
  /\ b = Bottom(Block(head, strings)) /\ Lies(m, b, Block(head, strings))

\* What is found of a block that lies at the end of memory: its words, and its strings
\* at the places that are noted for them.
LEMMA BlockFound ==
  ASSUME NEW head \in Seq(Word), head # <<>>, NEW strings \in Seq(Strings),
         NEW m, NEW b, BlockLies(m, b, head, strings)
  PROVE  /\ \A k \in 1 .. Len(head) : WordIn(m, b, k) = head[k]
         /\ \A k \in 1 .. Len(strings) :
              Places(strings)[k] # 0 /\ CString(m, Places(strings)[k]) = strings[k]
<1> DEFINE w == Words(head)
           c == Characters(strings)
           p == Padding(strings)
           h == Len(head)
           block == Block(head, strings)
<1>1. head \in Seq(Int) BY WordIsInt, SeqMonotonic
<1>2. /\ block \in Seq(Byte) /\ w \in Seq(Byte) /\ c \in Seq(Byte) /\ p \in Seq(Byte)
      /\ h \in Nat /\ Len(c) \in Nat /\ Len(p) \in Nat
      /\ Len(block) = 2 * h + (Len(c) + Len(p))
      BY <1>1, BlockSize
<1>3. Len(w) = 2 * h BY <1>1, WordsAt
<1>4. h # 0 BY EmptySeq
<1>5. block = (w \o c) \o p BY DEF Block
<1>6. Len(block) <= 65536 /\ Lies(m, b, block) BY DEF BlockLies
<1>7. b = (-Len(block)) % 65536 BY DEF BlockLies, Bottom
<1> HIDE DEF w, c, p, h, block
<1>8. b = 65536 - Len(block)
  <2> DEFINE l == Len(block)
  <2>1. l \in Nat /\ 0 < l /\ l <= 65536 BY <1>2, <1>4, <1>6
  <2>2. b = (-l) % 65536 BY <1>7
  <2> HIDE DEF l
  <2>3. b = 65536 - l BY <2>1, <2>2
  <2> QED BY <2>3 DEF l
<1>9. b \in Int BY <1>2, <1>8
<1>10. Lies(m, b, Three(w, c, p))
  <2>1. block = Three(w, c, p) BY <1>5 DEF Three
  <2> QED BY <1>6, <2>1
<1>11. w \in Seq(Byte) /\ c \in Seq(Byte) /\ p \in Seq(Byte) BY <1>2
<1>12. Lies(m, b, w) /\ Lies(m, b + Len(w), c)
  <2>1. Lies(m, b, w) BY <1>9, <1>10, <1>11, LiesInThree
  <2>2. Lies(m, After(b, w), c) BY <1>9, <1>10, <1>11, LiesInThree
  <2> QED BY <2>1, <2>2 DEF After
<1>13. ASSUME NEW k \in 1 .. h PROVE WordAt(m, b + 2 * (k - 1)) = head[k]
  <2>1. k \in 1 .. Len(head) BY DEF h
  <2>2. Lies(m, b, Words(head)) BY <1>12 DEF w
  <2> QED BY <1>9, <2>1, <2>2, WordsRead
<1>14. ASSUME NEW k \in 1 .. Len(strings)
       PROVE  Places(strings)[k] # 0 /\ CString(m, Places(strings)[k]) = strings[k]
  <2>1. Len(c) + Len(p) < 65536 BY <1>2, <1>4, <1>6
  <2>2. Len(Characters(strings)) + Len(Padding(strings)) < 65536 BY <2>1 DEF c, p
  <2>3. Places(strings)[k] # 0 /\ Places(strings)[k]
          = 65536 - (Len(Characters(strings)) + Len(Padding(strings))) + Start(strings, k)
        BY <2>2, PlacesAt
  <2>4. Start(strings, k) \in Nat BY StartBounds
  <2>5. Places(strings)[k] = (b + Len(w)) + Start(strings, k)
    <3>1. Places(strings)[k] = 65536 - (Len(c) + Len(p)) + Start(strings, k) BY <2>3 DEF c, p
    <3> QED BY <1>2, <1>3, <1>8, <2>4, <3>1
  <2>6. Len(Characters(strings)) <= 65536 BY <1>2, <2>1 DEF c
  <2>7. Lies(m, b + Len(w), Characters(strings)) BY <1>12 DEF c
  <2>8. b + Len(w) \in Int BY <1>2, <1>3, <1>9
  <2> HIDE DEF w
  <2>9. CString(m, (b + Len(w)) + Start(strings, k)) = strings[k]
        BY <2>6, <2>7, <2>8, StringsFound
  <2> QED BY <2>3, <2>5, <2>9
<1> QED BY <1>13, <1>14 DEF h, WordIn
-----------------------------------------------------------------------------
\* The words of the block that Minix::processArgs pushes: argc, argv, 0, envp, 0.
MinixHead(argv, env) ==
  LET at == Places(Append(argv, env))
      n == Len(argv)
  IN  <<n>> \o SubSeq(at, 1, n) \o <<0, at[n + 1], 0>>

\* The words that begin the stack of a Minix program.
LEMMA MinixHeadType ==
  ASSUME NEW argv \in Seq(Strings), NEW env \in Strings
  PROVE  /\ Append(argv, env) \in Seq(Strings)
         /\ MinixHead(argv, env) \in Seq(Int)
         /\ Len(MinixHead(argv, env)) = Len(argv) + 4 /\ Len(argv) \in Nat
         /\ MinixHead(argv, env)[1] = Len(argv)
         /\ \A k \in 1 .. Len(argv) :
              MinixHead(argv, env)[k + 1] = Places(Append(argv, env))[k]
         /\ MinixHead(argv, env)[Len(argv) + 2] = 0
         /\ MinixHead(argv, env)[Len(argv) + 3] = Places(Append(argv, env))[Len(argv) + 1]
         /\ MinixHead(argv, env)[Len(argv) + 4] = 0
<1> DEFINE strings == Append(argv, env)
           n == Len(argv)
           at == Places(strings)
           h == MinixHead(argv, env)
           s == <<n>>
           t == SubSeq(at, 1, n)
           u == <<0, at[n + 1], 0>>
<1>1. n \in Nat /\ strings \in Seq(Strings) /\ Len(strings) = n + 1
      BY LenProperties, AppendProperties
<1>2. h = (s \o t) \o u BY DEF MinixHead
<1> HIDE DEF h, strings
<1>3. at \in Seq(Word) /\ Len(at) = n + 1 BY <1>1, PlacesType
<1> HIDE DEF n, at
<1>4. \A k \in 1 .. n + 1 : at[k] \in Int BY <1>3, ElementOfSeq, WordIsInt
<1>5. s \in Seq(Int) /\ Len(s) = 1 /\ s[1] = n BY <1>1
<1>6. t \in Seq(Int) /\ Len(t) = n /\ \A i \in 1 .. n : t[i] = at[i]
  <2>1. \A i \in 1 .. n : at[i] \in Int BY <1>1, <1>4
  <2>2. t \in Seq(Int) /\ Len(t) = (IF 1 <= n THEN n - 1 + 1 ELSE 0)
        /\ \A i \in 1 .. n - 1 + 1 : t[i] = at[1 + i - 1]
        BY <1>1, <2>1, SubSeqProperties
  <2> HIDE DEF t
  <2>3. n - 1 + 1 = n /\ \A i \in 1 .. n : 1 + i - 1 = i BY <1>1
  <2>4. Len(t) = n BY <1>1, <2>2
  <2> QED BY <2>2, <2>3, <2>4
<1>7. u \in Seq(Int) /\ Len(u) = 3 /\ u[1] = 0 /\ u[2] = at[n + 1] /\ u[3] = 0
  <2>1. at[n + 1] \in Int BY <1>1, <1>4
  <2> QED BY <2>1
<1> HIDE DEF s, t, u
<1>8. s \o t \in Seq(Int) /\ Len(s \o t) = n + 1
      /\ \A i \in 1 .. n + 1 : (s \o t)[i] = IF i <= 1 THEN s[i] ELSE t[i - 1]
  <2>1. /\ s \o t \in Seq(Int) /\ Len(s \o t) = Len(s) + Len(t)
        /\ \A i \in 1 .. Len(s) + Len(t) : (s \o t)[i] = IF i <= Len(s) THEN s[i] ELSE t[i - Len(s)]
        BY <1>5, <1>6, ConcatProperties
  <2>2. Len(s) + Len(t) = n + 1 BY <1>1, <1>5, <1>6
  <2> QED BY <1>5, <2>1, <2>2
<1> DEFINE d == s \o t
<1>9. d \in Seq(Int) /\ Len(d) = n + 1 /\ h = d \o u
      /\ \A i \in 1 .. n + 1 : d[i] = IF i <= 1 THEN s[i] ELSE t[i - 1]
      BY <1>2, <1>8
<1> HIDE DEF d
<1>10. d[1] = n /\ \A k \in 1 .. n : d[k + 1] = at[k]
  <2>1. 1 \in 1 .. n + 1 BY <1>1
  <2>2. ASSUME NEW k \in 1 .. n PROVE d[k + 1] = at[k]
    <3>1. k + 1 \in 1 .. n + 1 /\ ~(k + 1 <= 1) /\ k + 1 - 1 = k BY <1>1
    <3>2. d[k + 1] = t[k] BY <1>9, <3>1
    <3> QED BY <1>6, <3>2
  <2>3. d[1] = s[1] BY <1>9, <2>1
  <2> QED BY <1>5, <2>2, <2>3
<1>11. h \in Seq(Int) /\ Len(h) = n + 4
       /\ \A i \in 1 .. n + 4 : h[i] = IF i <= n + 1 THEN d[i] ELSE u[i - (n + 1)]
  <2>1. /\ d \o u \in Seq(Int) /\ Len(d \o u) = Len(d) + Len(u)
        /\ \A i \in 1 .. Len(d) + Len(u) : (d \o u)[i] = IF i <= Len(d) THEN d[i] ELSE u[i - Len(d)]
        BY <1>7, <1>9, ConcatProperties
  <2>2. Len(d) + Len(u) = n + 4 BY <1>1, <1>7, <1>9
  <2> QED BY <1>9, <2>1, <2>2
<1>12. h[1] = n /\ \A k \in 1 .. n : h[k + 1] = at[k]
  <2>1. 1 \in 1 .. n + 4 /\ 1 <= n + 1 BY <1>1
  <2>2. ASSUME NEW k \in 1 .. n PROVE h[k + 1] = at[k]
    <3>1. k + 1 \in 1 .. n + 4 /\ k + 1 <= n + 1 BY <1>1
    <3> QED BY <1>10, <1>11, <3>1
  <2> QED BY <1>10, <1>11, <2>1, <2>2
<1>13. h[n + 2] = 0 /\ h[n + 3] = at[n + 1] /\ h[n + 4] = 0
  <2>1. ASSUME NEW j \in 1 .. 3 PROVE h[n + 1 + j] = u[j]
    <3> DEFINE i == n + 1 + j
    <3>1. i \in 1 .. n + 4 /\ ~(i <= n + 1) /\ i - (n + 1) = j BY <1>1
    <3> HIDE DEF i
    <3>2. h[i] = u[j] BY <1>11, <3>1
    <3> QED BY <3>2 DEF i
  <2>2. h[n + 1 + 1] = u[1] /\ h[n + 1 + 2] = u[2] /\ h[n + 1 + 3] = u[3] BY <2>1
  <2>3. n + 1 + 1 = n + 2 /\ n + 1 + 2 = n + 3 /\ n + 1 + 3 = n + 4 BY <1>1
  <2> QED BY <1>7, <2>2, <2>3
<1> QED BY <1>1, <1>11, <1>12, <1>13 DEF h, n, strings, at

\* A program of Minix finds on its stack argc, argv, a 0, its environment and a 0.
LEMMA MinixBlockSize ==
  ASSUME NEW argv \in Seq(Strings), NEW env \in Strings, Len(MinixBlock(argv, env)) <= 65536
  PROVE  /\ MinixBlock(argv, env) = Block(MinixHead(argv, env), Append(argv, env))
         /\ MinixBlock(argv, env) \in Seq(Byte) /\ 0 < Len(MinixBlock(argv, env))
         /\ Len(MinixBlock(argv, env)) % 2 = 0
         /\ MinixHead(argv, env) \in Seq(Word) /\ MinixHead(argv, env) # <<>>
<1> DEFINE strings == Append(argv, env)
           n == Len(argv)
           h == MinixHead(argv, env)
           block == MinixBlock(argv, env)
<1>1. /\ strings \in Seq(Strings) /\ h \in Seq(Int) /\ Len(h) = n + 4 /\ n \in Nat
      /\ h[1] = n /\ \A k \in 1 .. n : h[k + 1] = Places(strings)[k]
      /\ h[n + 2] = 0 /\ h[n + 3] = Places(strings)[n + 1] /\ h[n + 4] = 0
      BY MinixHeadType
<1>2. Len(strings) = n + 1 BY AppendProperties
<1>3. block = Block(h, strings) BY DEF MinixBlock, Block, MinixHead
<1>4. Len(block) <= 65536 OBVIOUS
<1> HIDE DEF strings, n, h, block
<1>5. /\ block \in Seq(Byte) /\ Len(Characters(strings)) \in Nat /\ Len(Padding(strings)) \in Nat
      /\ Len(block) = 2 * Len(h) + (Len(Characters(strings)) + Len(Padding(strings)))
      /\ Len(block) % 2 = 0
  <2>1. h \in Seq(Int) /\ strings \in Seq(Strings) BY <1>1
  <2>2. /\ Block(h, strings) \in Seq(Byte)
        /\ Len(Characters(strings)) \in Nat /\ Len(Padding(strings)) \in Nat
        /\ Len(Block(h, strings)) = 2 * Len(h) + (Len(Characters(strings)) + Len(Padding(strings)))
        /\ Len(Block(h, strings)) % 2 = 0
        BY <2>1, BlockSize
  <2> QED BY <1>3, <2>2
<1>6. n \in Word
  <2>1. n \in Int /\ 0 <= n /\ n < 65536 BY <1>1, <1>4, <1>5
  <2> QED BY <2>1, InWord
<1>7. Places(strings) \in Seq(Word) /\ Len(Places(strings)) = n + 1 BY <1>1, <1>2, PlacesType
<1>8. \A k \in 1 .. n + 1 : Places(strings)[k] \in Word BY <1>7, ElementOfSeq
<1>9. 0 \in Word BY InWord
<1>10. ASSUME NEW i \in 1 .. n + 4 PROVE h[i] \in Word
  <2>1. CASE i = 1 BY <1>1, <1>6, <2>1
  <2>2. CASE i \in 2 .. n + 1
    <3> DEFINE k == i - 1
    <3>1. k \in 1 .. n /\ k \in 1 .. n + 1 /\ i = k + 1 BY <1>1, <2>2
    <3> HIDE DEF k
    <3>2. h[k + 1] = Places(strings)[k] BY <1>1, <3>1
    <3> QED BY <1>8, <3>1, <3>2
  <2>3. CASE i = n + 2 BY <1>1, <1>9, <2>3
  <2>4. CASE i = n + 3
    <3>1. n + 1 \in 1 .. n + 1 BY <1>1
    <3> QED BY <1>1, <1>8, <2>4, <3>1
  <2>5. CASE i = n + 4 BY <1>1, <1>9, <2>5
  <2> QED BY <1>1, <2>1, <2>2, <2>3, <2>4, <2>5
<1>11. h \in Seq(Word)
  <2>1. h \in [1 .. n + 4 -> Int] BY <1>1, LenProperties
  <2> QED BY <1>1, <1>10, <2>1
<1>12. h # <<>>
  <2>1. Len(<<>>) = 0 OBVIOUS
  <2> QED BY <1>1, <2>1
<1>13. 0 < Len(block) BY <1>1, <1>5
<1> QED BY <1>3, <1>5, <1>11, <1>12, <1>13 DEF strings, n, h, block

\* The arguments that lie in m over a block at b.
ArgvIn(m, b) == [k \in 1 .. WordAt(m, b) |-> CString(m, WordAt(m, b + 2 * k))]

\* A Minix block at the top of the segment: its arguments and its environment are found.
LEMMA MinixBlockFound ==
  ASSUME NEW argv \in Seq(Strings), NEW env \in Strings, Len(MinixBlock(argv, env)) <= 65536,
         NEW m, Lies(m, Bottom(MinixBlock(argv, env)), MinixBlock(argv, env)),
         NEW b, b = Bottom(MinixBlock(argv, env)), b \in Word
  PROVE  /\ WordAt(m, b) = Len(argv) /\ ArgvIn(m, b) = argv
         /\ WordAt(m, b + 2 * (Len(argv) + 1)) = 0
         /\ CString(m, WordAt(m, b + 2 * (Len(argv) + 2))) = env
         /\ WordAt(m, b + 2 * (Len(argv) + 3)) = 0
<1> DEFINE strings == Append(argv, env)
           n == Len(argv)
           h == MinixHead(argv, env)
           word(k) == WordAt(m, b + 2 * (k - 1))
<1>1. /\ strings \in Seq(Strings) /\ Len(h) = n + 4 /\ n \in Nat
      /\ h[1] = n /\ \A k \in 1 .. n : h[k + 1] = Places(strings)[k]
      /\ h[n + 2] = 0 /\ h[n + 3] = Places(strings)[n + 1] /\ h[n + 4] = 0
      BY MinixHeadType
<1>2. Len(strings) = n + 1 /\ strings[n + 1] = env /\ \A k \in 1 .. n : strings[k] = argv[k]
      BY AppendProperties
<1>3. h \in Seq(Word) /\ h # <<>> /\ MinixBlock(argv, env) = Block(h, strings)
      BY MinixBlockSize
<1>4. b \in Int BY InWord
<1>5. argv \in [1 .. n -> Strings] BY LenProperties
<1>6. Lies(m, b, Block(h, strings)) /\ Len(Block(h, strings)) <= 65536
      /\ b = Bottom(Block(h, strings))
      BY <1>3
<1> HIDE DEF strings, n, h
<1>7. BlockLies(m, b, h, strings) BY <1>6 DEF BlockLies
<1>8. /\ \A k \in 1 .. Len(h) : WordIn(m, b, k) = h[k]
      /\ \A k \in 1 .. Len(strings) : CString(m, Places(strings)[k]) = strings[k]
  <2>1. h \in Seq(Word) BY <1>3
  <2>2. h # <<>> BY <1>3
  <2>3. strings \in Seq(Strings) BY <1>1
  <2>4. \A k \in 1 .. Len(h) : WordIn(m, b, k) = h[k] BY <1>7, <2>1, <2>2, <2>3, BlockFound
  <2>5. \A k \in 1 .. Len(strings) : CString(m, Places(strings)[k]) = strings[k]
        BY <1>7, <2>1, <2>2, <2>3, BlockFound
  <2> QED BY <2>4, <2>5
<1>9. \A k \in 1 .. n + 4 : word(k) = h[k] BY <1>1, <1>8 DEF WordIn
<1>10. \A k \in 1 .. n + 1 : CString(m, Places(strings)[k]) = strings[k] BY <1>2, <1>8
<1>11. word(1) = WordAt(m, b)
  <2>1. b + 2 * (1 - 1) = b BY <1>4
  <2> QED BY <2>1
<1>12. \A i \in Int : word(i + 1) = WordAt(m, b + 2 * i)
  <2> TAKE i \in Int
  <2>1. i + 1 - 1 = i OBVIOUS
  <2> QED BY <2>1
<1> HIDE DEF word
<1>13. WordAt(m, b) = n
  <2>1. 1 \in 1 .. n + 4 BY <1>1
  <2>2. word(1) = n BY <1>1, <1>9, <2>1
  <2> QED BY <1>11, <2>2
<1>14. ASSUME NEW k \in 1 .. n PROVE CString(m, WordAt(m, b + 2 * k)) = argv[k]
  <2>1. k + 1 \in 1 .. n + 4 /\ k \in Int /\ k \in 1 .. n + 1 BY <1>1
  <2>2. WordAt(m, b + 2 * k) = word(k + 1) BY <1>12, <2>1
  <2>3. word(k + 1) = Places(strings)[k] BY <1>1, <1>9, <2>1
  <2> QED BY <1>2, <1>10, <2>1, <2>2, <2>3
<1>15. ArgvIn(m, b) = argv
  <2>1. ArgvIn(m, b) = [k \in 1 .. n |-> CString(m, WordAt(m, b + 2 * k))] BY <1>13 DEF ArgvIn
  <2> QED BY <1>5, <1>14, <2>1
<1>16. ASSUME NEW i \in 1 .. 3 PROVE WordAt(m, b + 2 * (n + i)) = h[n + i + 1]
  <2>1. n + i + 1 \in 1 .. n + 4 /\ n + i \in Int BY <1>1
  <2>2. word(n + i + 1) = h[n + i + 1] BY <1>9, <2>1
  <2> QED BY <1>12, <2>1, <2>2
<1>17. n + 1 + 1 = n + 2 /\ n + 2 + 1 = n + 3 /\ n + 3 + 1 = n + 4 /\ n + 1 \in 1 .. n + 1 BY <1>1
<1>18. /\ WordAt(m, b + 2 * (n + 1)) = h[n + 2] /\ WordAt(m, b + 2 * (n + 2)) = h[n + 3]
       /\ WordAt(m, b + 2 * (n + 3)) = h[n + 4]
  <2>1. /\ WordAt(m, b + 2 * (n + 1)) = h[n + 1 + 1] /\ WordAt(m, b + 2 * (n + 2)) = h[n + 2 + 1]
        /\ WordAt(m, b + 2 * (n + 3)) = h[n + 3 + 1]
        BY <1>16
  <2> QED BY <1>17, <2>1
<1>19. CString(m, h[n + 3]) = env BY <1>1, <1>2, <1>10, <1>17
<1> QED BY <1>1, <1>13, <1>15, <1>18, <1>19 DEF n

\* A program of Unix V6 finds argc and argv; the length of its block is never odd.
V6Head(argv) == <<Len(argv)>> \o Places(argv)

\* The size of a V6 block.
LEMMA V6BlockSize ==
  ASSUME NEW argv \in Seq(Strings), Len(V6Block(argv)) <= 65536
  PROVE  /\ V6Block(argv) = Block(V6Head(argv), argv)
         /\ V6Block(argv) \in Seq(Byte) /\ 0 < Len(V6Block(argv)) /\ Len(V6Block(argv)) % 2 = 0
         /\ V6Head(argv) \in Seq(Word)
         /\ Len(V6Head(argv)) = Len(argv) + 1 /\ Len(argv) \in Nat
         /\ V6Head(argv)[1] = Len(argv)
         /\ \A k \in 1 .. Len(argv) :
              V6Head(argv)[k + 1] = Places(argv)[k]
<1> DEFINE n == Len(argv)
           at == Places(argv)
           s == <<n>>
           h == s \o at
           block == V6Block(argv)
<1>1. n \in Nat BY LenProperties
<1>2. at \in Seq(Word) /\ Len(at) = n BY PlacesType
<1>3. s \in Seq(Int) /\ Len(s) = 1 /\ s[1] = n BY <1>1
<1>4. block = IF Len(Block(h, argv)) % 2 = 1 THEN <<0>> \o Block(h, argv) ELSE Block(h, argv)
      BY DEF V6Block, Block
<1>5. Len(block) <= 65536 OBVIOUS
<1> HIDE DEF n, at, s, block
<1>6. at \in Seq(Int) BY <1>2, WordIsInt, SeqMonotonic
<1>7. /\ h \in Seq(Int) /\ Len(h) = Len(s) + Len(at)
      /\ \A i \in 1 .. Len(s) + Len(at) : h[i] = IF i <= Len(s) THEN s[i] ELSE at[i - Len(s)]
  <2>1. s \in Seq(Int) /\ at \in Seq(Int) BY <1>3, <1>6
  <2>2. /\ s \o at \in Seq(Int) /\ Len(s \o at) = Len(s) + Len(at)
        /\ \A i \in 1 .. Len(s) + Len(at) :
             (s \o at)[i] = IF i <= Len(s) THEN s[i] ELSE at[i - Len(s)]
        BY <2>1, ConcatProperties
  <2> QED BY <2>2
<1> HIDE DEF h
<1>8. Len(h) = n + 1 /\ h[1] = n /\ \A k \in 1 .. n : h[k + 1] = at[k]
  <2>1. Len(s) + Len(at) = n + 1 /\ 1 \in 1 .. n + 1 /\ 1 <= Len(s) BY <1>1, <1>2, <1>3
  <2>2. h[1] = n BY <1>3, <1>7, <2>1
  <2>3. ASSUME NEW k \in 1 .. n PROVE h[k + 1] = at[k]
    <3> DEFINE i == k + 1
    <3>1. i \in 1 .. n + 1 /\ ~(i <= Len(s)) /\ i - Len(s) = k BY <1>1, <1>3
    <3> HIDE DEF i
    <3>2. h[i] = at[k] BY <1>7, <2>1, <3>1
    <3> QED BY <3>2 DEF i
  <2> QED BY <1>7, <2>1, <2>2, <2>3
<1>9. /\ Block(h, argv) \in Seq(Byte) /\ Len(Block(h, argv)) % 2 = 0
      /\ Len(Characters(argv)) \in Nat /\ Len(Padding(argv)) \in Nat
      /\ Len(Block(h, argv)) = 2 * Len(h) + (Len(Characters(argv)) + Len(Padding(argv)))
      BY <1>7, BlockSize
<1>10. block = Block(h, argv)
  <2>1. ~(Len(Block(h, argv)) % 2 = 1) BY <1>9
  <2> QED BY <1>4, <2>1
<1>11. n < 65536 /\ 0 < Len(block) BY <1>1, <1>5, <1>8, <1>9, <1>10
<1>12. n \in Word BY <1>1, <1>11, InWord
<1>13. h \in Seq(Word)
  <2>1. ASSUME NEW i \in 1 .. n + 1 PROVE h[i] \in Word
    <3>1. CASE i = 1 BY <1>8, <1>12, <3>1
    <3>2. CASE i \in 2 .. n + 1
      <4> DEFINE k == i - 1
      <4>1. k \in 1 .. n /\ i = k + 1 BY <1>1, <3>2
      <4> HIDE DEF k
      <4>2. h[k + 1] = at[k] /\ at[k] \in Word BY <1>2, <1>8, <4>1, ElementOfSeq
      <4> QED BY <4>1, <4>2
    <3> QED BY <1>1, <3>1, <3>2
  <2>2. h \in [1 .. n + 1 -> Int] BY <1>7, <1>8, LenProperties
  <2> QED BY <1>1, <2>1, <2>2
<1>14. V6Head(argv) = h BY DEF V6Head, h, s, n, at
<1>15. block = V6Block(argv) /\ n = Len(argv) /\ at = Places(argv) BY DEF block, n, at
<1>16. /\ V6Block(argv) = Block(h, argv)
       /\ V6Block(argv) \in Seq(Byte) /\ 0 < Len(V6Block(argv)) /\ Len(V6Block(argv)) % 2 = 0
       BY <1>9, <1>10, <1>11, <1>15
<1>17. h \in Seq(Word) /\ Len(h) = Len(argv) + 1 /\ Len(argv) \in Nat /\ h[1] = Len(argv)
       /\ \A k \in 1 .. Len(argv) : h[k + 1] = Places(argv)[k]
       BY <1>1, <1>8, <1>13, <1>15
<1> QED BY <1>14, <1>16, <1>17

\* A V6 block at the top of the segment: its arguments are found.
LEMMA V6BlockFound ==
  ASSUME NEW argv \in Seq(Strings), Len(V6Block(argv)) <= 65536,
         NEW m, Lies(m, Bottom(V6Block(argv)), V6Block(argv)),
         NEW b, b = Bottom(V6Block(argv)), b \in Word
  PROVE  WordAt(m, b) = Len(argv) /\ ArgvIn(m, b) = argv
<1> DEFINE n == Len(argv)
           h == V6Head(argv)
           word(k) == WordAt(m, b + 2 * (k - 1))
<1>1. /\ V6Block(argv) = Block(h, argv) /\ h \in Seq(Word) /\ Len(h) = n + 1 /\ n \in Nat
      /\ h[1] = n /\ \A k \in 1 .. n : h[k + 1] = Places(argv)[k]
      BY V6BlockSize
<1>2. b \in Int BY InWord
<1>3. argv \in [1 .. n -> Strings] BY LenProperties
<1>4. Lies(m, b, Block(h, argv)) /\ Len(Block(h, argv)) <= 65536
      /\ b = Bottom(Block(h, argv))
      BY <1>1
<1> HIDE DEF n, h
<1>5. h # <<>>
  <2>1. Len(<<>>) = 0 OBVIOUS
  <2> QED BY <1>1, <2>1
<1>6. BlockLies(m, b, h, argv) BY <1>4 DEF BlockLies
<1>7. /\ \A k \in 1 .. Len(h) : WordIn(m, b, k) = h[k]
      /\ \A k \in 1 .. Len(argv) : CString(m, Places(argv)[k]) = argv[k]
  <2>1. h \in Seq(Word) BY <1>1
  <2>2. h # <<>> BY <1>5
  <2>3. \A k \in 1 .. Len(h) : WordIn(m, b, k) = h[k] BY <1>6, <2>1, <2>2, BlockFound
  <2>4. \A k \in 1 .. Len(argv) : CString(m, Places(argv)[k]) = argv[k]
        BY <1>6, <2>1, <2>2, BlockFound
  <2> QED BY <2>3, <2>4
<1>8. \A k \in 1 .. n + 1 : word(k) = h[k] BY <1>1, <1>7 DEF WordIn
<1>9. word(1) = WordAt(m, b)
  <2>1. b + 2 * (1 - 1) = b BY <1>2
  <2> QED BY <2>1
<1>10. \A i \in Int : word(i + 1) = WordAt(m, b + 2 * i)
  <2> TAKE i \in Int
  <2>1. i + 1 - 1 = i OBVIOUS
  <2> QED BY <2>1
<1> HIDE DEF word
<1>11. WordAt(m, b) = n
  <2>1. 1 \in 1 .. n + 1 BY <1>1
  <2>2. word(1) = n BY <1>1, <1>8, <2>1
  <2> QED BY <1>9, <2>2
<1>12. ASSUME NEW k \in 1 .. n PROVE CString(m, WordAt(m, b + 2 * k)) = argv[k]
  <2>1. k + 1 \in 1 .. n + 1 /\ k \in Int BY <1>1
  <2>2. WordAt(m, b + 2 * k) = word(k + 1) BY <1>10, <2>1
  <2>3. word(k + 1) = Places(argv)[k] BY <1>1, <1>8, <2>1
  <2>4. k \in 1 .. Len(argv) BY DEF n
  <2> QED BY <1>7, <2>2, <2>3, <2>4
<1>13. ArgvIn(m, b) = argv
  <2>1. ArgvIn(m, b) = [k \in 1 .. n |-> CString(m, WordAt(m, b + 2 * k))] BY <1>11 DEF ArgvIn
  <2> QED BY <1>3, <1>12, <2>1
<1> QED BY <1>11, <1>13 DEF n
-----------------------------------------------------------------------------
\* The two parts of a longer sequence.
LEMMA JoinedAt ==
  ASSUME NEW s \in Seq(Int), NEW t \in Seq(Int)
  PROVE  /\ s \o t \in Seq(Int) /\ Len(s \o t) = Len(s) + Len(t)
         /\ \A i \in 1 .. Len(s) : (s \o t)[i] = s[i]
         /\ \A j \in 1 .. Len(t) : (s \o t)[Len(s) + j] = t[j]
<1>1. Len(s) \in Nat /\ Len(t) \in Nat BY LenProperties
<1>2. /\ s \o t \in Seq(Int) /\ Len(s \o t) = Len(s) + Len(t)
      /\ \A i \in 1 .. Len(s) + Len(t) : (s \o t)[i] = IF i <= Len(s) THEN s[i] ELSE t[i - Len(s)]
      BY ConcatProperties
<1>3. ASSUME NEW i \in 1 .. Len(s) PROVE (s \o t)[i] = s[i]
  <2>1. i \in 1 .. Len(s) + Len(t) BY <1>1
  <2> QED BY <1>1, <1>2, <2>1
<1>4. ASSUME NEW j \in 1 .. Len(t) PROVE (s \o t)[Len(s) + j] = t[j]
  <2> DEFINE i == Len(s) + j
  <2>1. i \in 1 .. Len(s) + Len(t) /\ ~(i <= Len(s)) /\ i - Len(s) = j BY <1>1
  <2> HIDE DEF i
  <2>2. (s \o t)[i] = t[j] BY <1>2, <2>1
  <2> QED BY <2>2 DEF i
<1> QED BY <1>2, <1>3, <1>4

\* The words of the frame that a program builds for exec: argc, argv, 0, envp, 0.
FrameHead(r) ==
  LET n == Len(r.argv)
      at == Relative(r)
  IN  <<n>> \o SubSeq(at, 1, n) \o <<0>> \o SubSeq(at, n + 1, Len(at)) \o <<0>>

\* The pointers of a frame, relative to it.
LEMMA RelativeAt ==
  ASSUME NEW r, r.argv \in Seq(Strings), r.envp \in Seq(Strings)
  PROVE  /\ r.argv \o r.envp \in Seq(Strings)
         /\ Len(r.argv \o r.envp) = Len(r.argv) + Len(r.envp)
         /\ Len(r.argv) \in Nat /\ Len(r.envp) \in Nat
         /\ \A k \in 1 .. Len(r.argv) : (r.argv \o r.envp)[k] = r.argv[k]
         /\ \A k \in 1 .. Len(r.envp) : (r.argv \o r.envp)[Len(r.argv) + k] = r.envp[k]
         /\ Relative(r) \in Seq(Nat) /\ Len(Relative(r)) = Len(r.argv) + Len(r.envp)
         /\ \A k \in 1 .. Len(r.argv) + Len(r.envp) :
              Relative(r)[k] = 2 * (Len(r.argv) + Len(r.envp) + 3) + Start(r.argv \o r.envp, k)
<1> DEFINE a == r.argv
           e == r.envp
           s == a \o e
           n == Len(a) + Len(e)
<1>1. a \in Seq(Strings) /\ e \in Seq(Strings) OBVIOUS
<1>2. Len(a) \in Nat /\ Len(e) \in Nat BY <1>1, LenProperties
<1> HIDE DEF a, e
<1>3. s \in Seq(Strings) /\ Len(s) = n
      /\ \A i \in 1 .. Len(a) + Len(e) : s[i] = IF i <= Len(a) THEN a[i] ELSE e[i - Len(a)]
      BY <1>1, ConcatProperties
<1>4. ASSUME NEW k \in 1 .. Len(a) PROVE s[k] = a[k]
  <2>1. k \in 1 .. Len(a) + Len(e) BY <1>2
  <2> QED BY <1>2, <1>3, <2>1
<1>5. ASSUME NEW k \in 1 .. Len(e) PROVE s[Len(a) + k] = e[k]
  <2> DEFINE i == Len(a) + k
  <2>1. i \in 1 .. Len(a) + Len(e) /\ ~(i <= Len(a)) /\ i - Len(a) = k BY <1>2
  <2> HIDE DEF i
  <2>2. s[i] = e[k] BY <1>3, <2>1
  <2> QED BY <2>2 DEF i
<1>6. Relative(r) = [k \in DOMAIN s |-> 2 * (Len(s) + 3) + Len(Characters(SubSeq(s, 1, k - 1)))]
      BY DEF Relative, a, e
<1> HIDE DEF s
<1>7. DOMAIN s = 1 .. n BY <1>3, LenProperties
<1>8. ASSUME NEW k \in 1 .. n
      PROVE  /\ Len(Characters(SubSeq(s, 1, k - 1))) = Start(s, k) /\ Start(s, k) \in Nat
  <2>1. 1 \in Int /\ k - 1 \in Int /\ 1 <= 1 /\ k - 1 <= Len(s) BY <1>2, <1>3
  <2>2. Ended(SubSeq(s, 1, k - 1)) = SubSeq(Ended(s), 1, k - 1) BY <1>3, <2>1, EndedOfSubSeq
  <2>3. k \in 1 .. Len(s) BY <1>3
  <2>4. Start(s, k) \in Nat BY <1>3, <2>3, StartBounds
  <2> QED BY <2>2, <2>4 DEF Characters, Start, Before
<1>9. ASSUME NEW k \in 1 .. n PROVE Relative(r)[k] = 2 * (n + 3) + Start(s, k)
      BY <1>3, <1>6, <1>7, <1>8
<1>10. n \in Nat BY <1>2
<1>11. Relative(r) = [k \in 1 .. n |-> 2 * (n + 3) + Start(s, k)]
       BY <1>3, <1>6, <1>7, <1>8
<1> HIDE DEF n
<1>12. \A k \in 1 .. n : 2 * (n + 3) + Start(s, k) \in Nat BY <1>8, <1>10
<1>13. Relative(r) \in Seq(Nat) /\ Len(Relative(r)) = n BY <1>10, <1>11, <1>12
<1> QED BY <1>2, <1>3, <1>4, <1>5, <1>9, <1>13 DEF a, e, s, n

\* The words that begin a frame: two arrays of pointers, each ended by a 0.
LEMMA FrameHeadType ==
  ASSUME NEW r, r.argv \in Seq(Strings), r.envp \in Seq(Strings)
  PROVE  /\ FrameHead(r) \in Seq(Int)
         /\ Len(FrameHead(r)) = Len(r.argv) + Len(r.envp) + 3
         /\ FrameHead(r)[1] = Len(r.argv)
         /\ \A k \in 1 .. Len(r.argv) : FrameHead(r)[1 + k] = Relative(r)[k]
         /\ FrameHead(r)[Len(r.argv) + 2] = 0
         /\ \A k \in 1 .. Len(r.envp) :
              FrameHead(r)[Len(r.argv) + 2 + k] = Relative(r)[Len(r.argv) + k]
         /\ FrameHead(r)[Len(r.argv) + Len(r.envp) + 3] = 0
<1> DEFINE n == Len(r.argv)
           l == Len(r.envp)
           at == Relative(r)
           h == FrameHead(r)
           s == <<n>>
           t == SubSeq(at, 1, n)
           u == SubSeq(at, n + 1, Len(at))
           z == <<0>>
           d1 == s \o t
           d2 == d1 \o z
           d3 == d2 \o u
<1>1. n \in Nat /\ l \in Nat /\ at \in Seq(Nat) /\ Len(at) = n + l BY RelativeAt
<1>2. h = d3 \o z BY DEF FrameHead
<1> HIDE DEF n, l, at, h
<1>3. \A k \in 1 .. n + l : at[k] \in Int
  <2>1. \A k \in 1 .. n + l : at[k] \in Nat BY <1>1, ElementOfSeq
  <2> QED BY <2>1
<1>4. s \in Seq(Int) /\ Len(s) = 1 /\ s[1] = n BY <1>1
<1>5. z \in Seq(Int) /\ Len(z) = 1 /\ z[1] = 0 OBVIOUS
<1>6. t \in Seq(Int) /\ Len(t) = n /\ \A i \in 1 .. n : t[i] = at[i]
  <2>1. \A i \in 1 .. n : at[i] \in Int BY <1>1, <1>3
  <2>2. t \in Seq(Int) /\ Len(t) = (IF 1 <= n THEN n - 1 + 1 ELSE 0)
        /\ \A i \in 1 .. n - 1 + 1 : t[i] = at[1 + i - 1]
        BY <1>1, <2>1, SubSeqProperties
  <2> HIDE DEF t
  <2>3. n - 1 + 1 = n /\ \A i \in 1 .. n : 1 + i - 1 = i BY <1>1
  <2>4. Len(t) = n BY <1>1, <2>2
  <2> QED BY <2>2, <2>3, <2>4
<1>7. u \in Seq(Int) /\ Len(u) = l /\ \A i \in 1 .. l : u[i] = at[n + i]
  <2> DEFINE a == n + 1
             b == n + l
  <2>1. a \in Int /\ b \in Int BY <1>1
  <2>2. \A i \in a .. b : at[i] \in Int BY <1>1, <1>3
  <2>3. u = SubSeq(at, a, b) BY <1>1
  <2> HIDE DEF a, b, u
  <2>4. u \in Seq(Int) /\ Len(u) = (IF a <= b THEN b - a + 1 ELSE 0)
        /\ \A i \in 1 .. b - a + 1 : u[i] = at[a + i - 1]
        BY <2>1, <2>2, <2>3, SubSeqProperties
  <2>5. b - a + 1 = l /\ Len(u) = l BY <1>1, <2>4 DEF a, b
  <2>6. ASSUME NEW i \in 1 .. l PROVE u[i] = at[n + i]
    <3>1. a + i - 1 = n + i BY <1>1 DEF a
    <3> QED BY <2>4, <2>5, <3>1
  <2> QED BY <2>4, <2>5, <2>6
<1> HIDE DEF s, t, u, z
<1>8. /\ d1 \in Seq(Int) /\ Len(d1) = Len(s) + Len(t)
      /\ \A i \in 1 .. Len(s) : d1[i] = s[i]
      /\ \A j \in 1 .. Len(t) : d1[Len(s) + j] = t[j]
      BY <1>4, <1>6, JoinedAt
<1> HIDE DEF d1
<1>9. /\ d2 \in Seq(Int) /\ Len(d2) = Len(d1) + Len(z)
      /\ \A i \in 1 .. Len(d1) : d2[i] = d1[i]
      /\ \A j \in 1 .. Len(z) : d2[Len(d1) + j] = z[j]
      BY <1>5, <1>8, JoinedAt
<1> HIDE DEF d2
<1>10. /\ d3 \in Seq(Int) /\ Len(d3) = Len(d2) + Len(u)
       /\ \A i \in 1 .. Len(d2) : d3[i] = d2[i]
       /\ \A j \in 1 .. Len(u) : d3[Len(d2) + j] = u[j]
       BY <1>7, <1>9, JoinedAt
<1> HIDE DEF d3
<1>11. /\ h \in Seq(Int) /\ Len(h) = Len(d3) + Len(z)
       /\ \A i \in 1 .. Len(d3) : h[i] = d3[i]
       /\ \A j \in 1 .. Len(z) : h[Len(d3) + j] = z[j]
       BY <1>2, <1>5, <1>10, JoinedAt
<1>12. Len(d1) = n + 1 /\ Len(d2) = n + 2 /\ Len(d3) = n + l + 2 /\ Len(h) = n + l + 3
       BY <1>1, <1>4, <1>5, <1>6, <1>7, <1>8, <1>9, <1>10, <1>11
<1>13. \A i \in 1 .. n + 1 : h[i] = d1[i]
  <2> TAKE i \in 1 .. n + 1
  <2>1. i \in 1 .. Len(d1) /\ i \in 1 .. Len(d2) /\ i \in 1 .. Len(d3) BY <1>1, <1>12
  <2> QED BY <1>9, <1>10, <1>11, <2>1
<1>14. h[1] = n
  <2>1. 1 \in 1 .. n + 1 /\ 1 \in 1 .. Len(s) BY <1>1, <1>4
  <2> QED BY <1>4, <1>8, <1>13, <2>1
<1>15. ASSUME NEW k \in 1 .. n PROVE h[1 + k] = at[k]
  <2>1. 1 + k \in 1 .. n + 1 BY <1>1
  <2>2. d1[Len(s) + k] = t[k] /\ t[k] = at[k] BY <1>6, <1>8
  <2> QED BY <1>4, <1>13, <2>1, <2>2
<1>16. h[n + 2] = 0
  <2>1. 1 \in 1 .. Len(z) /\ n + 1 + 1 = n + 2 BY <1>1, <1>5
  <2>2. d2[n + 1 + 1] = 0 BY <1>5, <1>9, <1>12, <2>1
  <2>3. n + 2 \in 1 .. Len(d2) /\ n + 2 \in 1 .. Len(d3) BY <1>1, <1>12
  <2> QED BY <1>10, <1>11, <2>1, <2>2, <2>3
<1>17. ASSUME NEW k \in 1 .. l PROVE h[n + 2 + k] = at[n + k]
  <2>1. d3[Len(d2) + k] = u[k] /\ u[k] = at[n + k] BY <1>7, <1>10
  <2>2. n + 2 + k \in 1 .. Len(d3) BY <1>1, <1>12
  <2>3. h[n + 2 + k] = d3[n + 2 + k] BY <1>11, <2>2
  <2> QED BY <1>12, <2>1, <2>3
<1>18. h[n + l + 3] = 0
  <2>1. 1 \in 1 .. Len(z) /\ n + l + 2 + 1 = n + l + 3 BY <1>1, <1>5
  <2>2. h[n + l + 2 + 1] = 0 BY <1>5, <1>11, <1>12, <2>1
  <2> QED BY <2>1, <2>2
<1> QED BY <1>11, <1>12, <1>14, <1>15, <1>16, <1>17, <1>18 DEF n, l, at, h

\* Pointers that lie among other words.
PointersAre(m, f, h, i, l) == Pointers(m, f + 2 * i) = [j \in 1 .. l |-> h[i + j]]
NoneIsZero(h, i, l) == \A j \in 1 .. l : h[i + j] # 0

\* An array of pointers among other words, read where it begins.
LEMMA PointersAmongWords ==
  ASSUME NEW h \in Seq(Word), NEW m, NEW f \in Nat, Lies(m, f, Words(h)),
         f + 2 * Len(h) <= 65536, NEW i \in Nat, NEW l \in Nat, i + l + 1 <= Len(h),
         h[i + l + 1] = 0, NoneIsZero(h, i, l)
  PROVE  PointersAre(m, f, h, i, l)
<1>1. Len(h) \in Nat BY LenProperties
<1>2. ASSUME NEW j \in 0 .. l PROVE WordAt(m, f + 2 * i + 2 * j) = h[i + j + 1]
  <2> DEFINE k == i + j + 1
  <2>1. k \in 1 .. Len(h) /\ f + 2 * (k - 1) = f + 2 * i + 2 * j BY <1>1
  <2> HIDE DEF k
  <2>2. WordAt(m, f + 2 * (k - 1)) = h[k] BY <2>1, WordsRead
  <2> QED BY <2>1, <2>2 DEF k
<1>3. WordsEndAfter(m, f + 2 * i, l)
  <2>1. WordAt(m, f + 2 * i + 2 * l) = 0
    <3>1. l \in 0 .. l OBVIOUS
    <3> QED BY <1>2, <3>1
  <2>2. ASSUME NEW j \in 0 .. l - 1 PROVE WordAt(m, f + 2 * i + 2 * j) # 0
    <3>1. j \in 0 .. l /\ j + 1 \in 1 .. l /\ i + (j + 1) = i + j + 1 OBVIOUS
    <3>2. h[i + (j + 1)] # 0 BY <3>1 DEF NoneIsZero
    <3>3. h[i + j + 1] # 0 BY <3>1, <3>2
    <3> QED BY <1>2, <3>1, <3>3
  <2> QED BY <2>1, <2>2 DEF WordsEndAfter
<1> DEFINE a == f + 2 * i
<1>4. a \in Nat /\ a + 2 * l < 65536 BY <1>1
<1>5. WordsEndAfter(m, a, l) BY <1>3
<1>6. ASSUME NEW j \in 1 .. l PROVE WordAt(m, a + 2 * (j - 1)) = h[i + j]
  <2> DEFINE k == j - 1
  <2>1. k \in 0 .. l /\ i + k + 1 = i + j OBVIOUS
  <2> HIDE DEF k
  <2>2. WordAt(m, a + 2 * k) = h[i + k + 1] BY <1>2, <2>1
  <2>3. WordAt(m, a + 2 * k) = h[i + j] BY <2>1, <2>2
  <2> QED BY <2>3 DEF k
<1> HIDE DEF a
<1>7. Pointers(m, a) = [j \in 1 .. l |-> WordAt(m, a + 2 * (j - 1))] BY <1>4, <1>5, PointersOf
<1>8. Pointers(m, a) = [j \in 1 .. l |-> h[i + j]] BY <1>6, <1>7
<1> QED BY <1>8 DEF a, PointersAre

\* The frame: its words are addresses, and what exec finds through them.
StringsOf(r) == r.argv \o r.envp
Count(r) == Len(r.argv) + Len(r.envp)
FrameFits(r, f) == f + Len(Frame(r)) <= 65536

FrameSized(r, f) ==
  /\ Words(FrameHead(r)) \in Seq(Byte) /\ Characters(StringsOf(r)) \in Seq(Byte)
  /\ Frame(r) = Words(FrameHead(r)) \o Characters(StringsOf(r))
  /\ Frame(r) \in Seq(Byte) /\ FrameHead(r) \in Seq(Word)
  /\ Count(r) \in Nat /\ Len(Words(FrameHead(r))) = 2 * (Count(r) + 3)
  /\ f + 2 * (Count(r) + 3) + Len(Characters(StringsOf(r))) <= 65536
  /\ Len(Characters(StringsOf(r))) \in Nat
  /\ \A k \in 1 .. Count(r) : Relative(r)[k] # 0

\* How long a frame is.
LEMMA FrameSize ==
  ASSUME NEW r, r.argv \in Seq(Strings), r.envp \in Seq(Strings), NEW f, f \in Nat,
         FrameFits(r, f)
  PROVE  FrameSized(r, f)
<1> DEFINE h == FrameHead(r)
           w == Words(h)
           s == r.argv \o r.envp
           c == Characters(s)
           n == Len(r.argv)
           l == Len(r.envp)
           at == Relative(r)
<1>1. /\ h \in Seq(Int) /\ Len(h) = n + l + 3 /\ h[1] = n
      /\ \A k \in 1 .. n : h[1 + k] = at[k]
      /\ h[n + 2] = 0 /\ \A k \in 1 .. l : h[n + 2 + k] = at[n + k]
      /\ h[n + l + 3] = 0
      BY FrameHeadType
<1>2. /\ s \in Seq(Strings) /\ Len(s) = n + l /\ n \in Nat /\ l \in Nat
      /\ \A k \in 1 .. n + l : at[k] = 2 * (n + l + 3) + Start(s, k)
      BY RelativeAt
<1>3. Frame(r) = w \o c BY DEF Frame, FrameHead
<1>4. f + Len(Frame(r)) <= 65536 BY DEF FrameFits
<1> HIDE DEF h, w, s, c, n, l, at
<1>5. w \in Seq(Byte) /\ Len(w) = 2 * (n + l + 3) BY <1>1, WordsAt DEF w
<1>6. c \in Seq(Byte) BY <1>2, EndedType DEF c
<1>7. Len(c) \in Nat BY <1>6, LenProperties
<1>8. w \o c \in Seq(Byte) /\ Len(w \o c) = Len(w) + Len(c) BY <1>5, <1>6, ConcatProperties
<1>9. f + 2 * (n + l + 3) + Len(c) <= 65536
  <2>1. Len(Frame(r)) = Len(w) + Len(c) BY <1>3, <1>8
  <2> QED BY <1>2, <1>4, <1>5, <1>7, <2>1
<1>10. ASSUME NEW k \in 1 .. n + l PROVE at[k] \in Word /\ at[k] # 0
  <2>1. k \in 1 .. Len(s) BY <1>2
  <2>2. /\ Start(s, k) \in Nat /\ Len(s[k]) \in Nat
        /\ Start(s, k) + Len(s[k]) < Len(Characters(s))
        BY <1>2, <2>1, StartBounds
  <2>3. at[k] \in Int /\ 0 < at[k] /\ at[k] < 65536 BY <1>2, <1>7, <1>9, <2>2 DEF c
  <2> QED BY <2>3, InWord
<1>11. n \in Word /\ 0 \in Word
  <2>1. n \in Int /\ 0 <= n /\ l \in Int /\ 0 <= l BY <1>2
  <2>2. n < 65536 BY <1>7, <1>9, <2>1
  <2>3. n \in Word BY <2>1, <2>2, InWord
  <2>4. 0 \in Word BY InWord
  <2> QED BY <2>3, <2>4
<1>12. ASSUME NEW i \in 1 .. n + l + 3 PROVE h[i] \in Word
  <2>1. CASE i = 1 BY <1>1, <1>11, <2>1
  <2>2. CASE i \in 2 .. n + 1
    <3> DEFINE k == i - 1
    <3>1. k \in 1 .. n /\ k \in 1 .. n + l /\ 1 + k = i BY <1>2, <2>2
    <3> HIDE DEF k
    <3>2. h[1 + k] = at[k] BY <1>1, <3>1
    <3> QED BY <1>10, <3>1, <3>2
  <2>3. CASE i = n + 2 BY <1>1, <1>11, <2>3
  <2>4. CASE i \in n + 3 .. n + l + 2
    <3> DEFINE k == i - n - 2
    <3>1. k \in 1 .. l /\ n + k \in 1 .. n + l /\ n + 2 + k = i BY <1>2, <2>4
    <3> HIDE DEF k
    <3>2. h[n + 2 + k] = at[n + k] BY <1>1, <3>1
    <3> QED BY <1>10, <3>1, <3>2
  <2>5. CASE i = n + l + 3 BY <1>1, <1>11, <2>5
  <2> QED BY <1>2, <2>1, <2>2, <2>3, <2>4, <2>5
<1>13. h \in Seq(Word)
  <2>1. h \in [1 .. n + l + 3 -> Int] BY <1>1, LenProperties
  <2>2. n + l + 3 \in Nat BY <1>2
  <2> QED BY <1>12, <2>1, <2>2
<1>14. Frame(r) \in Seq(Byte) BY <1>3, <1>8
<1>15. Count(r) = n + l BY DEF Count, n, l
<1>16. c = Characters(StringsOf(r)) BY DEF StringsOf, c, s
<1>17. w = Words(FrameHead(r)) /\ h = FrameHead(r) /\ at = Relative(r) BY DEF w, h, at
<1>18. \A k \in 1 .. Count(r) : Relative(r)[k] # 0 BY <1>10, <1>15, <1>17
<1>19. Count(r) \in Nat BY <1>2, <1>15
<1>20. f + 2 * (Count(r) + 3) + Len(c) <= 65536 /\ Len(w) = 2 * (Count(r) + 3)
       BY <1>5, <1>9, <1>15
<1> QED BY <1>3, <1>5, <1>6, <1>7, <1>13, <1>14, <1>16, <1>17, <1>18, <1>19, <1>20 DEF FrameSized

FrameReads(r, m, f) ==
  /\ Pointers(m, f + 2) = [j \in 1 .. Len(r.argv) |-> Relative(r)[j]]
  /\ Pointers(m, f + 2 * Len(r.argv) + 4) = [j \in 1 .. Len(r.envp) |-> Relative(r)[Len(r.argv) + j]]
  /\ \A k \in 1 .. Len(r.argv) : CString(m, f + Relative(r)[k]) = r.argv[k]
  /\ \A k \in 1 .. Len(r.envp) : CString(m, f + Relative(r)[Len(r.argv) + k]) = r.envp[k]

\* exec reads from a frame the arguments and the environment it was built from.
LEMMA FrameRead ==
  ASSUME NEW r, r.argv \in Seq(Strings), r.envp \in Seq(Strings), NEW f, f \in Nat,
         FrameFits(r, f), NEW m, Lies(m, f, Frame(r))
  PROVE  FrameReads(r, m, f)
<1> DEFINE h == FrameHead(r)
           s == r.argv \o r.envp
           c == Characters(s)
           n == Len(r.argv)
           l == Len(r.envp)
           at == Relative(r)
<1>1. /\ h \in Seq(Int) /\ Len(h) = n + l + 3 /\ h[1] = n
      /\ \A k \in 1 .. n : h[1 + k] = at[k]
      /\ h[n + 2] = 0 /\ \A k \in 1 .. l : h[n + 2 + k] = at[n + k]
      /\ h[n + l + 3] = 0
      BY FrameHeadType
<1>2. /\ s \in Seq(Strings) /\ Len(s) = n + l /\ n \in Nat /\ l \in Nat
      /\ at \in Seq(Nat) /\ Len(at) = n + l
      /\ \A k \in 1 .. n + l : at[k] = 2 * (n + l + 3) + Start(s, k)
      /\ \A k \in 1 .. n : s[k] = r.argv[k]
      /\ \A k \in 1 .. l : s[n + k] = r.envp[k]
      BY RelativeAt
<1>3. StringsOf(r) = s /\ Count(r) = n + l BY DEF StringsOf, Count
<1>4. FrameSized(r, f) BY FrameSize
<1>5. f \in Nat /\ Lies(m, f, Frame(r)) OBVIOUS
<1> HIDE DEF h, s, c, n, l, at
<1>6. /\ Words(h) \in Seq(Byte) /\ c \in Seq(Byte) /\ Frame(r) = Words(h) \o c
      /\ Len(Words(h)) = 2 * (n + l + 3) /\ f + 2 * (n + l + 3) + Len(c) <= 65536
      /\ Len(c) \in Nat /\ \A k \in 1 .. n + l : at[k] # 0
      BY <1>3, <1>4 DEF FrameSized, c, h, at
<1>7. n \in Nat /\ l \in Nat BY <1>2
<1> DEFINE w == Words(h)
           e == f + Len(w)
<1>8. /\ e = f + 2 * (n + l + 3) /\ e \in Nat /\ e + Len(c) <= 65536
      /\ f + 2 * (n + l + 3) <= 65536
  <2> DEFINE k == n + l + 3
             q == Len(c)
             p == Len(w)
  <2>1. k \in Nat BY <1>2
  <2>2. p = 2 * k BY <1>6
  <2>3. q \in Nat BY <1>6
  <2>4. f + 2 * k + q <= 65536 BY <1>6
  <2>5. f \in Nat BY <1>5
  <2>6. e = f + p OBVIOUS
  <2> HIDE DEF k, q, p, e, w
  <2>7. e = f + 2 * k /\ e \in Nat /\ e + q <= 65536 /\ f + 2 * k <= 65536
        BY <2>1, <2>2, <2>3, <2>4, <2>5, <2>6
  <2> QED BY <2>7 DEF k, q
<1>9. Lies(m, f, w) /\ Lies(m, e, c)
  <2>1. w \in Seq(Byte) BY <1>6
  <2>2. c \in Seq(Byte) BY <1>6
  <2>3. f \in Int BY <1>5
  <2>4. Lies(m, f, w \o c) BY <1>5, <1>6
  <2> HIDE DEF w
  <2> QED BY <2>1, <2>2, <2>3, <2>4, LiesInParts
<1> HIDE DEF e, w
<1>10. ASSUME NEW k \in 1 .. n + l PROVE CString(m, f + at[k]) = s[k]
  <2>1. k \in 1 .. Len(s) BY <1>2
  <2>2. Start(s, k) \in Nat BY <1>2, <2>1, StartBounds
  <2>3. f + at[k] = e + Start(s, k) BY <1>2, <1>5, <1>8, <2>2
  <2>4. Len(Characters(s)) <= 65536 /\ Lies(m, e, Characters(s)) BY <1>6, <1>8, <1>9 DEF c
  <2>5. e \in Int BY <1>8
  <2>6. CString(m, e + Start(s, k)) = s[k] BY <1>2, <2>1, <2>4, <2>5, StringsFound
  <2> QED BY <2>3, <2>6
<1>11. ASSUME NEW i \in Nat, NEW d \in Nat, i + d + 1 <= n + l + 3, h[i + d + 1] = 0,
              NoneIsZero(h, i, d)
       PROVE  Pointers(m, f + 2 * i) = [j \in 1 .. d |-> h[i + j]]
  <2>1. h \in Seq(Word) BY <1>4 DEF FrameSized, h
  <2>2. Lies(m, f, Words(h)) BY <1>9 DEF w
  <2>3. f + 2 * Len(h) <= 65536
    <3>1. Len(h) = n + l + 3 BY <1>1
    <3>2. f + 2 * (n + l + 3) <= 65536 BY <1>8
    <3> QED BY <3>1, <3>2
  <2>4. i + d + 1 <= Len(h) BY <1>1, <1>11
  <2>5. f \in Nat BY <1>5
  <2>6. PointersAre(m, f, h, i, d)
        BY <1>11, <2>1, <2>2, <2>3, <2>4, <2>5, PointersAmongWords
  <2> QED BY <2>6 DEF PointersAre
<1>12. Pointers(m, f + 2) = [j \in 1 .. n |-> at[j]]
  <2>1. NoneIsZero(h, 1, n)
    <3>1. ASSUME NEW j \in 1 .. n PROVE h[1 + j] # 0
      <4>1. j \in 1 .. n + l BY <1>7
      <4>2. at[j] # 0 BY <1>6, <4>1
      <4>3. h[1 + j] = at[j] BY <1>1
      <4> QED BY <4>2, <4>3
    <3> QED BY <3>1 DEF NoneIsZero
  <2>2. 1 + n + 1 <= n + l + 3 /\ 1 + n + 1 = n + 2 /\ f + 2 * 1 = f + 2 BY <1>2, <1>5
  <2>3. h[1 + n + 1] = 0 BY <1>1, <2>2
  <2>4. Pointers(m, f + 2 * 1) = [j \in 1 .. n |-> h[1 + j]] BY <1>2, <1>11, <2>1, <2>2, <2>3
  <2>5. [j \in 1 .. n |-> h[1 + j]] = [j \in 1 .. n |-> at[j]] BY <1>1
  <2> QED BY <2>2, <2>4, <2>5
<1>13. Pointers(m, f + 2 * n + 4) = [j \in 1 .. l |-> at[n + j]]
  <2> DEFINE i == n + 2
  <2>1. NoneIsZero(h, i, l)
    <3>1. ASSUME NEW j \in 1 .. l PROVE h[n + 2 + j] # 0
      <4>1. n + j \in 1 .. n + l BY <1>7
      <4>2. at[n + j] # 0 BY <1>6, <4>1
      <4>3. h[n + 2 + j] = at[n + j] BY <1>1
      <4> QED BY <4>2, <4>3
    <3> QED BY <3>1 DEF NoneIsZero
  <2>2. i \in Nat /\ i + l + 1 <= n + l + 3 /\ i + l + 1 = n + l + 3 /\ f + 2 * i = f + 2 * n + 4
        BY <1>2, <1>5
  <2>3. [j \in 1 .. l |-> h[i + j]] = [j \in 1 .. l |-> at[n + j]] BY <1>1
  <2> HIDE DEF i
  <2>4. h[i + l + 1] = 0 BY <1>1, <2>2
  <2>5. Pointers(m, f + 2 * i) = [j \in 1 .. l |-> h[i + j]] BY <1>2, <1>11, <2>1, <2>2, <2>4
  <2> QED BY <2>2, <2>3, <2>5
<1>14. ASSUME NEW k \in 1 .. n PROVE CString(m, f + at[k]) = r.argv[k]
  <2>1. k \in 1 .. n + l BY <1>2
  <2> QED BY <1>2, <1>10, <2>1
<1>15. ASSUME NEW k \in 1 .. l PROVE CString(m, f + at[n + k]) = r.envp[k]
  <2> DEFINE i == n + k
  <2>1. i \in 1 .. n + l BY <1>7
  <2>2. s[i] = r.envp[k] BY <1>2
  <2> HIDE DEF i
  <2>3. CString(m, f + at[i]) = s[i] BY <1>10, <2>1
  <2> QED BY <2>2, <2>3 DEF i
<1> QED BY <1>12, <1>13, <1>14, <1>15 DEF FrameReads, n, l, at
-----------------------------------------------------------------------------
\* Bytes that are stored lie where they are stored, and what lies elsewhere stays.
LEMMA StoredLies ==
  ASSUME NEW m, IsMemory(m), NEW a \in Nat, NEW s \in Seq(Byte), a .. a + Len(s) - 1 \subseteq Word
  PROVE  /\ IsMemory(StoreBytes(m, a, s)) /\ Lies(StoreBytes(m, a, s), a, s)
         /\ \A x \in Int : x \notin a .. a + Len(s) - 1 => At(StoreBytes(m, a, s), x) = At(m, x)
<1> DEFINE new == PlacedAt(s, a)
           after == StoreBytes(m, a, s)
<1>1. Len(s) \in Nat /\ \A j \in 1 .. Len(s) : s[j] \in Byte BY LenProperties, ElementOfSeq
<1>2. DOMAIN new = a .. a + Len(s) - 1 /\ \A x \in a .. a + Len(s) - 1 : new[x] = s[x - a + 1]
      BY DEF PlacedAt
<1> HIDE DEF new
<1>3. DOMAIN after = DOMAIN m \cup DOMAIN new
      /\ \A x \in DOMAIN after : after[x] = IF x \in DOMAIN new THEN new[x] ELSE m[x]
      BY DEF StoreBytes, StoreAll, new
<1> HIDE DEF after
<1>4. ASSUME NEW x \in DOMAIN new PROVE x \in Word /\ new[x] \in Byte
  <2>1. x - a + 1 \in 1 .. Len(s) BY <1>1, <1>2
  <2> QED BY <1>1, <1>2, <2>1
<1>5. ASSUME NEW x \in DOMAIN after PROVE x \in Word /\ after[x] \in Byte
  <2>1. CASE x \in DOMAIN new BY <1>3, <1>4, <2>1
  <2>2. CASE x \notin DOMAIN new BY <1>3, <2>2 DEF IsMemory
  <2> QED BY <2>1, <2>2
<1>6. IsMemory(after) BY <1>5 DEF IsMemory
<1>7. ASSUME NEW j \in 1 .. Len(s) PROVE At(after, a + j - 1) = s[j]
  <2> DEFINE x == a + j - 1
  <2>1. x \in a .. a + Len(s) - 1 /\ x - a + 1 = j BY <1>1
  <2> HIDE DEF x
  <2>2. x \in DOMAIN after /\ after[x] = s[j] BY <1>2, <1>3, <2>1
  <2>3. At(after, x) = s[j] BY <2>2 DEF At
  <2> QED BY <2>3 DEF x
<1>8. ASSUME NEW x \in Int, x \notin a .. a + Len(s) - 1 PROVE At(after, x) = At(m, x)
  <2>1. x \notin DOMAIN new BY <1>2, <1>8
  <2> QED BY <1>3, <2>1 DEF At
<1> QED BY <1>6, <1>7, <1>8 DEF after, Lies

\* What lies in memory lies there as long as its bytes are not changed.
LEMMA LiesStill ==
  ASSUME NEW m, NEW n, NEW a \in Nat, NEW s \in Seq(Byte), Lies(m, a, s),
         \A x \in a .. a + Len(s) - 1 : At(n, x) = At(m, x)
  PROVE  Lies(n, a, s)
<1>1. Len(s) \in Nat BY LenProperties
<1>2. ASSUME NEW j \in 1 .. Len(s) PROVE At(n, a + j - 1) = s[j]
  <2> DEFINE x == a + j - 1
  <2>1. x \in a .. a + Len(s) - 1 BY <1>1
  <2>2. At(m, x) = s[j] BY DEF Lies
  <2> HIDE DEF x
  <2>3. At(n, x) = s[j] BY <2>1, <2>2
  <2> QED BY <2>3 DEF x
<1> QED BY <1>2 DEF Lies

\* What a program has in memory when it asks for exec.
Asks(m, r) ==
  /\ Lies(m, r.message + 10, Words(<<r.pathAt, r.frame>>))
  /\ Lies(m, r.pathAt, r.path \o <<0>>)
  /\ Lies(m, r.frame, Frame(r))

\* The parts of a request.
LEMMA RequestType ==
  ASSUME NEW r \in Requests
  PROVE  /\ r.path \in Strings /\ r.argv \in Seq(Strings) /\ r.envp \in Seq(Strings)
         /\ r.message \in Nat /\ r.pathAt \in Word /\ r.frame \in Word
         /\ r.pathAt \in Nat /\ r.frame \in Nat
         /\ FrameFits(r, r.frame) /\ FrameSized(r, r.frame)
         /\ r.path \o <<0>> \in Seq(Byte) /\ Len(r.path \o <<0>>) = Len(r.path) + 1
         /\ Len(r.path) \in Nat /\ r.pathAt + Len(r.path) < 65536
         /\ r.message + 13 < 65536
<1>1. /\ r.path \in Strings /\ r.argv \in Seq(Strings) /\ r.envp \in Seq(Strings)
      /\ {r.message, r.pathAt, r.frame} \subseteq Word
      BY RequestsAssumption
<1>2. r.message \in Nat /\ r.pathAt \in Nat /\ r.frame \in Nat /\ r.frame < 65536 BY <1>1, InWord
<1>3. /\ MessageArea(r) \subseteq Word /\ PathArea(r) \subseteq Word /\ FrameArea(r) \subseteq Word
      BY FramesAssumption
<1>4. r.path \o <<0>> \in Seq(Byte) /\ Len(r.path \o <<0>>) = Len(r.path) + 1 /\ Len(r.path) \in Nat
      BY <1>1, EndedString
<1>5. r.pathAt + Len(r.path) < 65536
  <2>1. r.pathAt + Len(r.path) \in PathArea(r) BY <1>2, <1>4 DEF PathArea
  <2> QED BY <1>3, <2>1, InWord
<1>6. r.message + 13 < 65536
  <2>1. r.message + 13 \in MessageArea(r) BY <1>2 DEF MessageArea
  <2> QED BY <1>3, <2>1, InWord
<1>7. Frame(r) \in Seq(Byte)
  <2>1. Words(FrameHead(r)) \in Seq(Byte) BY <1>1, FrameHeadType, WordsAt
  <2>2. r.argv \o r.envp \in Seq(Strings) BY <1>1, RelativeAt
  <2> DEFINE s == r.argv \o r.envp
             c == Characters(s)
  <2>3. Frame(r) = Words(FrameHead(r)) \o c BY DEF Frame, FrameHead
  <2> HIDE DEF s
  <2>4. c \in Seq(Byte) BY <2>2, EndedType DEF s
  <2> HIDE DEF c
  <2> QED BY <2>1, <2>3, <2>4, ConcatProperties
<1>8. FrameFits(r, r.frame)
  <2>1. Len(Frame(r)) \in Nat BY <1>7, LenProperties
  <2>2. CASE Len(Frame(r)) = 0 BY <1>2, <2>2 DEF FrameFits
  <2>3. CASE Len(Frame(r)) # 0
    <3>1. r.frame + Len(Frame(r)) - 1 \in FrameArea(r) BY <1>2, <2>1, <2>3 DEF FrameArea
    <3>2. r.frame + Len(Frame(r)) - 1 < 65536 BY <1>3, <3>1, InWord
    <3> QED BY <1>2, <2>1, <3>2 DEF FrameFits
  <2> QED BY <2>2, <2>3
<1>9. FrameSized(r, r.frame) BY <1>1, <1>2, <1>8, FrameSize
<1> QED BY <1>1, <1>2, <1>4, <1>5, <1>6, <1>8, <1>9

\* A message that is stored with its path and its frame asks what it should.
LEMMA MessageAsks ==
  ASSUME NEW r \in Requests, NEW m, IsMemory(m)
  PROVE  IsMemory(Message(m, r)) /\ Asks(Message(m, r), r)
<1> DEFINE one == Words(<<59>>)
           two == Words(<<r.pathAt, r.frame>>)
           ended == r.path \o <<0>>
           m1 == StoreBytes(m, r.message + 2, one)
           m2 == StoreBytes(m1, r.message + 10, two)
           m3 == StoreBytes(m2, r.pathAt, ended)
           m4 == StoreBytes(m3, r.frame, Frame(r))
<1>1. /\ r.message \in Nat /\ r.pathAt \in Nat /\ r.frame \in Nat
      /\ ended \in Seq(Byte) /\ Len(ended) = Len(r.path) + 1 /\ Len(r.path) \in Nat
      /\ r.message + 13 < 65536
      BY RequestType
<1>2. Frame(r) \in Seq(Byte) BY RequestType DEF FrameSized
<1>3. one \in Seq(Byte) /\ Len(one) = 2
  <2> DEFINE ws == <<59>>
  <2>1. ws \in Seq(Int) /\ Len(ws) = 1 OBVIOUS
  <2>2. one = Words(ws) OBVIOUS
  <2> HIDE DEF ws, one
  <2>3. Words(ws) \in Seq(Byte) /\ Len(Words(ws)) = 2 * Len(ws) BY <2>1, WordsAt
  <2> QED BY <2>1, <2>2, <2>3
<1>4. two \in Seq(Byte) /\ Len(two) = 4
  <2> DEFINE ws == <<r.pathAt, r.frame>>
  <2>1. ws \in Seq(Int) /\ Len(ws) = 2 BY <1>1
  <2>2. two = Words(ws) OBVIOUS
  <2> HIDE DEF ws, two
  <2>3. Words(ws) \in Seq(Byte) /\ Len(Words(ws)) = 2 * Len(ws) BY <2>1, WordsAt
  <2> QED BY <2>1, <2>2, <2>3
<1>5. Message(m, r) = m4 BY DEF Message
<1> HIDE DEF one, two, ended
<1>6. Len(Frame(r)) \in Nat BY <1>2, LenProperties
<1> DEFINE a1 == r.message + 2
           a2 == r.message + 10
           a3 == r.pathAt
           a4 == r.frame
           frame == Frame(r)
<1>7. /\ a1 .. a1 + 2 - 1 \subseteq MessageArea(r)
      /\ a2 .. a2 + 4 - 1 \subseteq MessageArea(r)
  <2> DEFINE i == r.message
  <2>1. i \in Nat BY <1>1
  <2>2. a1 = i + 2 /\ a2 = i + 10 /\ MessageArea(r) = i + 2 .. i + 13 BY DEF MessageArea
  <2> HIDE DEF i, a1, a2
  <2> QED BY <2>1, <2>2
<1>8. a3 .. a3 + Len(ended) - 1 = PathArea(r) BY <1>1 DEF PathArea
<1>9. a4 .. a4 + Len(frame) - 1 = FrameArea(r) BY DEF FrameArea
<1>10. /\ MessageArea(r) \subseteq Word /\ PathArea(r) \subseteq Word /\ FrameArea(r) \subseteq Word
       /\ MessageArea(r) \cap PathArea(r) = {} /\ MessageArea(r) \cap FrameArea(r) = {}
       /\ PathArea(r) \cap FrameArea(r) = {}
       BY FramesAssumption
<1>11. a1 \in Nat /\ a2 \in Nat /\ a3 \in Nat /\ a4 \in Nat BY <1>1
<1>12. a1 .. a1 + Len(one) - 1 \subseteq Word /\ a2 .. a2 + Len(two) - 1 \subseteq MessageArea(r)
       /\ a2 .. a2 + Len(two) - 1 \subseteq Word
       BY <1>3, <1>4, <1>7, <1>10
<1>13. frame \in Seq(Byte) BY <1>2
<1>14. m3 = StoreBytes(m2, a3, ended) /\ m4 = StoreBytes(m3, a4, frame) OBVIOUS
<1> HIDE DEF a1, a2, a3, a4, frame
<1>15. m1 = StoreBytes(m, a1, one) /\ m2 = StoreBytes(m1, a2, two) BY DEF a1, a2
<1>16. IsMemory(m1) BY <1>3, <1>11, <1>12, <1>15, StoredLies
<1> HIDE DEF m1
<1>17. IsMemory(m2) /\ Lies(m2, a2, two) BY <1>4, <1>11, <1>12, <1>15, <1>16, StoredLies
<1> HIDE DEF m2
<1>18. a3 .. a3 + Len(ended) - 1 \subseteq Word BY <1>8, <1>10
<1>19. /\ IsMemory(m3) /\ Lies(m3, a3, ended)
       /\ \A x \in Int : x \notin a3 .. a3 + Len(ended) - 1 => At(m3, x) = At(m2, x)
       BY <1>1, <1>11, <1>14, <1>17, <1>18, StoredLies
<1> HIDE DEF m3
<1>20. a4 .. a4 + Len(frame) - 1 \subseteq Word BY <1>9, <1>10
<1>21. /\ IsMemory(m4) /\ Lies(m4, a4, frame)
       /\ \A x \in Int : x \notin a4 .. a4 + Len(frame) - 1 => At(m4, x) = At(m3, x)
       BY <1>11, <1>13, <1>14, <1>19, <1>20, StoredLies
<1> HIDE DEF m4
<1>22. Lies(m4, a3, ended)
  <2>1. ASSUME NEW x \in a3 .. a3 + Len(ended) - 1 PROVE At(m4, x) = At(m3, x)
    <3>1. x \in Int BY <1>11
    <3>2. x \notin FrameArea(r) BY <1>8, <1>10
    <3> QED BY <1>9, <1>21, <3>1, <3>2
  <2> QED BY <1>1, <1>11, <1>19, <2>1, LiesStill
<1>23. Lies(m4, a2, two)
  <2>1. ASSUME NEW x \in a2 .. a2 + Len(two) - 1 PROVE At(m4, x) = At(m2, x)
    <3>1. x \in Int BY <1>11
    <3>2. x \notin FrameArea(r) /\ x \notin PathArea(r) BY <1>10, <1>12
    <3>3. At(m4, x) = At(m3, x) BY <1>9, <1>21, <3>1, <3>2
    <3>4. At(m3, x) = At(m2, x) BY <1>8, <1>19, <3>1, <3>2
    <3> QED BY <3>3, <3>4
  <2> QED BY <1>4, <1>11, <1>17, <2>1, LiesStill
<1>24. Asks(m4, r) BY <1>21, <1>22, <1>23 DEF Asks, two, ended, frame, a2, a3, a4
<1> QED BY <1>5, <1>21, <1>24

\* What execSysCall finds where a program asks is what it asks for.
FoundAs(r) ==
  FrameFound = r.frame /\ PathFound = r.path /\ ArgvFound = r.argv /\ EnvFound = r.envp

\* What is asked for is what execSysCall finds.
LEMMA ExecFinds ==
  ASSUME NEW r \in Requests, Asks(data, r), bx = r.message
  PROVE  FoundAs(r)
<1>1. /\ r.path \in Strings /\ r.argv \in Seq(Strings) /\ r.envp \in Seq(Strings)
      /\ r.message \in Nat /\ r.pathAt \in Word /\ r.frame \in Word
      /\ r.pathAt \in Nat /\ r.frame \in Nat
      BY RequestType
<1>2. FrameFits(r, r.frame) /\ r.pathAt + Len(r.path) < 65536 /\ Len(r.path) \in Nat
      BY RequestType
<1> DEFINE ws == <<r.pathAt, r.frame>>
           a == r.message + 10
<1>3. ws \in Seq(Word) /\ Len(ws) = 2 /\ ws[1] = r.pathAt /\ ws[2] = r.frame BY <1>1
<1>4. Lies(data, a, Words(ws)) /\ Lies(data, r.pathAt, r.path \o <<0>>)
      /\ Lies(data, r.frame, Frame(r))
      BY DEF Asks
<1>5. a \in Int BY <1>1
<1>6. WordAt(data, a + 2 * (1 - 1)) = r.pathAt /\ WordAt(data, a + 2 * (2 - 1)) = r.frame
  <2> HIDE DEF ws, a
  <2>1. \A k \in 1 .. Len(ws) : WordAt(data, a + 2 * (k - 1)) = ws[k]
        BY <1>3, <1>4, <1>5, WordsRead
  <2>2. 1 \in 1 .. Len(ws) /\ 2 \in 1 .. Len(ws) BY <1>3
  <2>3. WordAt(data, a + 2 * (1 - 1)) = ws[1] /\ WordAt(data, a + 2 * (2 - 1)) = ws[2]
        BY <2>1, <2>2
  <2> QED BY <1>3, <2>3
<1>7. a + 2 * (1 - 1) = bx + 10 /\ a + 2 * (2 - 1) = bx + 12 BY <1>1
<1>8. WordAt(data, bx + 10) = r.pathAt /\ FrameFound = r.frame BY <1>6, <1>7 DEF FrameFound
<1>9. PathFound = r.path
  <2>1. StringLies(data, r.pathAt, r.path) BY <1>1, <1>2, <1>4 DEF StringLies
  <2> QED BY <1>1, <1>8, <2>1, CStringFound DEF PathFound
<1>10. FrameReads(r, data, r.frame) BY <1>1, <1>2, <1>4, FrameRead
<1> DEFINE first == [j \in 1 .. Len(r.argv) |-> Relative(r)[j]]
           second == [j \in 1 .. Len(r.envp) |-> Relative(r)[Len(r.argv) + j]]
<1>11. FirstPointers = first BY <1>8, <1>10 DEF FirstPointers, FrameReads
<1>12. /\ Len(r.argv) \in Nat /\ Len(r.envp) \in Nat
       /\ r.argv \in [1 .. Len(r.argv) -> Strings] /\ r.envp \in [1 .. Len(r.envp) -> Strings]
       BY <1>1, LenProperties
<1>13. Len(first) = Len(r.argv) BY <1>12
<1>14. ArgvFound = r.argv
  <2>1. ArgvFound = [k \in 1 .. Len(r.argv) |-> CString(data, r.frame + Relative(r)[k])]
        BY <1>8, <1>11 DEF ArgvFound
  <2>2. \A k \in 1 .. Len(r.argv) : CString(data, r.frame + Relative(r)[k]) = r.argv[k]
        BY <1>10 DEF FrameReads
  <2> QED BY <1>12, <2>1, <2>2
<1>15. EnvFound = r.envp
  <2>1. Pointers(data, FrameFound + 2 * Len(FirstPointers) + 4) = second
        BY <1>8, <1>10, <1>11, <1>13 DEF FrameReads
  <2>2. EnvFound = [k \in 1 .. Len(r.envp) |-> CString(data, r.frame + second[k])]
        BY <1>8, <2>1 DEF EnvFound
  <2>3. \A k \in 1 .. Len(r.envp) :
          CString(data, r.frame + Relative(r)[Len(r.argv) + k]) = r.envp[k]
        BY <1>10 DEF FrameReads
  <2>4. \A k \in 1 .. Len(r.envp) : CString(data, r.frame + second[k]) = r.envp[k] BY <2>3
  <2> HIDE DEF second
  <2> QED BY <1>12, <2>2, <2>4
<1> QED BY <1>8, <1>9, <1>14, <1>15 DEF FoundAs

\* What is known of a file that is there and has a header.
LEMMA FileType ==
  ASSUME NEW path, FileAt(path).kind # "other"
  PROVE  /\ path \in DOMAIN Files /\ path # <<>> /\ FileAt(path) = Files[path]
         /\ IsMemory(FileAt(path).text) /\ IsMemory(FileAt(path).data)
         /\ FileAt(path).tsize \in Word /\ FileAt(path).dsize \in Word /\ FileAt(path).bss \in Word
         /\ DOMAIN FileAt(path).text \subseteq Values(FileAt(path).tsize)
         /\ DOMAIN FileAt(path).data \subseteq Values(FileAt(path).dsize)
         /\ FileAt(path).kind = "v6" => FileAt(path).tsize + FileAt(path).dsize <= 65536
<1>1. path \in DOMAIN Files /\ FileAt(path) = Files[path] BY DEF FileAt, NoFile
<1> QED BY <1>1, FilesAssumption

\* Memory holds bytes and words.
LEMMA BytesFromMemory ==
  ASSUME NEW m, IsMemory(m), NEW a
  PROVE  At(m, a) \in Byte /\ WordAt(m, a) \in Word
<1>1. \A x : At(m, x) \in Byte
  <2>1. 0 \in Byte BY InByte
  <2> QED BY <2>1 DEF At, IsMemory
<1> DEFINE low == At(m, a)
           high == At(m, a + 1)
<1>2. low \in Byte /\ high \in Byte BY <1>1
<1>3. WordAt(m, a) = low + 256 * high BY DEF WordAt, Pair
<1> HIDE DEF low, high
<1>4. low \in Int /\ 0 <= low /\ low < 256 /\ high \in Int /\ 0 <= high /\ high < 256
      BY <1>2, InByte
<1>5. WordAt(m, a) \in Word BY <1>3, <1>4, InWord
<1> QED BY <1>1, <1>5

\* An image stored in memory leaves memory.
LEMMA StoredAll ==
  ASSUME NEW m, IsMemory(m), NEW n, IsMemory(n)
  PROVE  IsMemory(StoreAll(m, n))
BY DEF IsMemory, StoreAll

\* So does clearing it.
LEMMA NoMemory == IsMemory(Zeros)
BY DEF IsMemory, Zeros

\* A word stored in the segment changes it at its two addresses.
LEMMA WordStored ==
  ASSUME NEW m, IsMemory(m), NEW a \in Nat, a + 1 < 65536, NEW v \in Word
  PROVE  /\ IsMemory(StoreWord(m, a, v))
         /\ \A x : x # a /\ x # a + 1 => At(StoreWord(m, a, v), x) = At(m, x)
<1>1. LowByte(v) \in Byte /\ HighByte(v) \in Byte BY PairOfHalves
<1>2. a \in Word /\ a + 1 \in Word BY InWord
<1> QED BY <1>1, <1>2 DEF StoreWord, Store, IsMemory, At

\* A program that makes its last call is within its code.
PcFits == stage \in {"fresh", "asking"} => pc \in Values(65538)

\* What asks for exec in memory is what has been asked for.
Asked ==
  stage = "asking" /\ os = "minix" =>
    \E r \in Requests :
      /\ Asks(data, r) /\ bx = r.message
      /\ asked = [call |-> TRUE, path |-> r.path, argv |-> r.argv, env |-> r.envp]

\* What a program of Minix finds on a stack it starts on, if it starts with these
\* arguments in memory m and its stack pointer at b; and what one of V6 finds.
MinixArrived(m, b, argv, env) ==
  /\ WordAt(m, b) = Len(argv) /\ ArgvIn(m, b) = argv
  /\ WordAt(m, b + 2 * (Len(argv) + 1)) = 0
  /\ CString(m, WordAt(m, b + 2 * (Len(argv) + 2))) = env
  /\ WordAt(m, b + 2 * (Len(argv) + 3)) = 0

\* A block of an even size has an even bottom.
LEMMA EvenBottom ==
  ASSUME NEW block, Len(block) \in Nat, Len(block) % 2 = 0
  PROVE  Bottom(block) \in Word /\ Bottom(block) % 2 = 0
<1> DEFINE l == Len(block)
           b == Bottom(block)
<1>1. l \in Nat /\ l % 2 = 0 /\ b = (-l) % 65536 BY DEF Bottom
<1> HIDE DEF l, b
<1>2. b \in Int /\ 0 <= b /\ b < 65536 /\ b % 2 = 0 BY <1>1
<1> QED BY <1>2, InWord DEF b

\* A stack that has been built for a program of Minix: memory below it is as it was,
\* and as long as nothing on it is changed the arguments arrive.
LEMMA MinixStack ==
  ASSUME NEW argv \in Seq(Strings), NEW env \in Strings, Len(MinixBlock(argv, env)) <= 65536,
         NEW m, IsMemory(m), NEW block, block = MinixBlock(argv, env)
  PROVE  /\ Bottom(block) \in Word /\ Bottom(block) % 2 = 0 /\ IsMemory(Pushed(m, block))
         /\ \A a \in Int : a < Bottom(block) => At(Pushed(m, block), a) = At(m, a)
         /\ \A n : (\A x \in Int : x >= Bottom(block) => At(n, x) = At(Pushed(m, block), x))
                     => MinixArrived(n, Bottom(block), argv, env)
<1>1. block \in Seq(Byte) /\ 0 < Len(block) /\ Len(block) % 2 = 0 BY MinixBlockSize
<1>2. Len(block) \in Nat BY <1>1, LenProperties
<1> DEFINE b == Bottom(block)
           p == Pushed(m, block)
<1>3. b \in Word /\ b % 2 = 0 BY <1>1, <1>2, EvenBottom
<1>4. /\ IsMemory(p) /\ Lies(p, b, block)
      /\ \A a \in Int : a < b => At(p, a) = At(m, a)
      BY <1>1, PushedLies
<1>5. b \in Nat BY <1>3, InWord
<1>6. ASSUME NEW n, \A x \in Int : x >= b => At(n, x) = At(p, x)
      PROVE  MinixArrived(n, b, argv, env)
  <2>1. Lies(n, b, block)
    <3> HIDE DEF b, p
    <3>1. \A x \in b .. b + Len(block) - 1 : At(n, x) = At(p, x) BY <1>2, <1>5, <1>6
    <3> QED BY <1>1, <1>4, <1>5, <3>1, LiesStill
  <2>2. b = Bottom(MinixBlock(argv, env)) /\ Lies(n, Bottom(MinixBlock(argv, env)), MinixBlock(argv, env))
        BY <2>1
  <2> HIDE DEF b
  <2> QED BY <1>3, <2>2, MinixBlockFound DEF MinixArrived
<1> QED BY <1>3, <1>4, <1>6

\* The stack of a V6 program, once its block is pushed.
LEMMA V6Stack ==
  ASSUME NEW argv \in Seq(Strings), Len(V6Block(argv)) <= 65536,
         NEW m, IsMemory(m), NEW block, block = V6Block(argv)
  PROVE  /\ Bottom(block) \in Word /\ Bottom(block) % 2 = 0 /\ IsMemory(Pushed(m, block))
         /\ \A a \in Int : a < Bottom(block) => At(Pushed(m, block), a) = At(m, a)
         /\ WordAt(Pushed(m, block), Bottom(block)) = Len(argv)
         /\ ArgvIn(Pushed(m, block), Bottom(block)) = argv
<1>1. block \in Seq(Byte) /\ 0 < Len(block) /\ Len(block) % 2 = 0
  <2> DEFINE whole == V6Block(argv)
  <2>1. whole \in Seq(Byte) /\ 0 < Len(whole) /\ Len(whole) % 2 = 0 BY V6BlockSize
  <2> QED BY <2>1
<1>2. Len(block) \in Nat BY <1>1, LenProperties
<1> DEFINE b == Bottom(block)
           p == Pushed(m, block)
<1>3. b \in Word /\ b % 2 = 0 BY <1>1, <1>2, EvenBottom
<1>4. /\ IsMemory(p) /\ Lies(p, b, block)
      /\ \A a \in Int : a < b => At(p, a) = At(m, a)
      BY <1>1, PushedLies
<1>5. b = Bottom(V6Block(argv)) /\ Lies(p, Bottom(V6Block(argv)), V6Block(argv)) BY <1>4
<1> HIDE DEF b, p
<1>6. WordAt(p, b) = Len(argv) /\ ArgvIn(p, b) = argv BY <1>3, <1>5, V6BlockFound
<1> QED BY <1>3, <1>4, <1>6 DEF b, p
-----------------------------------------------------------------------------
\* What is left in the sizes of a file without a header are words.
LEMMA SizesType ==
  ASSUME NEW d \in Word, NEW b \in Word, NEW s, s = [data |-> d, brk |-> d + b]
  PROVE  s.data \in Word /\ s.brk \in Values(131071)
<1>1. d \in Int /\ 0 <= d /\ d < 65536 /\ b \in Int /\ 0 <= b /\ b < 65536 BY InWord
<1>2. s.data = d /\ s.brk = d + b OBVIOUS
<1>3. d + b \in Int /\ 0 <= d + b /\ d + b < 131071 BY <1>1
<1>4. 131071 \in Nat OBVIOUS
<1>5. s.brk \in Int /\ 0 <= s.brk /\ s.brk < 131071 BY <1>2, <1>3
<1>6. s.brk \in Values(131071) BY <1>4, <1>5, InValues
<1> QED BY <1>2, <1>6

\* What the type invariant is made of.
LEMMA TypeFrom ==
  ASSUME os \in {"minix", "v6"}, stage \in Stages, os = "v6" => text = data,
         IsMemory(text), IsMemory(data), sp \in Word, bx \in Word, ax \in Word,
         sizes.data \in Word, sizes.brk \in Values(131071), pc \in Values(65544),
         carry \in BOOLEAN
  PROVE  TypeOK
<1>1. {sp, bx, ax, sizes.data} \subseteq Word OBVIOUS
<1> QED BY <1>1 DEF TypeOK

\* The inductive invariant.
Inv == TypeOK /\ PcFits /\ Asked /\ ArgumentsArrive /\ StackAligned /\ ImageIntact

\* Command lines have arguments that fit.
LEMMA CommandType ==
  ASSUME NEW argv \in CommandLines
  PROVE  /\ argv \in Seq(Strings) /\ DefaultEnv \in Strings
         /\ Len(MinixBlock(argv, DefaultEnv)) <= 65536 /\ Len(V6Block(argv)) <= 65536
<1>1. DefaultEnv \in Strings
  <2>1. 80 \in Byte \ {0} BY InByte
  <2> QED BY <2>1 DEF DefaultEnv, Strings
<1> QED BY <1>1, ArgumentsAssumption, BlocksAssumption

\* A Minix program that starts from the command line.
LEMMA InitMinix ==
  ASSUME NEW argv \in CommandLines, StartMinix(argv), asked = FromCommand(argv),
         bx = 0, ax = 0, pc = 0, carry = FALSE
  PROVE  Inv
<1> DEFINE f == FileAt(argv[1])
           block == MinixBlock(argv, DefaultEnv)
<1>1. f.kind = "minix" /\ os = "minix" /\ text = f.text /\ data = Pushed(f.data, block)
      /\ sizes = [data |-> f.dsize, brk |-> f.dsize + f.bss] /\ sp = Bottom(block)
      /\ stage = "fresh"
      BY DEF StartMinix
<1>2. /\ IsMemory(f.text) /\ IsMemory(f.data) /\ f.dsize \in Word /\ f.bss \in Word
      BY <1>1, FileType
<1>3. argv \in Seq(Strings) /\ DefaultEnv \in Strings /\ Len(MinixBlock(argv, DefaultEnv)) <= 65536
      BY CommandType
<1>4. block = MinixBlock(argv, DefaultEnv) OBVIOUS
<1> HIDE DEF block
<1>5. /\ Bottom(block) \in Word /\ Bottom(block) % 2 = 0 /\ IsMemory(Pushed(f.data, block))
      /\ \A a \in Int : a < Bottom(block) => At(Pushed(f.data, block), a) = At(f.data, a)
      /\ \A n : (\A x \in Int : x >= Bottom(block) => At(n, x) = At(Pushed(f.data, block), x))
                     => MinixArrived(n, Bottom(block), argv, DefaultEnv)
      BY <1>2, <1>3, <1>4, MinixStack
<1>6. MinixArrived(data, sp, argv, DefaultEnv) BY <1>1, <1>5
<1>7. asked.call = FALSE /\ asked.argv = argv /\ asked.path = argv[1] /\ asked.env = DefaultEnv
      BY DEF FromCommand
<1> HIDE DEF f
<1>8. TypeOK
  <2>1. sizes.data \in Word /\ sizes.brk \in Values(131071) BY <1>1, <1>2, SizesType
  <2>2. 0 \in Word /\ 0 \in Values(65544) BY InWord, InValues
  <2>3. os \in {"minix", "v6"} /\ stage \in Stages /\ (os = "v6" => text = data)
        BY <1>1 DEF Stages
  <2>4. IsMemory(text) /\ IsMemory(data) BY <1>1, <1>2, <1>5
  <2>5. sp \in Word /\ bx \in Word /\ ax \in Word BY <1>1, <1>5, <2>2
  <2>6. pc \in Values(65544) BY <2>2
  <2>7. carry \in BOOLEAN OBVIOUS
  <2> QED BY <2>1, <2>3, <2>4, <2>5, <2>6, <2>7, TypeFrom
<1>9. PcFits
  <2>1. 0 \in Values(65538) BY InValues
  <2> QED BY <2>1 DEF PcFits
<1>10. Asked BY <1>1 DEF Asked
<1>11. ArgumentsArrive
  <2>1. ArgvAt = argv /\ ArgcAt = Len(argv)
        BY <1>6 DEF MinixArrived, ArgvIn, ArgvAt, ArgcAt
  <2>2. EnvAt[1] = 0 /\ CString(data, EnvAt[2]) = DefaultEnv
        BY <1>6, <2>1 DEF MinixArrived, EnvAt
  <2>3. WordAt(data, sp + 2 * (ArgcAt + 3)) = 0 BY <1>6, <2>1 DEF MinixArrived
  <2> QED BY <1>7, <2>1, <2>2, <2>3 DEF ArgumentsArrive
<1>12. StackAligned BY <1>1, <1>5 DEF StackAligned
<1>13. ImageIntact
  <2>1. AskedFile = f BY <1>7 DEF AskedFile, f
  <2>2. ASSUME NEW a \in DOMAIN data \cup DOMAIN f.data, a < sp PROVE At(data, a) = At(f.data, a)
    <3>1. a \in Int BY <1>1, <1>2, <1>5, WordIsInt DEF IsMemory
    <3> QED BY <1>1, <1>5, <2>2, <3>1
  <2> QED BY <1>1, <2>1, <2>2 DEF ImageIntact
<1> QED BY <1>8, <1>9, <1>10, <1>11, <1>12, <1>13 DEF Inv

\* The segment of a program of Unix V6: its text, and its data behind.
V6Memory(f) == StoreAll(f.text, [a \in {f.tsize + b : b \in DOMAIN f.data} |-> f.data[a - f.tsize]])

\* The memory of a V6 program has its image below its stack.
LEMMA V6MemoryHolds ==
  ASSUME NEW f, IsMemory(f.text), IsMemory(f.data), f.tsize \in Word, f.dsize \in Word,
         DOMAIN f.text \subseteq Values(f.tsize), DOMAIN f.data \subseteq Values(f.dsize),
         f.tsize + f.dsize <= 65536
  PROVE  /\ IsMemory(V6Memory(f))
         /\ \A a \in DOMAIN f.text : a \in DOMAIN V6Memory(f) /\ At(V6Memory(f), a) = f.text[a]
         /\ \A a \in DOMAIN f.data : At(V6Memory(f), f.tsize + a) = f.data[a]
<1> DEFINE t == f.tsize
           d == f.dsize
           dom == {t + b : b \in DOMAIN f.data}
           new == [a \in dom |-> f.data[a - t]]
<1>1. t \in Nat /\ d \in Nat /\ t + d <= 65536 BY InWord
<1>2. \A b \in DOMAIN f.data : b \in Int /\ 0 <= b /\ b < d BY <1>1, InValues
<1>3. \A b \in DOMAIN f.text : b \in Int /\ b < t BY <1>1, InValues
<1> HIDE DEF t, d
<1>4. \A a \in DOMAIN new : a \in Word /\ a \in Int /\ a >= t /\ new[a] \in Byte
  <2> TAKE a \in DOMAIN new
  <2>1. PICK b \in DOMAIN f.data : a = t + b OBVIOUS
  <2>2. b \in Int /\ 0 <= b /\ b < d BY <1>2
  <2>3. a - t = b /\ a \in Int /\ 0 <= a /\ a < 65536 /\ a >= t BY <1>1, <2>1, <2>2
  <2>4. new[a] = f.data[b] BY <2>3
  <2> QED BY <2>3, <2>4, InWord DEF IsMemory
<1>5. \A b \in DOMAIN f.data : t + b \in DOMAIN new /\ new[t + b] = f.data[b]
  <2> TAKE b \in DOMAIN f.data
  <2>1. b \in Int BY <1>2
  <2>2. t + b - t = b BY <1>1, <2>1
  <2>3. t + b \in dom OBVIOUS
  <2> HIDE DEF dom
  <2>4. DOMAIN new = dom /\ \A x \in dom : new[x] = f.data[x - t] OBVIOUS
  <2> HIDE DEF new
  <2> DEFINE x == t + b
  <2>5. x \in dom /\ x - t = b BY <1>1, <2>1, <2>2, <2>3
  <2> HIDE DEF x
  <2>6. new[x] = f.data[b] BY <2>4, <2>5
  <2> QED BY <2>4, <2>5, <2>6 DEF x
<1>6. V6Memory(f) = StoreAll(f.text, new) BY DEF V6Memory, t
<1> HIDE DEF new
<1>7. IsMemory(new) BY <1>4 DEF IsMemory
<1>8. IsMemory(V6Memory(f)) BY <1>6, <1>7, StoredAll
<1>9. ASSUME NEW a \in DOMAIN f.text
      PROVE  a \in DOMAIN V6Memory(f) /\ At(V6Memory(f), a) = f.text[a]
  <2>1. a \in Int /\ a < t BY <1>3
  <2>2. a \notin DOMAIN new BY <1>1, <1>4, <2>1
  <2> QED BY <1>6, <2>2 DEF StoreAll, At
<1>10. ASSUME NEW a \in DOMAIN f.data PROVE At(V6Memory(f), t + a) = f.data[a]
  BY <1>5, <1>6 DEF StoreAll, At
<1> QED BY <1>8, <1>9, <1>10 DEF t
-----------------------------------------------------------------------------
\* A V6 program that starts from the command line.
LEMMA InitV6 ==
  ASSUME NEW argv \in CommandLines, StartV6(argv), asked = FromCommand(argv),
         bx = 0, ax = 0, pc = 0, carry = FALSE
  PROVE  Inv
<1> DEFINE f == FileAt(argv[1])
           block == V6Block(argv)
           m == V6Memory(f)
<1>1. f.kind = "v6" /\ os = "v6" /\ text = Pushed(m, block) /\ data = text
      /\ sizes = [data |-> 0, brk |-> 0] /\ sp = Bottom(block) /\ stage = "fresh"
      BY DEF StartV6, V6Memory
<1>2. /\ IsMemory(f.text) /\ IsMemory(f.data) /\ f.tsize \in Word /\ f.dsize \in Word
      /\ DOMAIN f.text \subseteq Values(f.tsize) /\ DOMAIN f.data \subseteq Values(f.dsize)
      /\ f.tsize + f.dsize <= 65536
      BY <1>1, FileType
<1>3. argv \in Seq(Strings) /\ Len(V6Block(argv)) <= 65536 BY CommandType
<1>4. block = V6Block(argv) /\ m = V6Memory(f) OBVIOUS
<1> HIDE DEF block, m
<1>5. /\ IsMemory(m)
      /\ \A a \in DOMAIN f.text : a \in DOMAIN m /\ At(m, a) = f.text[a]
      /\ \A a \in DOMAIN f.data : At(m, f.tsize + a) = f.data[a]
  <2> HIDE DEF f
  <2> QED BY <1>2, <1>4, V6MemoryHolds
<1>6. /\ Bottom(block) \in Word /\ Bottom(block) % 2 = 0 /\ IsMemory(Pushed(m, block))
      /\ \A a \in Int : a < Bottom(block) => At(Pushed(m, block), a) = At(m, a)
      /\ WordAt(Pushed(m, block), Bottom(block)) = Len(argv)
      /\ ArgvIn(Pushed(m, block), Bottom(block)) = argv
      BY <1>3, <1>4, <1>5, V6Stack
<1>7. asked.call = FALSE /\ asked.argv = argv /\ asked.path = argv[1] BY DEF FromCommand
<1> HIDE DEF f
<1>8. TypeOK
  <2>1. sizes.data \in Word /\ sizes.brk \in Values(131071)
    <3>1. 0 \in Word /\ 0 \in Values(131071) BY InWord, InValues
    <3>2. sizes.data = 0 /\ sizes.brk = 0 BY <1>1
    <3> QED BY <3>1, <3>2
  <2>2. 0 \in Word /\ 0 \in Values(65544) BY InWord, InValues
  <2>3. os \in {"minix", "v6"} /\ stage \in Stages /\ (os = "v6" => text = data)
        BY <1>1 DEF Stages
  <2>4. IsMemory(text) /\ IsMemory(data) BY <1>1, <1>6
  <2>5. sp \in Word /\ bx \in Word /\ ax \in Word BY <1>1, <1>6, <2>2
  <2>6. pc \in Values(65544) BY <2>2
  <2>7. carry \in BOOLEAN OBVIOUS
  <2> QED BY <2>1, <2>3, <2>4, <2>5, <2>6, <2>7, TypeFrom
<1>9. PcFits
  <2>1. 0 \in Values(65538) BY InValues
  <2> QED BY <2>1 DEF PcFits
<1>10. Asked BY <1>1 DEF Asked
<1>11. ArgumentsArrive
  <2>1. ArgvAt = argv BY <1>1, <1>6 DEF ArgvIn, ArgvAt, ArgcAt
  <2> QED BY <1>1, <1>7, <2>1 DEF ArgumentsArrive
<1>12. StackAligned BY <1>1, <1>6 DEF StackAligned
<1>13. ImageIntact
  <2>1. AskedFile = f BY <1>7 DEF AskedFile, f
  <2>2. \A a \in Int : a < sp => At(text, a) = At(m, a) BY <1>1, <1>6
  <2>3. ASSUME NEW a \in DOMAIN f.text, a < sp PROVE text[a] = f.text[a]
    <3>1. a \in Int /\ a \in DOMAIN m /\ At(m, a) = f.text[a]
          BY <1>2, <1>5, WordIsInt DEF IsMemory
    <3>2. a \in DOMAIN text BY <1>1, <3>1 DEF Pushed, StoreAll
    <3> QED BY <2>2, <2>3, <3>1, <3>2 DEF At
  <2>4. ASSUME NEW a \in DOMAIN f.data, f.tsize + a < sp
        PROVE  At(text, f.tsize + a) = f.data[a]
    <3>1. a \in Int /\ f.tsize \in Int BY <1>2, WordIsInt DEF IsMemory
    <3> DEFINE x == f.tsize + a
    <3>2. x \in Int /\ x < sp /\ At(m, x) = f.data[a] BY <1>5, <2>4, <3>1
    <3> HIDE DEF x
    <3>3. At(text, x) = f.data[a] BY <2>2, <3>2
    <3> QED BY <3>3 DEF x
  <2> QED BY <1>1, <2>1, <2>3, <2>4 DEF ImageIntact
<1> QED BY <1>8, <1>9, <1>10, <1>11, <1>12, <1>13 DEF Inv

\* A file that is no program.
LEMMA InitWild ==
  ASSUME NEW argv \in CommandLines, StartWild(argv), bx = 0, ax = 0, pc = 0, carry = FALSE
  PROVE  Inv
<1>1. os = "minix" /\ text = Zeros /\ data = Zeros /\ sizes = [data |-> 0, brk |-> 0]
      /\ sp = 0 /\ stage = "wild"
      BY DEF StartWild
<1>2. TypeOK
  <2>1. 0 \in Word /\ 0 \in Values(65544) /\ 0 \in Values(131071) BY InWord, InValues
  <2>2. sizes.data \in Word /\ sizes.brk \in Values(131071)
    <3>1. sizes.data = 0 /\ sizes.brk = 0 BY <1>1
    <3> QED BY <2>1, <3>1
  <2>3. os \in {"minix", "v6"} /\ stage \in Stages /\ (os = "v6" => text = data)
        BY <1>1 DEF Stages
  <2>4. IsMemory(text) /\ IsMemory(data) BY <1>1, NoMemory
  <2>5. sp \in Word /\ bx \in Word /\ ax \in Word BY <1>1, <2>1
  <2>6. pc \in Values(65544) BY <2>1
  <2>7. carry \in BOOLEAN OBVIOUS
  <2> QED BY <2>2, <2>3, <2>4, <2>5, <2>6, <2>7, TypeFrom
<1>3. PcFits /\ Asked BY <1>1 DEF PcFits, Asked
<1>4. ArgumentsArrive /\ StackAligned /\ ImageIntact
      BY <1>1 DEF ArgumentsArrive, StackAligned, ImageIntact, Fresh
<1> QED BY <1>2, <1>3, <1>4 DEF Inv

\* Init.
LEMMA InitHolds == Init => Inv
<1> SUFFICES ASSUME Init PROVE Inv OBVIOUS
<1>1. PICK argv \in CommandLines :
        /\ StartMinix(argv) \/ StartV6(argv) \/ StartWild(argv)
        /\ asked = FromCommand(argv)
      BY DEF Init
<1>2. bx = 0 /\ ax = 0 /\ pc = 0 /\ carry = FALSE BY DEF Init
<1>3. CASE StartMinix(argv) BY <1>1, <1>2, <1>3, InitMinix
<1>4. CASE StartV6(argv) BY <1>1, <1>2, <1>4, InitV6
<1>5. CASE StartWild(argv) BY <1>2, <1>5, InitWild
<1> QED BY <1>1, <1>3, <1>4, <1>5

\* Where a string is found in another one.
LEMMA WithinAt ==
  ASSUME NEW s \in Seq(Byte), s # <<>>, NEW p \in Seq(Byte)
  PROVE  Within(s, p) <=>
           \E i \in 0 .. Len(p) - Len(s) : \A j \in 1 .. Len(s) : p[i + j] = s[j]
<1> DEFINE n == Len(s)
           l == Len(p)
           part(i) == SubSeq(p, i + 1, i + n)
<1>1. n \in Nat /\ l \in Nat /\ 1 <= n
  <2>1. n \in Nat /\ l \in Nat BY LenProperties
  <2>2. n # 0 BY EmptySeq
  <2> QED BY <2>1, <2>2
<1> HIDE DEF n, l
<1>2. ASSUME NEW i \in 0 .. l - n
      PROVE  part(i) = s <=> \A j \in 1 .. n : p[i + j] = s[j]
  <2> DEFINE a == i + 1
             b == i + n
             cut == SubSeq(p, a, b)
  <2>1. a \in Int /\ b \in Int /\ a <= b /\ 1 <= a /\ b <= l /\ b - a + 1 = n /\ i \in Int BY <1>1
  <2>2. \A k \in 1 .. n : a + k - 1 = i + k BY <1>1
  <2> HIDE DEF a, b
  <2>3. \A k \in a .. b : p[k] \in Byte
    <3>1. \A k \in 1 .. l : p[k] \in Byte BY ElementOfSeq DEF l
    <3> QED BY <1>1, <2>1, <3>1
  <2>4. /\ cut \in Seq(Byte) /\ Len(cut) = IF a <= b THEN b - a + 1 ELSE 0
        /\ \A k \in 1 .. b - a + 1 : cut[k] = p[a + k - 1]
        BY <2>1, <2>3, SubSeqProperties
  <2>5. Len(cut) = n /\ \A k \in 1 .. n : cut[k] = p[i + k] BY <2>1, <2>2, <2>4
  <2>6. part(i) = cut BY DEF a, b
  <2> HIDE DEF cut, part
  <2>7. ASSUME part(i) = s, NEW j \in 1 .. n PROVE p[i + j] = s[j] BY <2>5, <2>6, <2>7
  <2>8. ASSUME \A j \in 1 .. n : p[i + j] = s[j] PROVE part(i) = s
    <3>1. \A k \in 1 .. n : cut[k] = s[k] BY <2>5, <2>8
    <3>2. Len(cut) = Len(s) BY <2>5 DEF n
    <3>3. \A k \in 1 .. Len(cut) : cut[k] = s[k] BY <2>5, <3>1
    <3>4. cut = s BY <2>4, <3>2, <3>3, SeqEqual
    <3> QED BY <2>6, <3>4
  <2> QED BY <2>7, <2>8
<1>3. Within(s, p) <=> \E i \in 0 .. l - n : part(i) = s BY DEF Within, l, n
<1> HIDE DEF part
<1>4. Within(s, p) <=> \E i \in 0 .. l - n : \A j \in 1 .. n : p[i + j] = s[j] BY <1>2, <1>3
<1> QED BY <1>4 DEF n, l

\* A character put in front of what follows it.
LEMMA PutInFront ==
  ASSUME NEW p \in Seq(Byte), NEW k \in 1 .. Len(p), NEW x, x = p[k]
  PROVE  <<x>> \o SubSeq(p, k + 1, Len(p)) = SubSeq(p, k, Len(p))
<1> DEFINE l == Len(p)
           a == k + 1
           rest == SubSeq(p, a, l)
           one == <<x>>
           whole == SubSeq(p, k, l)
<1>1. l \in Nat /\ k \in Int /\ 1 <= k /\ k <= l BY LenProperties
<1>2. \A i \in 1 .. l : p[i] \in Byte BY ElementOfSeq
<1>3. one \in Seq(Byte) /\ Len(one) = 1 /\ one[1] = p[k]
  <2>1. x \in Byte BY <1>1, <1>2
  <2> QED BY <2>1
<1>4. a \in Int /\ a = k + 1 BY <1>1
<1> HIDE DEF l, a
<1>5. /\ rest \in Seq(Byte) /\ Len(rest) = IF a <= l THEN l - a + 1 ELSE 0
      /\ \A i \in 1 .. l - a + 1 : rest[i] = p[a + i - 1]
  <2>1. \A i \in a .. l : p[i] \in Byte BY <1>1, <1>2, <1>4
  <2> QED BY <1>1, <1>4, <2>1, SubSeqProperties
<1>6. /\ whole \in Seq(Byte) /\ Len(whole) = IF k <= l THEN l - k + 1 ELSE 0
      /\ \A i \in 1 .. l - k + 1 : whole[i] = p[k + i - 1]
  <2>1. \A i \in k .. l : p[i] \in Byte BY <1>1, <1>2
  <2> QED BY <1>1, <2>1, SubSeqProperties
<1> DEFINE n == l - k
<1>7. n \in Nat /\ l - a + 1 = n /\ l - k + 1 = n + 1 BY <1>1, <1>4
<1>8. Len(rest) = n
  <2>1. CASE a <= l BY <1>5, <1>7, <2>1
  <2>2. CASE ~(a <= l) BY <1>1, <1>4, <1>5, <2>2
  <2> QED BY <2>1, <2>2
<1>9. Len(whole) = n + 1 BY <1>1, <1>6, <1>7
<1> DEFINE both == one \o rest
<1> HIDE DEF one, rest, whole, n
<1>10. /\ both \in Seq(Byte) /\ Len(both) = Len(one) + Len(rest)
       /\ \A i \in 1 .. Len(one) + Len(rest) : both[i] = IF i <= Len(one) THEN one[i] ELSE rest[i - Len(one)]
       BY <1>3, <1>5, ConcatProperties
<1> HIDE DEF both
<1>11. ASSUME NEW i \in 1 .. n + 1 PROVE both[i] = whole[i]
  <2>1. whole[i] = p[k + i - 1] BY <1>6, <1>7
  <2>2. CASE i = 1
    <3>1. both[1] = p[k] BY <1>3, <1>7, <1>8, <1>10
    <3>2. k + i - 1 = k BY <1>1, <2>2
    <3> QED BY <2>1, <2>2, <3>1, <3>2
  <2>3. CASE i # 1
    <3> DEFINE j == i - 1
    <3>1. j \in 1 .. n /\ i \in 1 .. 1 + n /\ ~(i <= 1) /\ a + j - 1 = k + i - 1
          BY <1>1, <1>4, <1>7, <2>3
    <3> HIDE DEF j
    <3>2. both[i] = rest[i - 1] BY <1>3, <1>8, <1>10, <3>1
    <3>3. rest[j] = p[a + j - 1] BY <1>5, <1>7, <3>1
    <3>4. rest[i - 1] = rest[j] BY DEF j
    <3> QED BY <2>1, <3>1, <3>2, <3>3, <3>4
  <2> QED BY <2>2, <2>3
<1>12. Len(both) = n + 1 BY <1>3, <1>7, <1>8, <1>10
<1>13. both = whole BY <1>6, <1>9, <1>10, <1>11, <1>12, SeqEqual
<1> QED BY <1>13 DEF both, one, rest, whole, a, l

\* Tmp and Usr in front of a path: the two targets that convertPath looks for.
LEMMA TargetsFound ==
  ASSUME NEW p \in Seq(Byte)
  PROVE  /\ Within(<<Tmp>>, p) <=> \E i \in 1 .. Len(p) : p[i] = Tmp
         /\ Within(<<Usr, Tmp>>, p) <=> \E i \in 1 .. Len(p) - 1 : p[i] = Usr /\ p[i + 1] = Tmp
<1>1. Len(p) \in Nat BY LenProperties
<1>2. Tmp \in Byte /\ Usr \in Byte BY InByte DEF Tmp, Usr
<1>3. Within(<<Tmp>>, p) <=> \E i \in 1 .. Len(p) : p[i] = Tmp
  <2> DEFINE s == <<Tmp>>
  <2>1. s \in Seq(Byte) /\ s # <<>> /\ Len(s) = 1 /\ s[1] = Tmp BY <1>2
  <2> HIDE DEF s
  <2>2. Within(s, p) <=> \E i \in 0 .. Len(p) - 1 : p[i + 1] = Tmp
    <3>1. Within(s, p) <=> \E i \in 0 .. Len(p) - Len(s) : \A j \in 1 .. Len(s) : p[i + j] = s[j]
          BY <2>1, WithinAt
    <3>2. \A i \in Int : (\A j \in 1 .. Len(s) : p[i + j] = s[j]) <=> p[i + 1] = Tmp BY <2>1
    <3> QED BY <1>1, <2>1, <3>1, <3>2
  <2>3. ASSUME NEW i \in 0 .. Len(p) - 1, p[i + 1] = Tmp
        PROVE  \E k \in 1 .. Len(p) : p[k] = Tmp
    <3>1. i + 1 \in 1 .. Len(p) BY <1>1
    <3> QED BY <2>3, <3>1
  <2>4. ASSUME NEW k \in 1 .. Len(p), p[k] = Tmp
        PROVE  \E i \in 0 .. Len(p) - 1 : p[i + 1] = Tmp
    <3>1. k - 1 \in 0 .. Len(p) - 1 /\ k - 1 + 1 = k BY <1>1
    <3> QED BY <2>4, <3>1
  <2> QED BY <2>2, <2>3, <2>4 DEF s
<1>4. Within(<<Usr, Tmp>>, p) <=> \E i \in 1 .. Len(p) - 1 : p[i] = Usr /\ p[i + 1] = Tmp
  <2> DEFINE s == <<Usr, Tmp>>
             At2(i) == p[i + 1] = Usr /\ p[i + 2] = Tmp
  <2>1. s \in Seq(Byte) /\ s # <<>> /\ Len(s) = 2 /\ s[1] = Usr /\ s[2] = Tmp BY <1>2
  <2> HIDE DEF s
  <2>2. Within(s, p) <=> \E i \in 0 .. Len(p) - 2 : At2(i)
    <3>1. Within(s, p) <=> \E i \in 0 .. Len(p) - Len(s) : \A j \in 1 .. Len(s) : p[i + j] = s[j]
          BY <2>1, WithinAt
    <3>2. \A i \in Int : (\A j \in 1 .. Len(s) : p[i + j] = s[j]) <=> At2(i) BY <2>1
    <3> QED BY <1>1, <2>1, <3>1, <3>2
  <2>3. ASSUME NEW i \in 0 .. Len(p) - 2, At2(i)
        PROVE  \E k \in 1 .. Len(p) - 1 : p[k] = Usr /\ p[k + 1] = Tmp
    <3> DEFINE k == i + 1
    <3>1. k \in 1 .. Len(p) - 1 /\ k + 1 = i + 2 BY <1>1
    <3>2. p[k] = Usr /\ p[i + 2] = Tmp BY <2>3
    <3> HIDE DEF k
    <3> QED BY <3>1, <3>2
  <2>4. ASSUME NEW k \in 1 .. Len(p) - 1, p[k] = Usr, p[k + 1] = Tmp
        PROVE  \E i \in 0 .. Len(p) - 2 : At2(i)
    <3> DEFINE i == k - 1
    <3>1. i \in 0 .. Len(p) - 2 /\ i + 1 = k /\ i + 2 = k + 1 BY <1>1
    <3> HIDE DEF i
    <3> QED BY <2>4, <3>1
  <2> HIDE DEF At2
  <2> QED BY <2>2, <2>3, <2>4 DEF s
<1> QED BY <1>3, <1>4

\* The path a program means and the one it gets agree where /tmp and /usr/tmp are
\* nowhere but in front.
LEMMA ConvertedIsNamed ==
  ASSUME NEW p, p \in Strings, p # <<>>, TmpInFrontOnly(p)
  PROVE  ConvertPath(p) = Named(p)
<1>1. p \in Seq(Byte)
  <2>1. Byte \ {0} \subseteq Byte OBVIOUS
  <2>2. Seq(Byte \ {0}) \subseteq Seq(Byte) BY <2>1, SeqMonotonic
  <2> QED BY <2>2 DEF Strings
<1> DEFINE l == Len(p)
<1>2. l \in Nat /\ 1 <= l
  <2>1. l \in Nat BY <1>1, LenProperties
  <2>2. l # 0 BY <1>1, EmptySeq
  <2> QED BY <2>1, <2>2
<1>3. \A k \in 1 .. l : p[k] = Tmp => k = 1 \/ (k = 2 /\ p[1] = Usr)
  <2>1. DOMAIN p = 1 .. l BY <1>1, LenProperties
  <2> QED BY <2>1 DEF TmpInFrontOnly
<1>4. /\ Within(<<Tmp>>, p) <=> \E i \in 1 .. l : p[i] = Tmp
      /\ Within(<<Usr, Tmp>>, p) <=> \E i \in 1 .. l - 1 : p[i] = Usr /\ p[i + 1] = Tmp
      BY <1>1, TargetsFound
<1>5. Tmp # Usr /\ Tmp # Dots /\ Usr # Dots BY DEF Tmp, Usr, Dots
<1>6. ASSUME NEW i \in 1 .. l - 1, p[i] = Usr, p[i + 1] = Tmp PROVE i = 1 /\ l > 1 /\ p[2] = Tmp
  <2>1. i + 1 \in 1 .. l BY <1>2
  <2>2. i + 1 = 1 \/ i + 1 = 2 BY <1>3, <1>6, <2>1
  <2>3. i = 1 /\ l > 1 BY <1>2, <2>2
  <2> QED BY <1>6, <2>3
<1>7. CASE p[1] = Dots BY <1>7 DEF ConvertPath, Named
<1>8. CASE p[1] = Tmp
  <2>1. Within(<<Tmp>>, p) BY <1>2, <1>4, <1>8
  <2>2. ~Within(<<Usr, Tmp>>, p) BY <1>4, <1>5, <1>6, <1>8
  <2>3. <<p[1]>> \o SubSeq(p, 1 + 1, l) = SubSeq(p, 1, l)
        BY <1>1, <1>2, PutInFront
  <2>4. SubSeq(p, 1, l) = p BY <1>1, SubSeqFull
  <2>5. ConvertPath(p) = <<Tmp>> \o SubSeq(p, 2, l) BY <1>5, <1>8, <2>1, <2>2 DEF ConvertPath
  <2>6. 1 + 1 = 2 OBVIOUS
  <2>7. Named(p) = p BY <1>5, <1>8 DEF Named
  <2> QED BY <1>8, <2>3, <2>4, <2>5, <2>6, <2>7
<1>9. CASE l > 1 /\ p[1] = Usr /\ p[2] = Tmp
  <2>1. Within(<<Usr, Tmp>>, p)
    <3>1. 1 \in 1 .. l - 1 /\ 1 + 1 = 2 BY <1>2, <1>9
    <3> QED BY <1>4, <1>9, <3>1
  <2>2. ConvertPath(p) = <<Tmp>> \o SubSeq(p, 3, l) BY <1>5, <1>9, <2>1 DEF ConvertPath
  <2>3. <<p[2]>> \o SubSeq(p, 2 + 1, l) = SubSeq(p, 2, l)
    <3>1. 2 \in 1 .. l BY <1>2, <1>9
    <3> QED BY <1>1, <3>1, PutInFront
  <2>4. Named(p) = SubSeq(p, 2, l) BY <1>5, <1>9 DEF Named
  <2>5. 2 + 1 = 3 OBVIOUS
  <2> QED BY <1>9, <2>2, <2>3, <2>4, <2>5
<1>10. CASE p[1] # Dots /\ p[1] # Tmp /\ ~(l > 1 /\ p[1] = Usr /\ p[2] = Tmp)
  <2>1. ~Within(<<Tmp>>, p)
    <3>1. ASSUME NEW i \in 1 .. l, p[i] = Tmp PROVE FALSE
      <4>1. i = 2 /\ p[1] = Usr BY <1>3, <1>10, <3>1
      <4>2. l > 1 BY <1>2, <4>1
      <4> QED BY <1>10, <3>1, <4>1, <4>2
    <3> QED BY <1>4, <3>1
  <2>2. ~Within(<<Usr, Tmp>>, p)
    <3>1. ASSUME NEW i \in 1 .. l - 1, p[i] = Usr, p[i + 1] = Tmp PROVE FALSE
          BY <1>6, <1>10, <3>1
    <3> QED BY <1>4, <3>1
  <2>3. ConvertPath(p) = RootPath \o p BY <1>10, <2>1, <2>2 DEF ConvertPath
  <2>4. Named(p) = RootPath \o p BY <1>10 DEF Named
  <2> QED BY <2>3, <2>4
<1> QED BY <1>7, <1>8, <1>9, <1>10
-----------------------------------------------------------------------------
\* Steps keep types, part by part.
LEMMA TypeNext ==
  ASSUME os' \in {"minix", "v6"}, stage' \in Stages, os' = "v6" => text' = data',
         IsMemory(text'), IsMemory(data'), sp' \in Word, bx' \in Word, ax' \in Word,
         sizes'.data \in Word, sizes'.brk \in Values(131071), pc' \in Values(65544),
         carry' \in BOOLEAN
  PROVE  TypeOK'
<1>1. {sp', bx', ax', sizes'.data} \subseteq Word OBVIOUS
<1> QED BY <1>1 DEF TypeOK

\* A program that is not about to run has nothing on its stack to speak of.
LEMMA NotFreshNext ==
  ASSUME stage' # "fresh"
  PROVE  ArgumentsArrive' /\ StackAligned' /\ ImageIntact'
BY DEF ArgumentsArrive, StackAligned, ImageIntact, Fresh

\* What the type invariant says of each variable.
LEMMA TypeParts ==
  ASSUME TypeOK
  PROVE  /\ os \in {"minix", "v6"} /\ stage \in Stages /\ (os = "v6" => text = data)
         /\ IsMemory(text) /\ IsMemory(data) /\ sp \in Word /\ bx \in Word /\ ax \in Word
         /\ sizes.data \in Word /\ sizes.brk \in Values(131071) /\ pc \in Values(65544)
         /\ carry \in BOOLEAN
BY DEF TypeOK

\* The program writes its message and calls.
LEMMA AskExecHolds == ASSUME Inv, AskExec PROVE Inv'
<1>1. TypeOK /\ PcFits BY DEF Inv
<1>2. PICK r \in Requests :
        /\ data' = Message(data, r) /\ bx' = r.message
        /\ asked' = [call |-> TRUE, path |-> r.path, argv |-> r.argv, env |-> r.envp]
      BY DEF AskExec
<1>3. /\ stage = "fresh" /\ os = "minix" /\ stage' = "asking" /\ os' = os /\ text' = text
      /\ sizes' = sizes /\ sp' = sp /\ ax' = ax /\ pc' = pc /\ carry' = carry
      BY DEF AskExec
<1>4. IsMemory(data) BY <1>1, TypeParts
<1>5. IsMemory(Message(data, r)) /\ Asks(Message(data, r), r) BY <1>4, MessageAsks
<1>6. r.message \in Word BY RequestsAssumption
<1>7. stage' \in Stages /\ os' # "v6" BY <1>3 DEF Stages
<1>8. TypeOK' BY <1>1, <1>2, <1>3, <1>5, <1>6, <1>7, TypeParts, TypeNext
<1>9. PcFits' BY <1>1, <1>3 DEF PcFits
<1>10. Asked' BY <1>2, <1>5 DEF Asked
<1>11. ArgumentsArrive' /\ StackAligned' /\ ImageIntact' BY <1>3, NotFreshNext
<1> QED BY <1>8, <1>9, <1>10, <1>11 DEF Inv

\* Where a program asks for another one, that one is found, and its arguments fit.
LEMMA ExecLoadsRight ==
  ASSUME NEW r \in Requests, Asks(data, r), bx = r.message, ExecLoads
  PROVE  LET f == FileAt(ConvertPath(r.path))
             block == MinixBlock(r.argv, r.envp[1])
         IN  /\ f.kind # "other" /\ r.path # <<>>
             /\ r.argv \in Seq(Strings) /\ r.envp[1] \in Strings /\ Len(block) <= 65536
             /\ text' = f.text
             /\ data' = StoreWord(Pushed(f.data, block), bx + 2, 0)
             /\ \E bss \in Word : sizes' = [data |-> f.dsize, brk |-> f.dsize + bss]
             /\ sp' = Bottom(block)
<1>1. FoundAs(r) BY ExecFinds
<1> DEFINE f == FileAt(ConvertPath(r.path))
           block == MinixBlock(r.argv, r.envp[1])
<1>2. FileFound = f /\ ArgvFound = r.argv /\ EnvFound = r.envp BY <1>1 DEF FoundAs, FileFound
<1>3. /\ f.kind # "other" /\ r.envp # <<>> /\ text' = f.text
      /\ data' = StoreWord(Pushed(f.data, block), bx + 2, 0) /\ sp' = Bottom(block)
      /\ \E bss \in (IF f.kind = "minix" THEN {f.bss} ELSE Leftovers) :
           sizes' = [data |-> f.dsize, brk |-> f.dsize + bss]
      BY <1>2 DEF ExecLoads, NewImage
<1>4. r.path # <<>>
  <2>1. ConvertPath(r.path) # <<>> BY <1>3, FileType
  <2> QED BY <2>1 DEF ConvertPath
<1>5. r.argv \in Seq(Strings) /\ r.envp \in Seq(Strings) BY RequestType
<1>6. r.envp[1] \in Strings
  <2>1. Len(r.envp) \in Nat \ {0} BY <1>3, <1>5, EmptySeq
  <2>2. 1 \in 1 .. Len(r.envp) BY <2>1
  <2> QED BY <1>5, <2>2, ElementOfSeq
<1>7. Len(block) <= 65536 BY <1>3, BlocksAssumption
<1>8. f.bss \in Word BY <1>3, FileType
<1>9. \E bss \in Word : sizes' = [data |-> f.dsize, brk |-> f.dsize + bss]
      BY <1>3, <1>8, ArgumentsAssumption
<1> HIDE DEF f, block
<1>10. f = FileAt(ConvertPath(r.path)) /\ block = MinixBlock(r.argv, r.envp[1]) BY DEF f, block
<1> QED BY <1>3, <1>4, <1>5, <1>6, <1>7, <1>9, <1>10

\* exec loads the program asked for.
LEMMA ExecLoadsHolds == ASSUME Inv, ExecLoads PROVE Inv'
<1>1. TypeOK BY DEF Inv
<1>2. /\ stage = "asking" /\ os = "minix" /\ stage' = "fresh" /\ pc' = 0 /\ os' = os
      /\ bx' = bx /\ ax' = ax /\ carry' = carry /\ asked' = asked
      BY DEF ExecLoads, Execing
<1>3. PICK r \in Requests :
        /\ Asks(data, r) /\ bx = r.message
        /\ asked = [call |-> TRUE, path |-> r.path, argv |-> r.argv, env |-> r.envp]
      BY <1>2 DEF Inv, Asked
<1> DEFINE f == FileAt(ConvertPath(r.path))
           env == r.envp[1]
           block == MinixBlock(r.argv, env)
           p == Pushed(f.data, block)
           b == Bottom(block)
           a == bx + 2
<1>4. /\ f.kind # "other" /\ r.path # <<>>
      /\ r.argv \in Seq(Strings) /\ env \in Strings /\ Len(block) <= 65536
      /\ text' = f.text /\ data' = StoreWord(p, a, 0) /\ sp' = b
      /\ \E bss \in Word : sizes' = [data |-> f.dsize, brk |-> f.dsize + bss]
      BY <1>3, ExecLoadsRight
<1>5. IsMemory(f.text) /\ IsMemory(f.data) /\ f.dsize \in Word BY <1>4, FileType
<1>6. block = MinixBlock(r.argv, env) OBVIOUS
<1> HIDE DEF f, env, block
<1>7. /\ b \in Word /\ b % 2 = 0 /\ IsMemory(p)
      /\ \A x \in Int : x < b => At(p, x) = At(f.data, x)
      /\ \A n : (\A x \in Int : x >= b => At(n, x) = At(p, x)) => MinixArrived(n, b, r.argv, env)
      BY <1>4, <1>5, <1>6, MinixStack
<1> HIDE DEF p, b
<1>8. a \in Nat /\ a + 1 < 65536 /\ a + 1 = bx + 3
  <2>1. r.message \in Nat /\ r.message + 13 < 65536 BY RequestType
  <2> QED BY <1>3, <2>1
<1>9. IsMemory(data') /\ \A x : x # a /\ x # a + 1 => At(data', x) = At(p, x)
  <2>1. 0 \in Word BY InWord
  <2> HIDE DEF a
  <2> QED BY <1>4, <1>7, <1>8, <2>1, WordStored
<1>10. /\ asked'.call = TRUE /\ asked'.argv = r.argv /\ asked'.path = r.path
       /\ asked'.env = r.envp
       BY <1>2, <1>3
<1>11. ReplyAt' = {a, a + 1} BY <1>2, <1>8, <1>10 DEF ReplyAt
<1> HIDE DEF a
<1>12. TypeOK'
  <2>1. stage' \in Stages /\ os' \in {"minix", "v6"} /\ os' # "v6" BY <1>2 DEF Stages
  <2>2. PICK bss \in Word : sizes' = [data |-> f.dsize, brk |-> f.dsize + bss] BY <1>4
  <2>3. sizes'.data \in Word /\ sizes'.brk \in Values(131071) BY <1>5, <2>2, SizesType
  <2>4. pc' \in Values(65544) BY <1>2, InValues
  <2>5. IsMemory(text') BY <1>4, <1>5
  <2>6. sp' \in Word /\ bx' \in Word /\ ax' \in Word /\ carry' \in BOOLEAN
        BY <1>1, <1>2, <1>4, <1>7, TypeParts
  <2> QED BY <1>9, <2>1, <2>3, <2>4, <2>5, <2>6, TypeNext
<1>13. PcFits' BY <1>2, InValues DEF PcFits
<1>14. Asked' BY <1>2 DEF Asked
<1>15. ArgumentsArrive'
  <2> SUFFICES ASSUME ~OnArguments' PROVE ArgumentsArrive' BY DEF ArgumentsArrive
  <2>1. ~(a >= b) /\ ~(a + 1 >= b) BY <1>4, <1>11 DEF OnArguments
  <2>2. \A x \in Int : x >= b => At(data', x) = At(p, x) BY <1>9, <2>1
  <2>3. MinixArrived(data', sp', r.argv, env) BY <1>4, <1>7, <2>2
  <2>4. ArgvAt' = r.argv /\ ArgcAt' = Len(r.argv)
        BY <2>3 DEF MinixArrived, ArgvIn, ArgvAt, ArgcAt
  <2>5. EnvAt'[1] = 0 /\ CString(data', EnvAt'[2]) = env
        BY <2>3, <2>4 DEF MinixArrived, EnvAt
  <2>6. WordAt(data', sp' + 2 * (ArgcAt' + 3)) = 0 BY <2>3, <2>4 DEF MinixArrived
  <2>7. CString(data', EnvAt'[2]) = asked'.env[1] BY <1>10, <2>5 DEF env
  <2> QED BY <1>10, <2>4, <2>5, <2>6, <2>7 DEF ArgumentsArrive
<1>16. StackAligned' BY <1>4, <1>7 DEF StackAligned
<1>17. ImageIntact'
  <2> SUFFICES ASSUME TmpInFrontOnly(asked'.path) PROVE ImageIntact' BY DEF ImageIntact
  <2>1. AskedFile' = f
    <3>1. r.path \in Strings /\ TmpInFrontOnly(r.path) BY <1>10, RequestType
    <3>2. ConvertPath(r.path) = Named(r.path) BY <1>4, <3>1, ConvertedIsNamed
    <3>3. f = FileAt(Named(r.path)) BY <3>2 DEF f
    <3> QED BY <1>10, <3>3 DEF AskedFile
  <2>2. ASSUME NEW x \in DOMAIN data' \cup DOMAIN f.data, x < sp', x \notin ReplyAt'
        PROVE  At(data', x) = At(f.data, x)
    <3>1. x \in Int BY <1>5, <1>9, WordIsInt DEF IsMemory
    <3>2. At(data', x) = At(p, x) BY <1>9, <1>11, <2>2
    <3> QED BY <1>4, <1>7, <2>2, <3>1, <3>2
  <2>3. os' = "minix" /\ text' = f.text BY <1>2, <1>4
  <2> QED BY <2>1, <2>2, <2>3 DEF ImageIntact
<1> QED BY <1>12, <1>13, <1>14, <1>15, <1>16, <1>17 DEF Inv

\* exec meets a file it cannot load, or an empty environment.
LEMMA ExecWildHolds == ASSUME Inv, ExecWild PROVE Inv'
<1>1. TypeOK BY DEF Inv
<1>2. /\ stage' = "wild" /\ os' = os /\ text' = text /\ data' = data /\ sizes' = sizes
      /\ sp' = sp /\ bx' = bx /\ ax' = ax /\ pc' = pc /\ carry' = carry
      BY DEF ExecWild
<1>3. stage' \in Stages BY <1>2 DEF Stages
<1>4. TypeOK' BY <1>1, <1>2, <1>3, TypeParts, TypeNext
<1>5. PcFits' /\ Asked' BY <1>2 DEF PcFits, Asked
<1>6. ArgumentsArrive' /\ StackAligned' /\ ImageIntact' BY <1>2, NotFreshNext
<1> QED BY <1>4, <1>5, <1>6 DEF Inv

\* A V6 program puts its call before pc.
LEMMA AskV6Holds == ASSUME Inv, AskV6 PROVE Inv'
<1>1. TypeOK BY DEF Inv
<1>2. PICK c \in V6Calls :
        data' = StoreAll(data, c.memory) /\ text' = data' /\ ax' = c.ax /\ pc' = c.pc + 2
      BY DEF AskV6
<1>3. /\ os = "v6" /\ stage' = "asking" /\ os' = os /\ sizes' = sizes
      /\ sp' = sp /\ bx' = bx
      BY DEF AskV6
<1>4. IsMemory(c.memory) /\ c.ax \in Word /\ c.pc \in Word BY RequestsAssumption
<1>5. IsMemory(data') BY <1>1, <1>2, <1>4, TypeParts, StoredAll
<1>6. pc' \in Values(65538) /\ pc' \in Values(65544)
  <2>1. c.pc \in Int /\ 0 <= c.pc /\ c.pc < 65536 BY <1>4, InWord
  <2>2. pc' \in Int /\ 0 <= pc' /\ pc' < 65538 /\ pc' < 65544 BY <1>2, <2>1
  <2> QED BY <2>2, InValues
<1>7. carry' \in BOOLEAN BY DEF AskV6
<1>8. stage' \in Stages BY <1>3 DEF Stages
<1>9. TypeOK' BY <1>1, <1>2, <1>3, <1>4, <1>5, <1>6, <1>7, <1>8, TypeParts, TypeNext
<1>10. PcFits' /\ Asked' BY <1>3, <1>6 DEF PcFits, Asked
<1>11. ArgumentsArrive' /\ StackAligned' /\ ImageIntact' BY <1>3, NotFreshNext
<1> QED BY <1>9, <1>10, <1>11 DEF Inv

\* A system call of V6: what it leaves in AX and in the carry, and that it does end.
LEMMA V6CallParts ==
  ASSUME TypeOK, V6Call
  PROVE  /\ stage = "asking" /\ os = "v6" /\ stage' \in {"returned", "exit"}
         /\ os' = os /\ text' = text /\ data' = data /\ sizes' = sizes /\ sp' = sp /\ bx' = bx
         /\ ax' \in Word /\ carry' \in BOOLEAN
         /\ pc' \in {pc + 1, pc + 3, pc + 5}
         /\ pc' = pc + 1 + 2 * Listing!V6Words(Systype)
<1>1. IsMemory(text) /\ IsMemory(data) /\ ax \in Word /\ carry \in BOOLEAN /\ pc \in Int
      BY TypeParts, InValues
<1>2. \A a : WordAt(text, a) \in Word /\ WordAt(data, a) \in Word BY <1>1, BytesFromMemory
<1>3. 65535 \in Word BY InWord
<1>4. ASSUME NEW at, NEW len \in Word, Writing(at, len)
      PROVE  ax' \in Word /\ carry' \in BOOLEAN
  <2>1. ax' \in {len, 65535} /\ carry' = FALSE BY <1>4 DEF Writing
  <2>2. ax' = len \/ ax' = 65535 BY <2>1
  <2>3. ax' \in Word BY <1>3, <2>2
  <2>4. carry' = FALSE BY <2>1
  <2>5. carry' \in BOOLEAN BY <2>4
  <2> QED BY <2>3, <2>5
<1>5. ASSUME NotWriting PROVE ax' \in Word /\ carry' \in BOOLEAN
      BY <1>1, <1>5 DEF NotWriting
<1>6. V6Calling BY DEF V6Call, V6Write, V6Indirect, V6Exit, V6Unknown
<1>7. /\ stage' \in {"returned", "exit"}
      /\ os' = os /\ text' = text /\ data' = data /\ sizes' = sizes /\ sp' = sp /\ bx' = bx
      BY DEF V6Call, V6Write, V6Indirect, V6Exit, V6Unknown, V6Returns
<1>8. ax' \in Word /\ carry' \in BOOLEAN
  <2>1. CASE V6Write
    <3>1. Writing(Fetched2(1), Fetched2(3)) BY <2>1 DEF V6Write
    <3>2. Fetched2(3) \in Word BY <1>2 DEF Fetched2
    <3> QED BY <1>4, <3>1, <3>2
  <2>2. CASE V6Indirect
    <3>1. (\E a, b : Writing(WordAt(data, a), WordAt(data, b))) \/ NotWriting
          BY <2>2 DEF V6Indirect
    <3>2. CASE NotWriting BY <1>5, <3>2
    <3>3. ASSUME NEW a, NEW b, Writing(WordAt(data, a), WordAt(data, b))
          PROVE  ax' \in Word /\ carry' \in BOOLEAN
      <4>1. WordAt(data, b) \in Word BY <1>2
      <4> QED BY <1>4, <3>3, <4>1
    <3> QED BY <3>1, <3>2, <3>3
  <2>3. CASE V6Exit \/ V6Unknown BY <1>5, <2>3 DEF V6Exit, V6Unknown
  <2> QED BY <2>1, <2>2, <2>3 DEF V6Call
<1>9. pc' \in {pc + 1, pc + 3, pc + 5} /\ pc' = pc + 1 + 2 * Listing!V6Words(Systype)
  <2>1. CASE V6Write
    <3>1. Systype = 4 /\ pc' = pc + 5 BY <2>1 DEF V6Write
    <3>2. Listing!V6Words(Systype) = 2 BY <3>1 DEF Listing!V6Words
    <3> QED BY <1>1, <3>1, <3>2
  <2>2. CASE Systype = 0 /\ pc' = pc + 3
    <3>1. Listing!V6Words(Systype) = 1 BY <2>2 DEF Listing!V6Words
    <3> QED BY <1>1, <2>2, <3>1
  <2>3. CASE Systype \notin {0, 4} /\ pc' = pc + 1
    <3>1. Listing!V6Words(Systype) = 0 BY <2>3 DEF Listing!V6Words
    <3> QED BY <1>1, <2>3, <3>1
  <2>4. ASSUME V6Indirect \/ V6Exit \/ V6Unknown
        PROVE  (Systype = 0 /\ pc' = pc + 3) \/ (Systype \notin {0, 4} /\ pc' = pc + 1)
        BY <2>4 DEF V6Indirect, V6Exit, V6Unknown
  <2> QED BY <2>1, <2>2, <2>3, <2>4 DEF V6Call
<1> QED BY <1>6, <1>7, <1>8, <1>9 DEF V6Calling

\* A V6 call.
LEMMA V6CallHolds == ASSUME Inv, V6Call PROVE Inv'
<1>1. TypeOK /\ PcFits BY DEF Inv
<1>2. /\ stage = "asking" /\ os = "v6" /\ stage' \in {"returned", "exit"}
      /\ os' = os /\ text' = text /\ data' = data /\ sizes' = sizes /\ sp' = sp /\ bx' = bx
      /\ ax' \in Word /\ carry' \in BOOLEAN
      /\ pc' \in {pc + 1, pc + 3, pc + 5}
      BY <1>1, V6CallParts
<1>3. pc' \in Values(65544)
  <2>1. pc \in Values(65538) BY <1>1, <1>2 DEF PcFits
  <2>2. pc \in Int /\ 0 <= pc /\ pc < 65538 BY <2>1, InValues
  <2>3. pc' \in Int /\ 0 <= pc' /\ pc' < 65544 BY <1>2, <2>2
  <2> QED BY <2>3, InValues
<1>4. stage' \in Stages /\ stage' # "fresh" /\ stage' # "asking" BY <1>2 DEF Stages
<1>5. TypeOK' BY <1>1, <1>2, <1>3, <1>4, TypeParts, TypeNext
<1>6. PcFits' /\ Asked' BY <1>4 DEF PcFits, Asked
<1>7. ArgumentsArrive' /\ StackAligned' /\ ImageIntact' BY <1>4, NotFreshNext
<1> QED BY <1>5, <1>6, <1>7 DEF Inv

\* No step.
LEMMA StutterHolds == ASSUME Inv, UNCHANGED vars PROVE Inv'
<1>1. TypeOK' BY DEF Inv, TypeOK, vars
<1>2. PcFits' /\ Asked' BY DEF Inv, PcFits, Asked, vars
<1>3. ArgumentsArrive'
      BY DEF Inv, ArgumentsArrive, vars, Fresh, OnArguments, ReplyAt, ArgvAt, ArgcAt, EnvAt
<1>4. StackAligned' BY DEF Inv, StackAligned, Fresh, vars
<1>5. ImageIntact' BY DEF Inv, ImageIntact, Fresh, ReplyAt, AskedFile, vars
<1> QED BY <1>1, <1>2, <1>3, <1>4, <1>5 DEF Inv

\* Every step keeps the invariant.
LEMMA NextHolds == Inv /\ [Next]_vars => Inv'
<1> SUFFICES ASSUME Inv, [Next]_vars PROVE Inv' OBVIOUS
<1>1. CASE AskExec BY <1>1, AskExecHolds
<1>2. CASE ExecLoads BY <1>2, ExecLoadsHolds
<1>3. CASE ExecWild BY <1>3, ExecWildHolds
<1>4. CASE AskV6 BY <1>4, AskV6Holds
<1>5. CASE V6Call BY <1>5, V6CallHolds
<1>6. CASE Over \/ UNCHANGED vars BY <1>6, StutterHolds DEF Over
<1> QED BY <1>1, <1>2, <1>3, <1>4, <1>5, <1>6 DEF Next

\* The invariant is inductive: a program is started by Init or by exec, and exec is
\* asked for with a message that can be read back from memory.
THEOREM InvHolds == Spec => []Inv
BY InitHolds, NextHolds, PTL DEF Spec

\* Registers, segments and sizes stay in their ranges, and setBinary gives a V6 program
\* one segment, in every behaviour.
THEOREM LaunchTyped == Spec => []TypeOK
<1>1. Inv => TypeOK BY DEF Inv
<1> QED BY InvHolds, <1>1, PTL

\* processArgs of Minix and of UnixV6, and execSysCall with minixexec: a program finds
\* argc, argv and the environment it was started with, whatever their number and
\* lengths, unless exec's reply has fallen on them.
THEOREM ProgramsFindTheirArguments == Spec => []ArgumentsArrive
<1>1. Inv => ArgumentsArrive BY DEF Inv
<1> QED BY InvHolds, <1>1, PTL

\* processArgs: a program starts with an even stack pointer, whatever its arguments.
THEOREM StacksAreAligned == Spec => []StackAligned
<1>1. Inv => StackAligned BY DEF Inv
<1> QED BY InvHolds, <1>1, PTL

\* convertPath, setBinary and minixexec: below its arguments a program has the text and
\* the data of the file that was named, for every such path and every file.
THEOREM TheProgramNamedRuns == Spec => []ImageIntact
<1>1. Inv => ImageIntact BY DEF Inv
<1> QED BY InvHolds, <1>1, PTL

\* The two words of a write listed at a.
LEMMA WriteAt ==
  ASSUME NEW a \in Int, At(text, a) = 4
  PROVE  /\ CallAt(a).number = 4
         /\ CallAt(a).words[1] = WordAt(text, a + 1) /\ CallAt(a).words[2] = WordAt(text, a + 3)
<1>1. Listing!V6Words(At(text, a)) = 2 BY DEF Listing!V6Words
<1>2. /\ CallAt(a).number = 4
      /\ CallAt(a).words = [k \in 1 .. 2 |-> WordAt(text, a + 2 * k - 1)]
      BY <1>1 DEF CallAt
<1>3. a + 2 * 1 - 1 = a + 1 /\ a + 2 * 2 - 1 = a + 3 OBVIOUS
<1> QED BY <1>2, <1>3

LEMMA WrittenAs ==
  ASSUME NEW call, call.number = 4, Writing(call.words[1], call.words[2])
  PROVE  output' = Written(call)
BY DEF Writing, Written

\* What a V6 call has given to the host.
LEMMA V6CallWrites ==
  ASSUME TypeOK, V6Call, Systype = 0 => IndirectAt + 6 \in Word
  PROVE  output' = Written(CallMade)
<1>1. IsMemory(text) /\ pc \in Int BY TypeParts, InValues
<1>2. text = data BY TypeParts DEF V6Call, V6Write, V6Indirect, V6Exit, V6Unknown, V6Calling
<1>3. CASE V6Write
  <2>1. Systype = 4 /\ Writing(WordAt(text, pc + 1), WordAt(text, pc + 3))
        BY <1>3 DEF V6Write, Fetched2
  <2>2. CallMade = CallAt(pc) BY <2>1 DEF CallMade
  <2>3. At(text, pc) = 4 BY <2>1 DEF Systype
  <2> QED BY <1>1, <2>1, <2>2, <2>3, WriteAt, WrittenAs
<1>4. CASE V6Indirect
  <2> DEFINE at(k) == (IndirectAt + k) % 65536
             n == IndirectAt
  <2>1. Systype = 0 /\ IsCall /\ n + 6 \in Word BY <1>4 DEF V6Indirect
  <2>2. CallMade = CallAt(n + 2) BY <2>1 DEF CallMade
  <2>3. n \in Word BY <1>1, BytesFromMemory DEF IndirectAt, Fetched2
  <2>4. n \in Int /\ 0 <= n /\ n + 6 < 65536 BY <2>1, <2>3, InWord
  <2>5. \/ At(data, at(2)) = 4 /\ Writing(WordAt(data, at(3)), WordAt(data, at(5)))
        \/ At(data, at(2)) # 4 /\ NotWriting
        BY <1>4 DEF V6Indirect
  <2> HIDE DEF n
  <2>6. at(2) = n + 2 /\ at(3) = n + 2 + 1 /\ at(5) = n + 2 + 3
    <3>1. (n + 2) % 65536 = n + 2 /\ (n + 3) % 65536 = n + 3 /\ (n + 5) % 65536 = n + 5
          BY <2>4
    <3> QED BY <2>4, <3>1 DEF n
  <2> HIDE DEF at
  <2>7. CASE At(data, at(2)) = 4 /\ Writing(WordAt(data, at(3)), WordAt(data, at(5)))
    <3>1. At(text, n + 2) = 4 /\ Writing(WordAt(text, n + 2 + 1), WordAt(text, n + 2 + 3))
          BY <1>2, <2>6, <2>7
    <3>2. n + 2 \in Int BY <2>4
    <3> QED BY <2>2, <3>1, <3>2, WriteAt, WrittenAs
  <2>8. CASE At(data, at(2)) # 4 /\ NotWriting
    <3>1. CallMade.number # 4 BY <1>2, <2>2, <2>6, <2>8 DEF CallAt
    <3> QED BY <2>8, <3>1 DEF Written, NotWriting
  <2> QED BY <2>5, <2>7, <2>8
<1>5. CASE V6Exit \/ V6Unknown
  <2>1. NotWriting /\ Systype # 4 /\ ~(Systype = 0 /\ IsCall) BY <1>5 DEF V6Exit, V6Unknown
  <2>2. CallMade.number # 4 BY <2>1 DEF CallMade, CallAt, Systype
  <2> QED BY <2>1, <2>2 DEF Written, NotWriting
<1> QED BY <1>3, <1>4, <1>5 DEF V6Call

\* execSysCall, v6indirect and v6write of UnixV6: each call takes from the code the words
\* that its listing shows, and gives to the host the bytes that they name, in whatever
\* memory it is made; of an indirect call over the end of memory only the former.
THEOREM CallsTakeTheirWords == Spec => V6CallsAsListed
<1>1. Inv /\ [Next]_vars =>
        [V6Call =>
           /\ pc' = pc + 1 + 2 * Listing!V6Words(Systype)
           /\ (Systype = 0 => IndirectAt + 6 \in Word) => output' = Written(CallMade)]_vars
  <2>1. ASSUME Inv, V6Call PROVE pc' = pc + 1 + 2 * Listing!V6Words(Systype)
        BY <2>1, V6CallParts DEF Inv
  <2>2. ASSUME Inv, V6Call, Systype = 0 => IndirectAt + 6 \in Word
        PROVE  output' = Written(CallMade)
        BY <2>2, V6CallWrites DEF Inv
  <2> QED BY <2>1, <2>2
<1> QED BY InvHolds, <1>1, PTL DEF Spec, V6CallsAsListed
=============================================================================

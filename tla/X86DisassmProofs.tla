-------------------------- MODULE X86DisassmProofs --------------------------
(***************************************************************************)
(* Proofs about X86Disassm for every text, symbol table and heap that its  *)
(* assumptions allow.                                                      *)
(*                                                                         *)
(* The bytes that fetch() can reach are a function, Source; those due are  *)
(* the ones picked from it that were not left out, and a pass adds what it *)
(* took to the bytes of its lines.  The invariant Inv says besides that    *)
(* all between a waiting prefix and p was left out (Listed), that p is     *)
(* where the bytes written and waiting end (Counted), and that a waiting   *)
(* prefix with a name has had its label (Labelled).                        *)
(***************************************************************************)
EXTENDS X86Disassm, FlatSequences, TLAPS

\* Values(n) are the naturals below n.
LEMMA InValues ==
  ASSUME NEW n \in Int, NEW v
  PROVE  v \in Values(n) <=> v \in Int /\ 0 <= v /\ v < n
BY DEF Values

Kinds == {"shown", "undefined", "prefix", "silent"}

\* What disassm() can make of the bytes at an address.
Cut(s) == s.kind \in Kinds /\ s.size \in 1 .. 6

\* What is shown is one of these, ...
LEMMA ShownCut == ASSUME NEW n \in 1 .. 6, NEW ops PROVE Cut(Shown(n, ops))
BY DEF Shown, Shape, Cut, Kinds

\* ... known or not, ...
LEMMA IfCut == ASSUME NEW n \in 1 .. 6, NEW ops, NEW known PROVE Cut(If(known, Shown(n, ops)))
BY DEF If, Shown, Shape, Cut, Kinds

\* ... and so is what is not understood.
LEMMA UndefinedCut == Cut(Undefined)
BY DEF Undefined, Shape, Cut, Kinds

\* An opcode with its ModR/M byte and displacement.
LEMMA HeadSizes == ASSUME NEW b PROVE HeadSize(b) \in 2 .. 4
BY DEF HeadSize, DispSize

\* The bits of an opcode that tell a word from a byte.
LEMMA WordBits == ASSUME NEW b \in Bytes PROVE WordBit(b) \in 0 .. 1 /\ (b[0] \div 8) % 2 \in 0 .. 1
<1>1. b[0] \in Int BY InValues DEF Bytes, Byte
<1>2. \A v \in Int : v % 2 \in 0 .. 1 OBVIOUS
<1>3. b[0] \div 8 \in Int BY <1>1
<1> QED BY <1>1, <1>2, <1>3 DEF WordBit

\* Every group of opcodes cuts off between one and six bytes.
LEMMA GroupsCut ==
  ASSUME NEW b \in Bytes, NEW a
  PROVE  /\ Cut(Arithmetic(b)) /\ Cut(OneRegister(b)) /\ Cut(ShortJump(b, a))
         /\ Cut(ImmediateGroup(b)) /\ Cut(MoveGroup(b)) /\ Cut(Accumulators(b))
         /\ Cut(Immediates(b)) /\ Cut(ShiftsAndPorts(b, a)) /\ Cut(UnaryGroup(b))
<1> DEFINE h == HeadSize(b)
           w == WordBit(b)
           v == (b[0] \div 8) % 2
<1>1. /\ h \in 1 .. 6 /\ h + 1 + w \in 1 .. 6 /\ 2 + w \in 1 .. 6 /\ 2 + v \in 1 .. 6
      /\ h + 1 + 1 \in 1 .. 6 /\ h + 1 + 0 \in 1 .. 6
      BY HeadSizes, WordBits
<1>2. 1 \in 1 .. 6 /\ 2 \in 1 .. 6 /\ 3 \in 1 .. 6 /\ 5 \in 1 .. 6 OBVIOUS
<1>3. \A n \in 1 .. 6 : \A ops : Cut(Shown(n, ops)) BY ShownCut
<1>4. \A n \in 1 .. 6 : \A ops, known : Cut(If(known, Shown(n, ops))) BY IfCut
<1> HIDE DEF h, w, v
<1>5. Cut(Arithmetic(b)) BY <1>1, <1>2, <1>3, UndefinedCut, Zenon DEF Arithmetic, h, w
<1>6. Cut(OneRegister(b)) BY <1>2, <1>3 DEF OneRegister
<1>7. Cut(ShortJump(b, a)) BY <1>2, <1>3 DEF ShortJump
<1>8. Cut(ImmediateGroup(b)) BY <1>1, <1>4, Zenon DEF ImmediateGroup, h
<1>9. Cut(MoveGroup(b)) BY <1>1, <1>3, <1>4, Zenon DEF MoveGroup, h
<1>10. Cut(Accumulators(b)) BY <1>1, <1>2, <1>3, UndefinedCut DEF Accumulators, w
<1>11. Cut(Immediates(b)) BY <1>1, <1>2, <1>3, UndefinedCut DEF Immediates, h, w, v
<1>12. Cut(ShiftsAndPorts(b, a))
       BY <1>1, <1>2, <1>3, <1>4, <1>7, UndefinedCut DEF ShiftsAndPorts, NearJump, h
<1>13. Cut(UnaryGroup(b)) BY <1>1, <1>2, <1>3, <1>4, UndefinedCut DEF UnaryGroup, h, w
<1> QED BY <1>5, <1>6, <1>7, <1>8, <1>9, <1>10, <1>11, <1>12, <1>13

\* No instruction has less than one byte or more than six.
LEMMA DecodedCut == ASSUME NEW b \in Bytes, NEW a PROVE Cut(Decoded(b, a))
<1>1. Cut(Shape("prefix", 1, <<>>)) BY DEF Shape, Cut, Kinds
<1> QED BY <1>1, GroupsCut, UndefinedCut, Zenon DEF Decoded
-----------------------------------------------------------------------------
\* The elements of f[0] .. f[n - 1] whose numbers are not in X, in order.
Picked(f, n, X) == FlattenSeq([k \in 1 .. n |-> IF k - 1 \in X THEN <<>> ELSE <<f[k - 1]>>])

\* The elements picked from values are values.
LEMMA PickedType ==
  ASSUME NEW S, NEW m \in Nat, NEW f \in [0 .. m -> S], NEW n \in 0 .. m + 1, NEW X
  PROVE  /\ [k \in 1 .. n |-> IF k - 1 \in X THEN <<>> ELSE <<f[k - 1]>>] \in Seq(Seq(S))
         /\ Picked(f, n, X) \in Seq(S)
<1> DEFINE parts == [k \in 1 .. n |-> IF k - 1 \in X THEN <<>> ELSE <<f[k - 1]>>]
<1>1. ASSUME NEW k \in 1 .. n PROVE (IF k - 1 \in X THEN <<>> ELSE <<f[k - 1]>>) \in Seq(S)
  <2>1. f[k - 1] \in S OBVIOUS
  <2>2. <<f[k - 1]>> \in Seq(S) /\ <<>> \in Seq(S) BY <2>1
  <2> QED BY <2>2
<1>2. parts \in Seq(Seq(S)) BY <1>1, IsASeq
<1>3. FlattenSeq(parts) \in Seq(S) BY <1>2, FlattenType
<1> QED BY <1>2, <1>3 DEF Picked

\* Nothing is picked from nothing.
LEMMA PickedZero == ASSUME NEW f, NEW X PROVE Picked(f, 0, X) = <<>>
<1>1. [k \in 1 .. 0 |-> IF k - 1 \in X THEN <<>> ELSE <<f[k - 1]>>] = <<>> OBVIOUS
<1> QED BY <1>1, FlattenEmpty DEF Picked

\* One element more is left out, or comes last.
LEMMA PickedNext ==
  ASSUME NEW S, NEW m \in Nat, NEW f \in [0 .. m -> S], NEW n \in 0 .. m, NEW X
  PROVE  /\ n \in X => Picked(f, n + 1, X) = Picked(f, n, X)
         /\ n \notin X => Picked(f, n + 1, X) = Picked(f, n, X) \o <<f[n]>>
<1> DEFINE parts(k) == [j \in 1 .. k |-> IF j - 1 \in X THEN <<>> ELSE <<f[j - 1]>>]
           last == IF n \in X THEN <<>> ELSE <<f[n]>>
<1>1. n \in Nat /\ n \in 0 .. m + 1 /\ n + 1 \in 0 .. m + 1 /\ n + 1 - 1 = n OBVIOUS
<1>2. parts(n) \in Seq(Seq(S)) /\ parts(n + 1) \in Seq(Seq(S)) BY <1>1, PickedType
<1>3. f[n] \in S OBVIOUS
<1>4. last \in Seq(S) BY <1>3
<1>5. parts(n + 1) = Append(parts(n), last)
  <2> DEFINE old == parts(n)
             new == parts(n + 1)
  <2>1. Len(old) = n /\ Len(new) = n + 1 BY <1>1, LenProperties
  <2>2. \A k \in 1 .. n : new[k] = old[k] BY <1>1
  <2>3. new[n + 1] = last BY <1>1
  <2> HIDE DEF old, new, last
  <2> DEFINE app == Append(old, last)
  <2>4. app \in Seq(Seq(S)) /\ Len(app) = n + 1 /\ app[n + 1] = last
        /\ \A k \in 1 .. n : app[k] = old[k]
        BY <1>1, <1>2, <1>4, <2>1, AppendProperties DEF old
  <2>5. new \in Seq(Seq(S)) BY <1>2 DEF new
  <2> HIDE DEF app
  <2>6. \A k \in 1 .. n + 1 : new[k] = app[k] BY <1>1, <2>2, <2>3, <2>4
  <2>7. new = app BY <2>1, <2>4, <2>5, <2>6, SeqEqual
  <2> QED BY <2>7 DEF new, app, old
<1> HIDE DEF parts, last
<1>6. FlattenSeq(parts(n + 1)) = FlattenSeq(parts(n)) \o last
      BY <1>2, <1>4, <1>5, FlattenAppend
<1>7. FlattenSeq(parts(n)) \in Seq(S) BY <1>2, FlattenType
<1>8. FlattenSeq(parts(n)) \o <<>> = FlattenSeq(parts(n)) BY <1>7
<1>9. CASE n \in X BY <1>6, <1>8, <1>9 DEF parts, last, Picked
<1>10. CASE n \notin X BY <1>6, <1>10 DEF parts, last, Picked
<1> QED BY <1>9, <1>10

\* Only the numbers below n matter.
LEMMA PickedSame ==
  ASSUME NEW f, NEW n \in Nat, NEW X, NEW Y, \A a \in 0 .. n - 1 : a \in X <=> a \in Y
  PROVE  Picked(f, n, X) = Picked(f, n, Y)
<1>1. ASSUME NEW k \in 1 .. n PROVE k - 1 \in X <=> k - 1 \in Y
  <2>1. k - 1 \in 0 .. n - 1 OBVIOUS
  <2> QED BY <2>1
<1>2. [k \in 1 .. n |-> IF k - 1 \in X THEN <<>> ELSE <<f[k - 1]>>] =
      [k \in 1 .. n |-> IF k - 1 \in Y THEN <<>> ELSE <<f[k - 1]>>]
      BY <1>1
<1> QED BY <1>2 DEF Picked

\* The elements from n to q: none of them is picked, or all of them are.
LEMMA PickedOn ==
  ASSUME NEW S, NEW m \in Nat, NEW f \in [0 .. m -> S], NEW n \in 0 .. m + 1, NEW q \in n .. m + 1,
         NEW X
  PROVE  /\ (\A a \in n .. q - 1 : a \in X) => Picked(f, q, X) = Picked(f, n, X)
         /\ (\A a \in n .. q - 1 : a \notin X) =>
              Picked(f, q, X) = Picked(f, n, X) \o [k \in 1 .. q - n |-> f[n + k - 1]]
<1> DEFINE P(d) == /\ n .. n + d - 1 \subseteq X => Picked(f, n + d, X) = Picked(f, n, X)
                   /\ (n .. n + d - 1) \cap X = {} =>
                        Picked(f, n + d, X) = Picked(f, n, X) \o [k \in 1 .. d |-> f[n + k - 1]]
           T == {d \in Nat : n + d <= m + 1 => P(d)}
           s == Picked(f, n, X)
<1>1. n \in Nat /\ s \in Seq(S) BY PickedType
<1> HIDE DEF s
<1>2. 0 \in T
  <2>1. n + 0 = n BY <1>1
  <2>2. [k \in 1 .. 0 |-> f[n + k - 1]] = <<>> OBVIOUS
  <2>3. s \o <<>> = s BY <1>1
  <2> QED BY <2>1, <2>2, <2>3 DEF s
<1>3. ASSUME NEW d \in Nat, d \in T PROVE d + 1 \in T
  <2> DEFINE new == [k \in 1 .. d + 1 |-> f[n + k - 1]]
             old == [k \in 1 .. d |-> f[n + k - 1]]
  <2>. HIDE DEF P
  <2> SUFFICES ASSUME n + (d + 1) <= m + 1 PROVE P(d + 1)
      OBVIOUS
  <2>1. n + d <= m + 1 /\ P(d)
    <3>1. n + d <= m + 1 BY <1>1
    <3> QED BY <1>3, <3>1
  <2> HIDE DEF T
  <2> USE DEF P
  <2> SUFFICES /\ n .. n + (d + 1) - 1 \subseteq X => Picked(f, n + (d + 1), X) = s
               /\ (n .. n + (d + 1) - 1) \cap X = {} => Picked(f, n + (d + 1), X) = s \o new
      BY DEF s
  <2>2. n + d \in 0 .. m /\ n + d + 1 = n + (d + 1) BY <1>1, <2>1
  <2>3. /\ n + d \in X => Picked(f, n + (d + 1), X) = Picked(f, n + d, X)
        /\ n + d \notin X =>
             Picked(f, n + (d + 1), X) = Picked(f, n + d, X) \o <<f[n + d]>>
    <3> DEFINE e == n + d
    <3>1. e \in 0 .. m /\ e + 1 = n + (d + 1) BY <2>2
    <3> HIDE DEF e, P, new, old
    <3>2. /\ e \in X => Picked(f, e + 1, X) = Picked(f, e, X)
          /\ e \notin X => Picked(f, e + 1, X) = Picked(f, e, X) \o <<f[e]>>
          BY <3>1, PickedNext
    <3> QED BY <3>1, <3>2 DEF e
  <2>4. /\ n .. n + d - 1 \subseteq X => Picked(f, n + d, X) = s
        /\ (n .. n + d - 1) \cap X = {} => Picked(f, n + d, X) = s \o old
        BY <2>1 DEF s
  <2> HIDE DEF P
  <2>5. /\ n + d \in n .. n + (d + 1) - 1
        /\ \A a \in n .. n + d - 1 : a \in n .. n + (d + 1) - 1
        BY <1>1
  <2>6. CASE n .. n + (d + 1) - 1 \subseteq X
    <3>1. n + d \in X /\ n .. n + d - 1 \subseteq X BY <2>5, <2>6
    <3>2. s \o <<>> = s BY <1>1
    <3>3. Picked(f, n + (d + 1), X) = s BY <2>3, <2>4, <3>1, <3>2
    <3>4. ~((n .. n + (d + 1) - 1) \cap X = {}) BY <2>5, <3>1
    <3> QED BY <3>3, <3>4
  <2>7. CASE (n .. n + (d + 1) - 1) \cap X = {}
    <3>1. n + d \notin X /\ (n .. n + d - 1) \cap X = {} BY <2>5, <2>7
    <3>2. Picked(f, n + (d + 1), X) = (s \o old) \o <<f[n + d]>> BY <2>3, <2>4, <3>1
    <3>3. \A k \in 1 .. d + 1 : f[n + k - 1] \in S BY <1>1, <2>2
    <3>4. new \in Seq(S) /\ Len(new) = d + 1 BY <3>3, IsASeq, LenProperties
    <3>5. old \in Seq(S) /\ Len(old) = d
      <4>1. \A k \in 1 .. d : f[n + k - 1] \in S BY <3>3
      <4> QED BY <4>1, IsASeq, LenProperties
    <3>6. f[n + d] \in S BY <2>2
    <3>7. new = Append(old, f[n + d])
      <4> DEFINE app == Append(old, f[n + d])
      <4>1. \A k \in 1 .. d : new[k] = old[k] OBVIOUS
      <4>2. new[d + 1] = f[n + d]
        <5>1. n + (d + 1) - 1 = n + d BY <1>1
        <5> QED BY <5>1
      <4> HIDE DEF new, old
      <4>3. app \in Seq(S) /\ Len(app) = d + 1 /\ app[d + 1] = f[n + d]
            /\ \A k \in 1 .. d : app[k] = old[k]
            BY <3>5, <3>6, AppendProperties
      <4> HIDE DEF app
      <4>4. \A k \in 1 .. d + 1 : new[k] = app[k] BY <4>1, <4>2, <4>3
      <4>5. new = app BY <3>4, <4>3, <4>4, SeqEqual
      <4> QED BY <4>5 DEF app
    <3> HIDE DEF new, old
    <3>8. s \o Append(old, f[n + d]) = Append(s \o old, f[n + d])
          BY <1>1, <3>5, <3>6, AppendToConcat
    <3>9. s \o old \in Seq(S) BY <1>1, <3>5, ConcatProperties
    <3>10. (s \o old) \o <<f[n + d]>> = Append(s \o old, f[n + d])
           BY <3>6, <3>9, AppendIsConcat
    <3>11. Picked(f, n + (d + 1), X) = s \o new BY <3>2, <3>7, <3>8, <3>10
    <3>12. ~(n .. n + (d + 1) - 1 \subseteq X) BY <2>5, <3>1
    <3> QED BY <3>11, <3>12
  <2> QED BY <2>6, <2>7
<1> HIDE DEF T
<1>4. Nat \subseteq T BY <1>2, <1>3, Induction
<1>5. q - n \in T /\ n + (q - n) = q BY <1>1, <1>4
<1>6. n + (q - n) <= m + 1 OBVIOUS
<1>7. P(q - n) BY <1>5, <1>6 DEF T
<1>8. (\A a \in n .. q - 1 : a \in X) => n .. n + (q - n) - 1 \subseteq X BY <1>5
<1>9. (\A a \in n .. q - 1 : a \notin X) => (n .. n + (q - n) - 1) \cap X = {} BY <1>5
<1> QED BY <1>5, <1>7, <1>8, <1>9
-----------------------------------------------------------------------------
\* What is written, line by line.
LineType == [to : {"cerr", "cout"}, at : Word, bytes : Seq(Byte)]
Parts(l) == [k \in DOMAIN l |-> l[k].bytes]
Bytewise(l) == FlattenSeq(Parts(l))
Upto(l, k) == FlattenSeq([j \in 1 .. k - 1 |-> l[j].bytes])

\* The bytes of lines, and of all of them in order.
LEMMA LineParts ==
  ASSUME NEW l \in Seq(LineType)
  PROVE  /\ Parts(l) \in Seq(Seq(Byte)) /\ Len(Parts(l)) = Len(l)
         /\ \A k \in 1 .. Len(l) : l[k] \in LineType /\ Parts(l)[k] = l[k].bytes
         /\ Bytewise(l) \in Seq(Byte) /\ DOMAIN l = 1 .. Len(l) /\ Len(l) \in Nat
<1>1. DOMAIN l = 1 .. Len(l) /\ Len(l) \in Nat BY LenProperties
<1>2. \A k \in 1 .. Len(l) : l[k] \in LineType BY ElementOfSeq
<1>3. \A k \in 1 .. Len(l) : l[k].bytes \in Seq(Byte) BY <1>2 DEF LineType
<1>4. Parts(l) = [k \in 1 .. Len(l) |-> l[k].bytes] BY <1>1 DEF Parts
<1>5. Parts(l) \in Seq(Seq(Byte)) BY <1>1, <1>3, <1>4, IsASeq
<1>6. Len(Parts(l)) = Len(l) BY <1>1, <1>4, <1>5, LenProperties
<1>7. FlattenSeq(Parts(l)) \in Seq(Byte) BY <1>5, FlattenType
<1> QED BY <1>1, <1>2, <1>4, <1>5, <1>6, <1>7 DEF Bytewise

\* Where the elements of two sequences joined lie.
LEMMA JoinedAt ==
  ASSUME NEW S, NEW x \in Seq(S), NEW y \in Seq(S)
  PROVE  /\ x \o y \in Seq(S) /\ Len(x \o y) = Len(x) + Len(y)
         /\ \A j \in 1 .. Len(x) + Len(y) : (x \o y)[j] = IF j <= Len(x) THEN x[j] ELSE y[j - Len(x)]
BY ConcatProperties

\* The bytes of lines joined are those of the first, then of the second.
LEMMA PartsJoined ==
  ASSUME NEW a \in Seq(LineType), NEW b \in Seq(LineType)
  PROVE  /\ a \o b \in Seq(LineType) /\ Len(a \o b) = Len(a) + Len(b)
         /\ Parts(a \o b) = Parts(a) \o Parts(b)
         /\ Bytewise(a \o b) = Bytewise(a) \o Bytewise(b)
         /\ Len(Bytewise(a \o b)) = Len(Bytewise(a)) + Len(Bytewise(b))
<1> DEFINE c == a \o b
           x == Parts(a)
           y == Parts(b)
           z == Parts(c)
<1>1. /\ c \in Seq(LineType) /\ Len(c) = Len(a) + Len(b)
      /\ \A k \in 1 .. Len(a) + Len(b) : c[k] = IF k <= Len(a) THEN a[k] ELSE b[k - Len(a)]
      BY ConcatProperties
<1> HIDE DEF c
<1>2. /\ x \in Seq(Seq(Byte)) /\ Len(x) = Len(a) /\ Len(a) \in Nat
      /\ y \in Seq(Seq(Byte)) /\ Len(y) = Len(b) /\ Len(b) \in Nat
      /\ z \in Seq(Seq(Byte)) /\ Len(z) = Len(a) + Len(b)
      BY <1>1, LineParts
<1>3. \A k \in 1 .. Len(a) + Len(b) : z[k] = IF k <= Len(a) THEN x[k] ELSE y[k - Len(a)]
  <2> TAKE k \in 1 .. Len(a) + Len(b)
  <2>1. z[k] = c[k].bytes BY <1>1, LineParts
  <2>2. CASE k <= Len(a)
    <3>1. k \in 1 .. Len(a) BY <1>2, <2>2
    <3>2. x[k] = a[k].bytes BY <3>1, LineParts
    <3> QED BY <1>1, <2>1, <2>2, <3>2
  <2>3. CASE ~(k <= Len(a))
    <3>1. k - Len(a) \in 1 .. Len(b) BY <1>2, <2>3
    <3>2. y[k - Len(a)] = b[k - Len(a)].bytes BY <3>1, LineParts
    <3> QED BY <1>1, <2>1, <2>3, <3>2
  <2> QED BY <2>2, <2>3
<1> HIDE DEF x, y, z
<1>4. /\ x \o y \in Seq(Seq(Byte)) /\ Len(x \o y) = Len(a) + Len(b)
      /\ \A k \in 1 .. Len(a) + Len(b) : (x \o y)[k] = IF k <= Len(a) THEN x[k] ELSE y[k - Len(a)]
  <2>1. /\ x \o y \in Seq(Seq(Byte)) /\ Len(x \o y) = Len(x) + Len(y)
        /\ \A k \in 1 .. Len(x) + Len(y) : (x \o y)[k] = IF k <= Len(x) THEN x[k] ELSE y[k - Len(x)]
    <3>1. x \o y \in Seq(Seq(Byte)) BY <1>2, JoinedAt
    <3>2. Len(x \o y) = Len(x) + Len(y) BY <1>2, JoinedAt
    <3>3. \A k \in 1 .. Len(x) + Len(y) : (x \o y)[k] = IF k <= Len(x) THEN x[k] ELSE y[k - Len(x)]
      <4>1. x \in Seq(Seq(Byte)) /\ y \in Seq(Seq(Byte)) BY <1>2
      <4> QED BY <4>1, JoinedAt
    <3> QED BY <3>1, <3>2, <3>3
  <2> QED BY <1>2, <2>1
<1>5. z = x \o y
  <2> DEFINE w == x \o y
  <2>1. \A k \in 1 .. Len(a) + Len(b) : z[k] = w[k] BY <1>3, <1>4
  <2>2. w \in Seq(Seq(Byte)) /\ Len(w) = Len(z) BY <1>2, <1>4
  <2> HIDE DEF w
  <2>3. \A k \in 1 .. Len(z) : z[k] = w[k] BY <1>2, <2>1
  <2>4. z = w BY <1>2, <2>2, <2>3, SeqEqual
  <2> QED BY <2>4 DEF w
<1>6. FlattenSeq(z) = FlattenSeq(x) \o FlattenSeq(y) BY <1>2, <1>5, FlattenConcat
<1>7. FlattenSeq(x) \in Seq(Byte) /\ FlattenSeq(y) \in Seq(Byte) BY <1>2, FlattenType
<1>8. Len(FlattenSeq(z)) = Len(FlattenSeq(x)) + Len(FlattenSeq(y))
      BY <1>6, <1>7, ConcatProperties
<1> QED BY <1>1, <1>5, <1>6, <1>8 DEF c, x, y, z, Bytewise

\* The bytes of a single line, ...
LEMMA OnePart ==
  ASSUME NEW x \in LineType
  PROVE  /\ <<x>> \in Seq(LineType) /\ Len(<<x>>) = 1 /\ Bytewise(<<x>>) = x.bytes
         /\ Upto(<<x>>, 1) = <<>>
<1>1. <<x>> \in Seq(LineType) /\ x.bytes \in Seq(Byte) /\ Len(<<x>>) = 1 BY DEF LineType
<1>2. Parts(<<x>>) = <<x.bytes>> BY DEF Parts
<1>3. FlattenSeq(<<x.bytes>>) = x.bytes BY <1>1, FlattenOne
<1>4. [j \in 1 .. 1 - 1 |-> <<x>>[j].bytes] = <<>> OBVIOUS
<1> QED BY <1>1, <1>2, <1>3, <1>4, FlattenEmpty DEF Bytewise, Upto

\* ... and of none.
LEMMA NoPart == <<>> \in Seq(LineType) /\ Len(<<>>) = 0 /\ Bytewise(<<>>) = <<>>
<1>1. Parts(<<>>) = <<>> BY DEF Parts
<1> QED BY <1>1, FlattenEmpty DEF Bytewise

\* What comes before a line of two listings joined.
LEMMA UptoJoined ==
  ASSUME NEW a \in Seq(LineType), NEW b \in Seq(LineType)
  PROVE  /\ \A k \in 1 .. Len(a) : Upto(a \o b, k) = Upto(a, k)
         /\ \A k \in 1 .. Len(b) :
              Len(Upto(a \o b, Len(a) + k)) = Len(Bytewise(a)) + Len(Upto(b, k))
<1> DEFINE c == a \o b
<1>1. /\ c \in Seq(LineType) /\ Len(c) = Len(a) + Len(b) /\ Len(a) \in Nat /\ Len(b) \in Nat
      /\ \A k \in 1 .. Len(a) + Len(b) : c[k] = IF k <= Len(a) THEN a[k] ELSE b[k - Len(a)]
      BY ConcatProperties, LineParts
<1> HIDE DEF c
<1>2. ASSUME NEW k \in 1 .. Len(a) PROVE Upto(c, k) = Upto(a, k)
  <2>1. \A j \in 1 .. k - 1 : c[j] = a[j] BY <1>1
  <2>2. [j \in 1 .. k - 1 |-> c[j].bytes] = [j \in 1 .. k - 1 |-> a[j].bytes] BY <2>1
  <2> QED BY <2>2 DEF Upto
<1>3. ASSUME NEW k \in 1 .. Len(b)
      PROVE  Len(Upto(c, Len(a) + k)) = Len(Bytewise(a)) + Len(Upto(b, k))
  <2> DEFINE x == Parts(a)
             y == [j \in 1 .. k - 1 |-> b[j].bytes]
             z == [j \in 1 .. (Len(a) + k) - 1 |-> c[j].bytes]
             n == Len(a) + (k - 1)
  <2>1. x \in Seq(Seq(Byte)) /\ Len(x) = Len(a) /\ \A j \in 1 .. Len(a) : x[j] = a[j].bytes
        BY LineParts
  <2>2. n = (Len(a) + k) - 1 /\ n \in Nat /\ k - 1 \in Nat BY <1>1
  <2>3. \A j \in 1 .. k - 1 : b[j].bytes \in Seq(Byte)
    <3>1. \A j \in 1 .. k - 1 : j \in 1 .. Len(b) BY <1>1
    <3> QED BY <3>1, LineParts DEF LineType
  <2>4. \A j \in 1 .. n : c[j].bytes \in Seq(Byte)
    <3>1. \A j \in 1 .. n : j \in 1 .. Len(c) BY <1>1
    <3> QED BY <1>1, <3>1, LineParts DEF LineType
  <2>5. y \in Seq(Seq(Byte)) /\ Len(y) = k - 1 BY <2>2, <2>3, IsASeq, LenProperties
  <2>6. z \in Seq(Seq(Byte)) /\ Len(z) = n BY <2>2, <2>4, IsASeq, LenProperties
  <2>7. \A j \in 1 .. n : z[j] = IF j <= Len(a) THEN x[j] ELSE y[j - Len(a)]
    <3> TAKE j \in 1 .. n
    <3>1. z[j] = c[j].bytes /\ j \in 1 .. Len(a) + Len(b) BY <1>1, <2>2
    <3>2. CASE j <= Len(a)
      <4>1. j \in 1 .. Len(a) BY <1>1, <3>2
      <4> QED BY <1>1, <2>1, <3>1, <3>2, <4>1
    <3>3. CASE ~(j <= Len(a))
      <4>1. j - Len(a) \in 1 .. k - 1 BY <1>1, <3>3
      <4>2. y[j - Len(a)] = b[j - Len(a)].bytes BY <4>1
      <4> QED BY <1>1, <3>1, <3>3, <4>2
    <3> QED BY <3>2, <3>3
  <2> HIDE DEF x, y, z, n
  <2>8. /\ x \o y \in Seq(Seq(Byte)) /\ Len(x \o y) = n
        /\ \A j \in 1 .. n : (x \o y)[j] = IF j <= Len(a) THEN x[j] ELSE y[j - Len(a)]
    <3>1. /\ x \o y \in Seq(Seq(Byte)) /\ Len(x \o y) = Len(x) + Len(y)
          /\ \A j \in 1 .. Len(x) + Len(y) :
               (x \o y)[j] = IF j <= Len(x) THEN x[j] ELSE y[j - Len(x)]
      <4>1. x \o y \in Seq(Seq(Byte)) BY <2>1, <2>5, JoinedAt
      <4>2. Len(x \o y) = Len(x) + Len(y) BY <2>1, <2>5, JoinedAt
      <4>3. \A j \in 1 .. Len(x) + Len(y) :
              (x \o y)[j] = IF j <= Len(x) THEN x[j] ELSE y[j - Len(x)]
            BY <2>1, <2>5, JoinedAt
      <4> QED BY <4>1, <4>2, <4>3
    <3>2. Len(x) + Len(y) = n BY <1>1, <2>1, <2>5 DEF n
    <3> QED BY <2>1, <3>1, <3>2
  <2>9. z = x \o y
    <3> DEFINE w == x \o y
    <3>1. \A j \in 1 .. n : z[j] = w[j] BY <2>7, <2>8
    <3>2. w \in Seq(Seq(Byte)) /\ Len(w) = n BY <2>8
    <3> HIDE DEF w
    <3>3. z = w BY <2>2, <2>6, <3>1, <3>2, SeqEqual
    <3> QED BY <3>3 DEF w
  <2>10. FlattenSeq(z) = FlattenSeq(x) \o FlattenSeq(y) BY <2>1, <2>5, <2>9, FlattenConcat
  <2>11. FlattenSeq(x) \in Seq(Byte) /\ FlattenSeq(y) \in Seq(Byte)
         BY <2>1, <2>5, FlattenType
  <2>12. Len(FlattenSeq(z)) = Len(FlattenSeq(x)) + Len(FlattenSeq(y))
         BY <2>10, <2>11, ConcatProperties
  <2> QED BY <2>12 DEF x, y, z, Upto, Bytewise
<1> QED BY <1>2, <1>3 DEF c

Wrapped(x) == x % 65536

\* The lines from address n on bear the addresses of their bytes.
InOrder(l, n) ==
  \A k \in 1 .. Len(l) :
    l[k].bytes # <<>> => l[k].at = Wrapped(n + Len(Upto(l, k)))

\* Lines in order, then lines in order from where those end.
LEMMA OrderJoined ==
  ASSUME NEW a \in Seq(LineType), NEW b \in Seq(LineType), NEW n \in Nat,
         InOrder(a, n), InOrder(b, n + Len(Bytewise(a)))
  PROVE  InOrder(a \o b, n)
<1> DEFINE c == a \o b
           m == Len(Bytewise(a))
<1>1. /\ Len(c) = Len(a) + Len(b) /\ Len(a) \in Nat /\ Len(b) \in Nat /\ m \in Nat
      /\ \A k \in 1 .. Len(a) + Len(b) : c[k] = IF k <= Len(a) THEN a[k] ELSE b[k - Len(a)]
      BY ConcatProperties, LineParts
<1>2. /\ \A k \in 1 .. Len(a) : Upto(c, k) = Upto(a, k)
      /\ \A k \in 1 .. Len(b) : Len(Upto(c, Len(a) + k)) = m + Len(Upto(b, k))
      BY UptoJoined
<1>3. \A k \in 1 .. Len(b) : Len(Upto(b, k)) \in Nat
  <2> TAKE k \in 1 .. Len(b)
  <2>1. \A j \in 1 .. k - 1 : b[j].bytes \in Seq(Byte)
    <3>1. \A j \in 1 .. k - 1 : j \in 1 .. Len(b) BY <1>1
    <3> QED BY <3>1, LineParts DEF LineType
  <2>2. [j \in 1 .. k - 1 |-> b[j].bytes] \in Seq(Seq(Byte))
    <3>1. k - 1 \in Nat OBVIOUS
    <3> QED BY <2>1, <3>1, IsASeq
  <2> QED BY <2>2, FlattenType, LenProperties DEF Upto
<1> HIDE DEF c, m
<1>4. ASSUME NEW k \in 1 .. Len(c), c[k].bytes # <<>>
      PROVE  c[k].at = Wrapped(n + Len(Upto(c, k)))
  <2>1. CASE k <= Len(a)
    <3>1. k \in 1 .. Len(a) /\ c[k] = a[k] BY <1>1, <2>1
    <3> QED BY <1>2, <1>4, <3>1 DEF InOrder
  <2>2. CASE ~(k <= Len(a))
    <3> DEFINE j == k - Len(a)
    <3>1. j \in 1 .. Len(b) /\ c[k] = b[j] /\ k = Len(a) + j BY <1>1, <2>2
    <3> HIDE DEF j
    <3>2. b[j].at = Wrapped(n + m + Len(Upto(b, j))) BY <1>4, <3>1 DEF InOrder, m
    <3>3. Len(Upto(c, k)) = m + Len(Upto(b, j)) BY <1>2, <3>1
    <3>4. n + m + Len(Upto(b, j)) = n + (m + Len(Upto(b, j))) BY <1>1, <1>3, <3>1
    <3>5. n + Len(Upto(c, k)) = n + m + Len(Upto(b, j)) BY <3>3, <3>4
    <3> QED BY <3>1, <3>2, <3>5
  <2> QED BY <2>1, <2>2
<1> QED BY <1>4 DEF InOrder, c

\* A line at its address, or a label, is in order.
LEMMA OneInOrder ==
  ASSUME NEW x \in LineType, NEW n \in Nat, x.bytes # <<>> => x.at = Wrapped(n)
  PROVE  InOrder(<<x>>, n)
<1>1. Len(<<x>>) = 1 /\ <<x>>[1] = x BY OnePart
<1>2. Len(Upto(<<x>>, 1)) = 0 /\ n + 0 = n BY OnePart
<1>3. \A k \in 1 .. 1 : k = 1 OBVIOUS
<1> QED BY <1>1, <1>2, <1>3 DEF InOrder

\* So is no line at all.
LEMMA NoneInOrder == ASSUME NEW n PROVE InOrder(<<>>, n)
BY DEF InOrder
-----------------------------------------------------------------------------
\* Every byte that fetch() can reach, in the text or past it.
Source == [a \in 0 .. Size + 6 |-> ByteAt(a)]

Given == binary \in Binaries /\ heap \in Heaps

\* A prefix waits with its one byte, which lies before p.
Held ==
  /\ option \in [active : BOOLEAN, bytes : Seq(Byte), adstr : Word, at : Nat]
  /\ ~option.active => option.bytes = <<>>
  /\ option.active => option.at < p /\ option.bytes = <<ByteAt(option.at)>>

Typed ==
  /\ Given /\ TypeOK /\ Held
  /\ lines \in Seq(LineType)
  /\ i < binary.symsize => lines = <<>> /\ ~option.active

\* What the assumptions say of the file and the heap.
LEMMA SourceType ==
  ASSUME Given
  PROVE  /\ Size \in Nat /\ Size <= 65535 /\ Text \in Seq(Byte) /\ binary.symsize \in Word
         /\ Source \in [0 .. Size + 6 -> Byte]
         /\ \A a \in 0 .. Size + 6 : ByteAt(a) \in Byte /\ Source[a] = ByteAt(a)
<1>1. Text \in Seq(Byte) /\ Size <= 65535 /\ Size \in Nat /\ binary.symsize \in Word
      BY BinariesAssumption, LenProperties DEF Given, Text, Size
<1>2. heap \in [1 .. 7 -> Byte] BY HeapsAssumption DEF Given
<1>3. ASSUME NEW a \in 0 .. Size + 6 PROVE ByteAt(a) \in Byte
  <2>1. CASE a < Size
    <3>1. a + 1 \in 1 .. Len(Text) BY <1>1, <2>1 DEF Size
    <3>2. Text[a + 1] \in Byte BY <1>1, <3>1, ElementOfSeq
    <3> QED BY <2>1, <3>2 DEF ByteAt
  <2>2. CASE ~(a < Size)
    <3>1. a - Size + 1 \in 1 .. 7 BY <1>1, <2>2
    <3>2. heap[a - Size + 1] \in Byte BY <1>2, <3>1
    <3> QED BY <2>2, <3>2 DEF ByteAt
  <2> QED BY <2>1, <2>2
<1> QED BY <1>1, <1>3 DEF Source

\* The bytes taken from an address.
LEMMA TakenType ==
  ASSUME Given, NEW a \in Nat, NEW n \in Nat, a + n <= Size + 7
  PROVE  /\ Taken(a, n) \in Seq(Byte) /\ Len(Taken(a, n)) = n
         /\ Taken(a, n) = [k \in 1 .. n |-> Source[a + k - 1]]
         /\ \A k \in 1 .. n : Taken(a, n)[k] = ByteAt(a + k - 1)
         /\ n # 0 => Taken(a, n) # <<>>
<1>1. \A k \in 1 .. n : a + k - 1 \in 0 .. Size + 6 BY SourceType
<1>2. \A k \in 1 .. n : ByteAt(a + k - 1) \in Byte /\ Source[a + k - 1] = ByteAt(a + k - 1)
      BY <1>1, SourceType
<1>3. Taken(a, n) \in Seq(Byte) /\ Len(Taken(a, n)) = n
  <2> DEFINE t == [k \in 1 .. n |-> ByteAt(a + k - 1)]
  <2>1. t \in [1 .. n -> Byte] BY <1>2
  <2> HIDE DEF t
  <2>2. t \in Seq(Byte) BY <2>1, SeqDef
  <2>3. DOMAIN t = 1 .. n BY <2>1
  <2> HIDE DEF t
  <2>4. Len(t) = n BY <2>2, <2>3, LenProperties
  <2> QED BY <2>2, <2>4 DEF Taken, t
<1>4. Taken(a, n) = [k \in 1 .. n |-> Source[a + k - 1]] BY <1>2 DEF Taken
<1>5. \A k \in 1 .. n : Taken(a, n)[k] = ByteAt(a + k - 1) BY DEF Taken
<1>6. n # 0 => Taken(a, n) # <<>> BY <1>3
<1> QED BY <1>3, <1>4, <1>5, <1>6

\* Bytes taken in two goes are bytes taken in one.
LEMMA TakenJoined ==
  ASSUME Given, NEW a \in Nat, NEW n \in Nat, NEW m \in Nat, a + n + m <= Size + 7
  PROVE  Taken(a, n) \o Taken(a + n, m) = Taken(a, n + m)
<1> DEFINE x == Taken(a, n)
           y == Taken(a + n, m)
           z == Taken(a, n + m)
<1>1. a + n <= Size + 7 /\ a + (n + m) <= Size + 7 /\ a + n \in Nat /\ n + m \in Nat
      BY SourceType
<1>2. x \in Seq(Byte) /\ Len(x) = n /\ \A k \in 1 .. n : x[k] = ByteAt(a + k - 1)
      BY <1>1, TakenType
<1>3. y \in Seq(Byte) /\ Len(y) = m /\ \A k \in 1 .. m : y[k] = ByteAt(a + n + k - 1)
      BY <1>1, TakenType
<1>4. z \in Seq(Byte) /\ Len(z) = n + m /\ \A k \in 1 .. n + m : z[k] = ByteAt(a + k - 1)
      BY <1>1, TakenType
<1> HIDE DEF x, y, z
<1>5. x \o y \in Seq(Byte) /\ Len(x \o y) = n + m BY <1>2, <1>3, JoinedAt
<1>6. \A k \in 1 .. Len(x) + Len(y) : (x \o y)[k] = IF k <= Len(x) THEN x[k] ELSE y[k - Len(x)]
  <2>1. x \in Seq(Byte) /\ y \in Seq(Byte) BY <1>2, <1>3
  <2> QED BY <2>1, JoinedAt
<1>7. ASSUME NEW k \in 1 .. n + m PROVE (x \o y)[k] = z[k]
  <2>1. CASE k <= n
    <3>1. k \in 1 .. n BY <2>1
    <3> QED BY <1>2, <1>3, <1>4, <1>6, <2>1, <3>1
  <2>2. CASE ~(k <= n)
    <3>1. k - n \in 1 .. m /\ a + n + (k - n) - 1 = a + k - 1 BY <2>2
    <3>2. y[k - n] = ByteAt(a + k - 1) BY <1>3, <3>1
    <3> QED BY <1>2, <1>3, <1>4, <1>6, <2>2, <3>2
  <2> QED BY <2>1, <2>2
<1>8. x \o y = z
  <2> DEFINE w == x \o y
  <2>1. w \in Seq(Byte) /\ Len(w) = n + m /\ \A k \in 1 .. n + m : w[k] = z[k] BY <1>5, <1>7
  <2> HIDE DEF w
  <2>2. w = z BY <1>4, <2>1, SeqEqual
  <2> QED BY <2>2 DEF w
<1> QED BY <1>8 DEF x, y, z

\* What every pass starts from.
LEMMA PassFacts ==
  ASSUME Typed, Pass
  PROVE  /\ Given /\ p \in Nat /\ p < Size /\ Addr = p /\ Addr \in Word /\ Adstr \in Word
         /\ Size \in Nat /\ Size <= 65535
         /\ Current.size \in 1 .. 6
         /\ Label \in Seq(LineType) /\ Bytewise(Label) = <<>> /\ Waiting \subseteq 0 .. p - 1
         /\ missed \subseteq 0 .. p - 1
<1>1. Given /\ p \in Nat /\ p < Size /\ Size \in Nat /\ Size <= 65535 /\ missed \subseteq 0 .. p - 1
      BY SourceType DEF Typed, TypeOK, Pass
<1>2. Addr = p BY <1>1 DEF Addr
<1>3. Addr \in Word BY <1>1, <1>2, InValues DEF Word
<1>4. Adstr \in Word BY <1>3 DEF Adstr, Typed, Held
<1>5. Ahead \in Bytes
  <2>1. 0 \in Byte BY InValues DEF Byte
  <2>2. ASSUME NEW k \in 0 .. 7 PROVE (IF p + k < Size + 7 THEN ByteAt(p + k) ELSE 0) \in Byte
    <3>1. CASE p + k < Size + 7
      <4>1. p + k \in 0 .. Size + 6 BY <1>1, <3>1
      <4> QED BY <1>1, <3>1, <4>1, SourceType
    <3> QED BY <2>1, <3>1
  <2> QED BY <2>2 DEF Ahead, Bytes
<1>6. Current.size \in 1 .. 6 BY <1>5, DecodedCut DEF Current, Cut
<1>7. Label \in Seq(LineType) /\ Bytewise(Label) = <<>>
  <2>1. CASE Addr \in symbolTable
    <3>1. Label = <<Line("cout", Addr, <<>>)>> BY <2>1 DEF Label
    <3>2. <<>> \in Seq(Byte) OBVIOUS
    <3>3. Line("cout", Addr, <<>>) \in LineType /\ Line("cout", Addr, <<>>).bytes = <<>>
          BY <1>3, <3>2 DEF Line, LineType
    <3> QED BY <3>1, <3>3, OnePart
  <2>2. CASE Addr \notin symbolTable
    <3>1. Label = <<>> BY <2>2 DEF Label
    <3> QED BY <3>1, NoPart
  <2> QED BY <2>1, <2>2
<1>8. Waiting \subseteq 0 .. p - 1 BY <1>1 DEF Waiting, Typed, Held
<1> QED BY <1>1, <1>2, <1>3, <1>4, <1>6, <1>7, <1>8
-----------------------------------------------------------------------------
\* Lines that show the n bytes from address a on, one after the other.
Showing(l, a, n) ==
  /\ l \in Seq(LineType) /\ Bytewise(l) = Taken(a, n) /\ InOrder(l, a)
  /\ \A k \in 1 .. Len(l) :
       l[k].bytes # <<>> /\ (l[k].to = "cerr" => l[k].at = Adstr)

\* No lines show no bytes.
LEMMA ShowingNone == ASSUME NEW a \in Nat PROVE Showing(<<>>, a, 0)
<1>1. Taken(a, 0) = <<>> BY DEF Taken
<1> QED BY <1>1, NoPart, NoneInOrder DEF Showing

\* A line that shows the bytes at its address.
LEMMA ShowingOne ==
  ASSUME Given, NEW a \in Nat, NEW n \in Nat \ {0}, a + n <= Size + 7,
         NEW to \in {"cerr", "cout"}, to = "cerr" => Wrapped(a) = Adstr
  PROVE  Showing(<<Line(to, Wrapped(a), Taken(a, n))>>, a, n)
<1> DEFINE x == Line(to, Wrapped(a), Taken(a, n))
<1>1. Taken(a, n) \in Seq(Byte) /\ Taken(a, n) # <<>> BY TakenType
<1>2. Wrapped(a) \in Word BY InValues DEF Wrapped, Word
<1>3. x \in LineType /\ x.bytes = Taken(a, n) /\ x.at = Wrapped(a) /\ x.to = to
      BY <1>1, <1>2 DEF Line, LineType
<1> HIDE DEF x
<1>4. /\ <<x>> \in Seq(LineType) /\ Len(<<x>>) = 1 /\ Bytewise(<<x>>) = Taken(a, n)
      BY <1>3, OnePart
<1>5. InOrder(<<x>>, a) BY <1>3, OneInOrder
<1>6. \A k \in 1 .. Len(<<x>>) : <<x>>[k] = x BY <1>4
<1> QED BY <1>1, <1>3, <1>4, <1>5, <1>6 DEF Showing, x

\* What two listings show, one after the other.
LEMMA ShowingJoined ==
  ASSUME Given, NEW x, NEW y, NEW a \in Nat, NEW n \in Nat, NEW m \in Nat,
         a + n + m <= Size + 7, Showing(x, a, n), Showing(y, a + n, m)
  PROVE  Showing(x \o y, a, n + m)
<1>1. /\ x \in Seq(LineType) /\ Bytewise(x) = Taken(a, n) /\ InOrder(x, a)
      /\ y \in Seq(LineType) /\ Bytewise(y) = Taken(a + n, m) /\ InOrder(y, a + n)
      BY DEF Showing
<1>2. x \o y \in Seq(LineType) /\ Bytewise(x \o y) = Bytewise(x) \o Bytewise(y)
      BY <1>1, PartsJoined
<1>3. Bytewise(x \o y) = Taken(a, n + m)
  <2>1. Taken(a, n) \o Taken(a + n, m) = Taken(a, n + m) BY TakenJoined
  <2> QED BY <1>1, <1>2, <2>1
<1>4. a + n <= Size + 7 BY SourceType
<1>5. Len(Bytewise(x)) = n BY <1>1, <1>4, TakenType
<1>6. InOrder(x \o y, a) BY <1>1, <1>5, OrderJoined
<1>7. ASSUME NEW k \in 1 .. Len(x \o y)
      PROVE  (x \o y)[k].bytes # <<>> /\ ((x \o y)[k].to = "cerr" => (x \o y)[k].at = Adstr)
  <2>1. /\ \A j \in 1 .. Len(x) + Len(y) : (x \o y)[j] = IF j <= Len(x) THEN x[j] ELSE y[j - Len(x)]
        /\ Len(x \o y) = Len(x) + Len(y) /\ Len(x) \in Nat /\ Len(y) \in Nat
        BY <1>1, ConcatProperties, LineParts
  <2>2. CASE k <= Len(x)
    <3>1. k \in 1 .. Len(x) /\ (x \o y)[k] = x[k] BY <2>1, <2>2
    <3> QED BY <3>1 DEF Showing
  <2>3. CASE ~(k <= Len(x))
    <3> DEFINE j == k - Len(x)
    <3>1. j \in 1 .. Len(y) /\ (x \o y)[k] = y[j] BY <2>1, <2>3
    <3> HIDE DEF j
    <3> QED BY <3>1 DEF Showing
  <2> QED BY <2>2, <2>3
<1> QED BY <1>2, <1>3, <1>6, <1>7 DEF Showing
-----------------------------------------------------------------------------
\* A system call of Unix V6: the lines of its arguments.
V6Argument(k) == Line("cout", Wrapped(p + 2 + 2 * k - 1), Taken(p + 2 + 2 * k - 1, 2))
V6Arguments(n) == [k \in 1 .. n |-> V6Argument(k)]
V6Type == ByteAt(p + 2)
V6Call == Line("cout", Wrapped(p + 2), <<V6Type>>)
V6Lines == <<Line("cerr", Addr, Serialized(2))>>
             \o (IF V6Type \in V6Known THEN <<V6Call>> \o V6Arguments(V6Words(V6Type)) ELSE <<>>)

\* The lines of the arguments show the words after the call.
LEMMA V6ArgumentsShow ==
  ASSUME Given, p \in Nat, NEW n \in 0 .. 2, p + 3 + 2 * n <= Size + 7
  PROVE  Showing(V6Arguments(n), p + 3, 2 * n)
<1>1. 2 \in Nat \ {0} /\ "cout" \in {"cerr", "cout"} /\ "cout" # "cerr" OBVIOUS
<1>2. p + 3 \in Nat /\ p + 3 + 2 = p + 5 /\ p + 5 \in Nat OBVIOUS
<1>3. V6Arguments(0) = <<>> BY DEF V6Arguments
<1>4. p + 2 + 2 * 1 - 1 = p + 3 /\ p + 2 + 2 * 2 - 1 = p + 5 OBVIOUS
<1>5. V6Argument(1) = Line("cout", Wrapped(p + 3), Taken(p + 3, 2))
      /\ V6Argument(2) = Line("cout", Wrapped(p + 5), Taken(p + 5, 2))
      BY <1>4 DEF V6Argument
<1>6. V6Arguments(1) = <<V6Argument(1)>> BY DEF V6Arguments
<1>7. V6Arguments(2) = <<V6Argument(1)>> \o <<V6Argument(2)>>
  <2>1. V6Arguments(2) = <<V6Argument(1), V6Argument(2)>> BY DEF V6Arguments
  <2> QED BY <2>1
<1>8. ASSUME n = 0 PROVE Showing(V6Arguments(n), p + 3, 2 * n)
      BY <1>2, <1>3, <1>8, ShowingNone
<1>9. ASSUME n # 0 PROVE Showing(<<V6Argument(1)>>, p + 3, 2)
  <2>1. p + 3 + 2 <= Size + 7 BY <1>9, SourceType
  <2> QED BY <1>1, <1>2, <1>5, <2>1, ShowingOne
<1>10. ASSUME n = 2 PROVE Showing(<<V6Argument(2)>>, p + 5, 2)
  <2>1. p + 5 + 2 <= Size + 7 BY <1>10, SourceType
  <2> QED BY <1>1, <1>2, <1>5, <2>1, ShowingOne
<1>11. ASSUME n = 2 PROVE Showing(V6Arguments(2), p + 3, 4)
  <2>1. p + 3 + 2 + 2 <= Size + 7 /\ 2 + 2 = 4 BY <1>11, SourceType
  <2>2. Showing(<<V6Argument(1)>>, p + 3, 2) /\ Showing(<<V6Argument(2)>>, p + 3 + 2, 2)
        BY <1>2, <1>9, <1>10, <1>11
  <2> QED BY <1>2, <1>7, <2>1, <2>2, ShowingJoined
<1>12. n = 0 \/ n = 1 \/ n = 2 OBVIOUS
<1>13. ASSUME n = 1 PROVE Showing(V6Arguments(n), p + 3, 2 * n)
       BY <1>6, <1>9, <1>13
<1>14. ASSUME n = 2 PROVE Showing(V6Arguments(n), p + 3, 2 * n)
       BY <1>11, <1>14
<1> QED BY <1>8, <1>12, <1>13, <1>14

\* A pass over a system call: what it writes, takes and leaves out.
LEMMA V6Shows ==
  ASSUME Typed, ListV6
  PROVE  /\ p' = p + 3 + 2 * V6Words(V6Type) /\ V6Words(V6Type) \in 0 .. 2
         /\ p + 3 + 2 * V6Words(V6Type) <= Size + 6
         /\ lines' = lines \o Label \o V6Lines
         /\ ~option.active /\ option' = option
         /\ V6Type \in V6Known =>
              Showing(V6Lines, p, 3 + 2 * V6Words(V6Type)) /\ missed' = missed
         /\ V6Type \notin V6Known =>
              Showing(V6Lines, p, 2) /\ V6Words(V6Type) = 0 /\ missed' = missed \cup {p + 2}
<1> DEFINE n == V6Words(V6Type)
           m == 2 * n
<1>1. /\ 2 \in Nat \ {0} /\ 1 \in Nat \ {0} /\ "cout" # "cerr"
      /\ "cout" \in {"cerr", "cout"} /\ "cerr" \in {"cerr", "cout"}
      OBVIOUS
<1>2. Pass /\ CallsV6 BY DEF ListV6
<1>3. Given /\ p \in Nat /\ p < Size /\ Addr = p /\ Size \in Nat /\ Size <= 65535
      BY <1>2, PassFacts
<1>4. ~option.active /\ option.bytes = <<>> BY <1>2 DEF CallsV6, Typed, Held
<1>5. n \in 0 .. 2 /\ (V6Type \notin V6Known => n = 0) BY DEF V6Words, V6Known
<1>6. /\ lines' = lines \o Label \o V6Lines
      /\ missed' = missed \cup (IF V6Type \in V6Known THEN {} ELSE {p + 2})
      /\ p' = p + 2 + 1 + 2 * n /\ option' = option
  <2>1. lines' = lines \o Label \o V6Lines
        BY DEF ListV6, Write, V6Lines, V6Call, V6Arguments, V6Argument, V6Type, Wrapped
  <2>2. missed' = missed \cup (IF V6Type \in V6Known THEN {} ELSE {p + 2})
        BY DEF ListV6, Missing, V6Type
  <2>3. p' = p + 2 + 1 + 2 * n /\ option' = option BY DEF ListV6, V6Type
  <2> QED BY <2>1, <2>2, <2>3
<1> HIDE DEF n
<1>7. m \in Nat /\ p' = p + 3 + m /\ p + 3 + m <= Size + 6 BY <1>3, <1>5, <1>6
<1>8. Serialized(2) = Taken(p, 2)
  <2>1. Taken(p, 2) \in Seq(Byte) BY <1>3, TakenType
  <2> QED BY <1>4, <2>1 DEF Serialized
<1>9. Wrapped(p) = p /\ Adstr = p BY <1>3, <1>4 DEF Wrapped, Adstr
<1>10. Showing(<<Line("cerr", Addr, Serialized(2))>>, p, 2)
  <2>1. p + 2 <= Size + 7 BY <1>3
  <2>2. Showing(<<Line("cerr", Wrapped(p), Taken(p, 2))>>, p, 2)
    <3>1. Given /\ p \in Nat /\ ("cerr" = "cerr" => Wrapped(p) = Adstr) BY <1>3, <1>9
    <3> QED BY <1>1, <2>1, <3>1, ShowingOne
  <2> QED BY <1>3, <1>8, <1>9, <2>2
<1>11. ASSUME V6Type \in V6Known PROVE Showing(V6Lines, p, 3 + m)
  <2>1. Taken(p + 2, 1) = <<V6Type>>
    <3>1. Taken(p + 2, 1) = [k \in 1 .. 1 |-> ByteAt(p + 2 + k - 1)] BY DEF Taken
    <3>2. p + 2 + 1 - 1 = p + 2 BY <1>3
    <3> QED BY <3>1, <3>2 DEF V6Type
  <2>2. Showing(<<V6Call>>, p + 2, 1)
    <3>1. p + 2 + 1 <= Size + 7 /\ p + 2 \in Nat BY <1>3
    <3>2. Showing(<<Line("cout", Wrapped(p + 2), Taken(p + 2, 1))>>, p + 2, 1)
      <4> DEFINE a == p + 2
      <4>1. Given /\ a \in Nat /\ a + 1 <= Size + 7 BY <1>3, <3>1
      <4> HIDE DEF a
      <4>2. Showing(<<Line("cout", Wrapped(a), Taken(a, 1))>>, a, 1)
            BY <1>1, <4>1, ShowingOne
      <4> QED BY <4>2 DEF a
    <3> QED BY <2>1, <3>2 DEF V6Call
  <2>3. Showing(V6Arguments(n), p + 3, m)
    <3>1. p + 3 + 2 * n <= Size + 7 BY <1>3, <1>7
    <3> QED BY <1>3, <1>5, <3>1, V6ArgumentsShow
  <2> DEFINE args == V6Arguments(n)
  <2> HIDE DEF args, m
  <2>4. Showing(<<V6Call>> \o args, p + 2, 1 + m)
    <3>1. p + 2 + 1 + m <= Size + 7 /\ p + 2 \in Nat /\ p + 2 + 1 = p + 3 BY <1>3, <1>7
    <3> QED BY <1>3, <1>7, <2>2, <2>3, <3>1, ShowingJoined DEF args
  <2> DEFINE rest == <<V6Call>> \o args
             k == 1 + m
  <2>5. k \in Nat /\ p + 2 + k <= Size + 7 /\ 2 + k = 3 + m BY <1>3, <1>7
  <2>6. Showing(rest, p + 2, k) BY <2>4
  <2> HIDE DEF rest, k
  <2>7. Showing(<<Line("cerr", Addr, Serialized(2))>> \o rest, p, 2 + k)
        BY <1>3, <1>10, <2>5, <2>6, ShowingJoined
  <2> QED BY <1>11, <2>5, <2>7 DEF rest, args, n, V6Lines
<1>12. ASSUME V6Type \notin V6Known PROVE V6Lines = <<Line("cerr", Addr, Serialized(2))>>
  <2>1. Serialized(2) \in Seq(Byte) BY <1>3, <1>8, TakenType
  <2>2. <<Line("cerr", Addr, Serialized(2))>> \o <<>> = <<Line("cerr", Addr, Serialized(2))>>
        OBVIOUS
  <2> QED BY <1>12, <2>2 DEF V6Lines
<1>13. V6Type \in V6Known => missed' = missed BY <1>6
<1> QED BY <1>4, <1>5, <1>6, <1>7, <1>10, <1>11, <1>12, <1>13 DEF n
-----------------------------------------------------------------------------
\* The types hold at the start.
LEMMA InitTyped == ASSUME Init PROVE Typed
<1>1. Given BY DEF Init, Given
<1>2. Size \in Nat BY <1>1, SourceType
<1>3. 0 \in Word BY InValues DEF Word
<1>4. <<>> \in Seq(Byte) /\ <<>> \in Seq(LineType) OBVIOUS
<1>5. Held BY <1>3, <1>4 DEF Init, Held, NoOption
<1>6. TypeOK
  <2>1. /\ i = 0 /\ symbolTable = {} /\ p = 0 /\ missed = {} /\ over = FALSE /\ lines = <<>>
        /\ option.active = FALSE /\ option.adstr = 0 /\ option.at = 0
        BY DEF Init, NoOption
  <2>2. 0 \in 0 .. Size + 6 /\ 0 \in 0 .. 0 BY <1>2
  <2>3. \A k \in DOMAIN <<>> : lines[k].at \in Word /\ lines[k].bytes \in Seq(Byte) OBVIOUS
  <2> QED BY <1>3, <2>1, <2>2, <2>3 DEF TypeOK
<1> QED BY <1>1, <1>4, <1>5, <1>6 DEF Init, Typed, NoOption

\* A pass that adds typed lines, moves p on and keeps the prefix in order.
LEMMA PassTyped ==
  ASSUME Typed, Pass, NEW some \in Seq(LineType), lines' = lines \o Label \o some,
         UNCHANGED <<binary, heap, i, symbolTable, over>>,
         p' \in Nat, p < p', p' <= Size + 6, Held', option'.at <= p', missed' \subseteq 0 .. p' - 1
  PROVE  Typed'
<1>1. Given' /\ Size' = Size /\ binary' = binary BY DEF Typed, Given, Size, Text
<1>2. lines' \in Seq(LineType)
  <2>1. lines \in Seq(LineType) /\ Label \in Seq(LineType) BY PassFacts DEF Typed
  <2>2. lines \o Label \in Seq(LineType) BY <2>1, PartsJoined
  <2> QED BY <2>2, PartsJoined
<1>3. \A k \in DOMAIN lines' : lines'[k].at \in Word /\ lines'[k].bytes \in Seq(Byte)
  <2> DEFINE l == lines'
  <2>1. l \in Seq(LineType) BY <1>2
  <2> HIDE DEF l
  <2>2. \A k \in DOMAIN l : l[k].at \in Word /\ l[k].bytes \in Seq(Byte)
        BY <2>1, LineParts DEF LineType
  <2> QED BY <2>2 DEF l
<1>4. TypeOK'
  <2>1. option'.active \in BOOLEAN /\ option'.adstr \in Word /\ option'.at \in 0 .. p'
        BY DEF Held
  <2>2. i' \in Word /\ symbolTable' \subseteq Word /\ over' \in BOOLEAN BY DEF Typed, TypeOK
  <2>3. Size \in Nat BY SourceType DEF Typed
  <2>4. p' \in 0 .. Size + 6 BY <2>3
  <2> QED BY <1>1, <1>3, <2>1, <2>2, <2>4 DEF TypeOK
<1>5. ~(i' < binary'.symsize)
  <2>1. i \in Int /\ binary.symsize \in Int BY SourceType, InValues DEF Typed, TypeOK, Word
  <2> QED BY <1>1, <2>1 DEF Pass, Sweeping
<1> QED BY <1>1, <1>2, <1>4, <1>5 DEF Typed

\* A pass that leaves the prefix alone.
LEMMA HeldOn ==
  ASSUME Typed, option' = option, UNCHANGED <<binary, heap>>, p' \in Nat, p < p'
  PROVE  Held' /\ option'.at <= p'
<1>1. option.at \in Nat /\ p \in Int /\ option.at <= p BY SourceType DEF Typed, TypeOK, Held
<1>2. ByteAt(option.at)' = ByteAt(option.at) BY DEF ByteAt, Text, Size
<1> QED BY <1>1, <1>2 DEF Typed, Held

\* One byte taken.
LEMMA OneTaken == ASSUME NEW a \in Nat PROVE Taken(a, 1) = <<ByteAt(a)>>
<1>1. Taken(a, 1) = [k \in 1 .. 1 |-> ByteAt(a + k - 1)] BY DEF Taken
<1>2. a + 1 - 1 = a OBVIOUS
<1> QED BY <1>1, <1>2

\* The empty sequence adds nothing.
LEMMA EmptyAdds == ASSUME NEW S, NEW s \in Seq(S) PROVE s \o <<>> = s
OBVIOUS

\* The line of an instruction: its bytes after those of the prefix.
LEMMA SerializedType ==
  ASSUME Typed, Pass, NEW n \in 1 .. 6
  PROVE  /\ Serialized(n) \in Seq(Byte) /\ Serialized(n) = option.bytes \o Taken(p, n)
         /\ Taken(p, n) \in Seq(Byte) /\ Len(Serialized(n)) = Len(option.bytes) + n
         /\ Serialized(n) # <<>>
         /\ Line("cerr", Adstr, Serialized(n)) \in LineType
<1>1. Given /\ p \in Nat /\ n \in Nat /\ p + n <= Size + 7 /\ Adstr \in Word
      BY PassFacts
<1>2. Taken(p, n) \in Seq(Byte) /\ Len(Taken(p, n)) = n BY <1>1, TakenType
<1>3. option.bytes \in Seq(Byte) /\ Len(option.bytes) \in Nat BY LenProperties DEF Typed, Held
<1>4. Serialized(n) \in Seq(Byte) /\ Len(Serialized(n)) = Len(option.bytes) + n
      BY <1>2, <1>3, ConcatProperties DEF Serialized
<1>5. Serialized(n) # <<>> BY <1>3, <1>4
<1> QED BY <1>1, <1>2, <1>4, <1>5 DEF Serialized, Line, LineType

\* The lines an action adds after the label.
LastLines == <<Line("cerr", Adstr, Taken(p, 1))>>
ListLines == <<Line("cerr", Adstr, Serialized(Current.size))>>

\* The types after each action, one by one.
LEMMA PrefixTyped == ASSUME Typed, Prefix PROVE Typed'
<1>1. Pass /\ p' = p + 1 /\ UNCHANGED <<binary, heap, i, symbolTable, over>> BY DEF Prefix
<1>2. /\ Given /\ p \in Nat /\ p < Size /\ Adstr \in Word /\ Size \in Nat
      /\ Waiting \subseteq 0 .. p - 1 /\ missed \subseteq 0 .. p - 1
      BY <1>1, PassFacts
<1>3. lines' = lines \o Label \o <<>> BY DEF Prefix, Write
<1>4. option' = [active |-> TRUE, bytes |-> <<ByteAt(p)>>, adstr |-> Adstr, at |-> p]
      BY <1>2, OneTaken DEF Prefix
<1>5. <<ByteAt(p)>> \in Seq(Byte)
  <2>1. ByteAt(p) \in Byte BY <1>2, SourceType
  <2> QED BY <2>1
<1>6. ByteAt(p)' = IF p' < Size THEN Text[p' + 1] ELSE heap[p' - Size + 1]
      BY <1>1 DEF ByteAt, Text, Size
<1>7. Held'
  <2>1. ByteAt(option.at)' = ByteAt(p) BY <1>1, <1>4 DEF ByteAt, Text, Size
  <2>2. option'.active /\ option'.at < p' /\ option'.bytes = <<ByteAt(option.at)'>>
        BY <1>1, <1>2, <1>4, <2>1
  <2>3. option' \in [active : BOOLEAN, bytes : Seq(Byte), adstr : Word, at : Nat]
        BY <1>2, <1>4, <1>5
  <2> QED BY <2>2, <2>3 DEF Held
<1>8. missed' \subseteq 0 .. p' - 1 BY <1>1, <1>2 DEF Prefix, Missing
<1>9. /\ p' \in Nat /\ p < p' /\ p' <= Size + 6 /\ option'.at <= p' /\ <<>> \in Seq(LineType)
      BY <1>1, <1>2, <1>4
<1> QED BY <1>1, <1>3, <1>7, <1>8, <1>9, PassTyped

LEMMA LastByteTyped == ASSUME Typed, LastByte PROVE Typed'
<1>1. /\ Pass /\ p' = p + 1 /\ UNCHANGED <<binary, heap, i, symbolTable, over>>
      /\ option' = option /\ lines' = lines \o Label \o LastLines
      BY DEF LastByte, Write, LastLines
<1>2. /\ Given /\ p \in Nat /\ p < Size /\ Adstr \in Word /\ Size \in Nat
      /\ Waiting \subseteq 0 .. p - 1 /\ missed \subseteq 0 .. p - 1
      BY <1>1, PassFacts
<1>3. p' \in Nat /\ p < p' /\ p' <= Size + 6 BY <1>1, <1>2
<1>4. Held' /\ option'.at <= p' BY <1>1, <1>3, HeldOn
<1>5. LastLines \in Seq(LineType)
  <2>1. Taken(p, 1) \in Seq(Byte) BY <1>2, TakenType
  <2>2. Line("cerr", Adstr, Taken(p, 1)) \in LineType BY <1>2, <2>1 DEF Line, LineType
  <2> QED BY <2>2 DEF LastLines
<1>6. missed' \subseteq 0 .. p' - 1 BY <1>1, <1>2 DEF LastByte, Missing
<1> QED BY <1>1, <1>3, <1>4, <1>5, <1>6, PassTyped

LEMMA ListTyped == ASSUME Typed, List PROVE Typed'
<1>1. /\ Pass /\ p' = p + Current.size /\ UNCHANGED <<binary, heap, i, symbolTable, over>>
      /\ option' = NoOption /\ lines' = lines \o Label \o ListLines /\ missed' = missed
      BY DEF List, Write, ListLines
<1>2. /\ Given /\ p \in Nat /\ p < Size /\ Size \in Nat /\ Current.size \in 1 .. 6
      /\ missed \subseteq 0 .. p - 1
      BY <1>1, PassFacts
<1>3. p' \in Nat /\ p < p' /\ p' <= Size + 6 BY <1>1, <1>2
<1>4. Held' /\ option'.at <= p'
  <2>1. 0 \in Word /\ <<>> \in Seq(Byte) BY InValues DEF Word
  <2> QED BY <1>1, <1>3, <2>1 DEF Held, NoOption
<1>5. ListLines \in Seq(LineType) BY <1>1, <1>2, SerializedType, OnePart DEF ListLines
<1>6. missed' \subseteq 0 .. p' - 1 BY <1>1, <1>2
<1> QED BY <1>1, <1>3, <1>4, <1>5, <1>6, PassTyped

LEMMA PassOverTyped == ASSUME Typed, PassOver PROVE Typed'
<1>1. /\ Pass /\ p' = p + Current.size /\ UNCHANGED <<binary, heap, i, symbolTable, over>>
      /\ option' = option /\ lines' = lines \o Label \o <<>>
      /\ missed' = missed \cup (p .. p + Current.size - 1)
      BY DEF PassOver, Write, Missing
<1>2. /\ Given /\ p \in Nat /\ p < Size /\ Size \in Nat /\ Current.size \in 1 .. 6
      /\ missed \subseteq 0 .. p - 1
      BY <1>1, PassFacts
<1>3. p' \in Nat /\ p < p' /\ p' <= Size + 6 BY <1>1, <1>2
<1>4. Held' /\ option'.at <= p' BY <1>1, <1>3, HeldOn
<1>5. missed' \subseteq 0 .. p' - 1
  <2> DEFINE n == Current.size
  <2>1. p' = p + n /\ n \in 1 .. 6 /\ missed' = missed \cup (p .. p + n - 1) BY <1>1, <1>2
  <2> HIDE DEF n
  <2>2. 0 .. p - 1 \subseteq 0 .. p' - 1 /\ p .. p + n - 1 \subseteq 0 .. p' - 1
        BY <1>2, <2>1
  <2> QED BY <1>2, <2>1, <2>2
<1>6. <<>> \in Seq(LineType) OBVIOUS
<1> QED BY <1>1, <1>3, <1>4, <1>5, <1>6, PassTyped

LEMMA ListV6Typed == ASSUME Typed, ListV6 PROVE Typed'
<1> DEFINE n == V6Words(V6Type)
<1>1. /\ Pass /\ UNCHANGED <<binary, heap, i, symbolTable, over>> BY DEF ListV6
<1>2. /\ Given /\ p \in Nat /\ p < Size /\ Size \in Nat /\ missed \subseteq 0 .. p - 1
      BY <1>1, PassFacts
<1>3. /\ p' = p + 3 + 2 * n /\ n \in 0 .. 2 /\ p + 3 + 2 * n <= Size + 6
      /\ lines' = lines \o Label \o V6Lines /\ option' = option /\ V6Lines \in Seq(LineType)
      /\ missed' = missed \/ missed' = missed \cup {p + 2}
      BY V6Shows DEF Showing
<1> HIDE DEF n
<1>4. p' \in Nat /\ p < p' /\ p' <= Size + 6 /\ p + 2 < p' BY <1>2, <1>3
<1>5. Held' /\ option'.at <= p' BY <1>1, <1>3, <1>4, HeldOn
<1>6. missed' \subseteq 0 .. p' - 1
  <2>1. \A q \in Nat : p + 2 < q => p + 2 \in 0 .. q - 1 /\ \A a \in 0 .. p - 1 : a \in 0 .. q - 1
        BY <1>2
  <2>2. p + 2 \in 0 .. p' - 1 /\ \A a \in 0 .. p - 1 : a \in 0 .. p' - 1 BY <1>4, <2>1
  <2> QED BY <1>2, <1>3, <2>2
<1> QED BY <1>1, <1>3, <1>4, <1>5, <1>6, PassTyped

\* Every step keeps the types.
LEMMA TypedStep == ASSUME Typed, [Next]_vars PROVE Typed'
<1>1. ASSUME ReadSymbol PROVE Typed'
  <2>1. /\ i < binary.symsize /\ UNCHANGED <<binary, heap, p, option, lines, missed, over>>
        /\ symbolTable' = symbolTable \cup ({NamedAt} \ {NoName}) /\ i' = (i + 12) % 65536
        BY <1>1 DEF ReadSymbol
  <2>2. Given /\ lines = <<>> /\ ~option.active /\ i \in Word /\ symbolTable \subseteq Word
        BY <2>1 DEF Typed, TypeOK
  <2>3. NamedAt \in Word \cup {NoName}
    <3>1. binary.symbols \in Seq(Word \cup {NoName}) BY <2>2, BinariesAssumption DEF Given
    <3>2. CASE i % 12 = 0 /\ i \div 12 < Len(binary.symbols)
      <4>1. i \in Nat BY <2>2, InValues DEF Word
      <4>2. i \div 12 + 1 \in 1 .. Len(binary.symbols) BY <3>1, <3>2, <4>1, LenProperties
      <4>3. binary.symbols[i \div 12 + 1] \in Word \cup {NoName} BY <3>1, <4>2, ElementOfSeq
      <4> QED BY <3>2, <4>3 DEF NamedAt
    <3>3. CASE ~(i % 12 = 0 /\ i \div 12 < Len(binary.symbols)) BY <3>3 DEF NamedAt
    <3> QED BY <3>2, <3>3
  <2>4. symbolTable' \subseteq Word BY <2>1, <2>2, <2>3
  <2>5. i' \in Word
    <3>1. i + 12 \in Int BY <2>2, InValues DEF Word
    <3> QED BY <2>1, <3>1, InValues DEF Word
  <2>6. Given' /\ Size' = Size BY <2>1, <2>2 DEF Given, Size, Text
  <2>7. TypeOK' BY <2>1, <2>4, <2>5, <2>6 DEF Typed, TypeOK
  <2>8. Held' BY <2>1 DEF Typed, Held, ByteAt, Text, Size
  <2> QED BY <2>1, <2>2, <2>6, <2>7, <2>8 DEF Typed
<1>2. ASSUME Finish PROVE Typed'
  <2>1. over' = TRUE /\ UNCHANGED <<binary, heap, i, symbolTable, p, option, lines, missed>>
        BY <1>2 DEF Finish
  <2>2. Given' /\ Size' = Size BY <2>1 DEF Typed, Given, Size, Text
  <2>3. TypeOK' BY <2>1, <2>2 DEF Typed, TypeOK
  <2>4. Held' BY <2>1 DEF Typed, Held, ByteAt, Text, Size
  <2> QED BY <2>1, <2>2, <2>3, <2>4 DEF Typed
<1>3. ASSUME UNCHANGED vars PROVE Typed'
  <2>1. UNCHANGED <<binary, heap, i, symbolTable, p, option, lines, missed, over>>
        BY <1>3 DEF vars
  <2>2. Given' /\ Size' = Size BY <2>1 DEF Typed, Given, Size, Text
  <2>3. TypeOK' BY <2>1, <2>2 DEF Typed, TypeOK
  <2>4. Held' BY <2>1 DEF Typed, Held, ByteAt, Text, Size
  <2> QED BY <2>1, <2>2, <2>3, <2>4 DEF Typed
<1> QED BY <1>1, <1>2, <1>3, PrefixTyped, LastByteTyped, ListTyped, PassOverTyped, ListV6Typed
        DEF Next, Returned
-----------------------------------------------------------------------------
\* All that lies between a waiting prefix and p was left out, but not the prefix.
Listed ==
  /\ BytesShownOnce
  /\ option.active /\ p < Size =>
       option.at \notin missed /\ option.at + 1 .. p - 1 \subseteq missed

\* The bytes due are those of the source that were not left out, ...
LEMMA DueIsPicked ==
  ASSUME Given, NEW q \in Nat, q <= Size + 7, NEW X
  PROVE  FlattenSeq([k \in 1 .. q |-> IF k - 1 \in X THEN <<>> ELSE <<ByteAt(k - 1)>>])
           = Picked(Source, q, X)
<1>1. ASSUME NEW k \in 1 .. q PROVE Source[k - 1] = ByteAt(k - 1)
  <2>1. k - 1 \in 0 .. Size + 6 BY SourceType
  <2> QED BY <2>1, SourceType
<1>2. [k \in 1 .. q |-> IF k - 1 \in X THEN <<>> ELSE <<ByteAt(k - 1)>>] =
      [k \in 1 .. q |-> IF k - 1 \in X THEN <<>> ELSE <<Source[k - 1]>>]
      BY <1>1
<1> QED BY <1>2 DEF Picked

\* ... now, ...
LEMMA DueNow == ASSUME Typed PROVE Due = Picked(Source, p, missed \cup Waiting)
<1>1. Given /\ p \in Nat /\ p <= Size + 7 BY SourceType DEF Typed, TypeOK
<1> QED BY <1>1, DueIsPicked DEF Due

\* ... and after a pass.
LEMMA DueNext ==
  ASSUME Typed, UNCHANGED <<binary, heap>>, p' \in Nat, p' <= Size + 7
  PROVE  Due' = Picked(Source, p', missed' \cup Waiting')
<1>1. \A a : ByteAt(a)' = ByteAt(a) BY DEF ByteAt, Text, Size
<1>2. Due' = FlattenSeq([k \in 1 .. p' |->
                           IF k - 1 \in missed' \cup Waiting' THEN <<>> ELSE <<ByteAt(k - 1)'>>])
      BY DEF Due
<1>3. Due' = FlattenSeq([k \in 1 .. p' |->
                           IF k - 1 \in missed' \cup Waiting' THEN <<>> ELSE <<ByteAt(k - 1)>>])
      BY <1>1, <1>2
<1> QED BY <1>3, DueIsPicked DEF Typed

\* What was written is the bytes of the lines.
LEMMA WrittenBytewise == Written = Bytewise(lines)
BY DEF Written, Bytewise, Parts

\* A pass writes the bytes of its lines; its label has none.
LEMMA WrittenNext ==
  ASSUME Typed, Pass, NEW some \in Seq(LineType), lines' = lines \o Label \o some
  PROVE  Written' = Written \o Bytewise(some)
<1>1. Written' = Bytewise(lines') BY DEF Written, Bytewise, Parts
<1>2. lines \in Seq(LineType) /\ Label \in Seq(LineType) /\ Bytewise(Label) = <<>>
      BY PassFacts DEF Typed
<1>3. lines \o Label \in Seq(LineType) /\ Bytewise(lines \o Label) = Bytewise(lines) \o <<>>
  <2>1. /\ lines \o Label \in Seq(LineType)
        /\ Bytewise(lines \o Label) = Bytewise(lines) \o Bytewise(Label)
        BY <1>2, PartsJoined
  <2> QED BY <1>2, <2>1
<1>4. Bytewise(lines) \in Seq(Byte) BY <1>2, LineParts
<1>5. Bytewise(lines) \o <<>> = Bytewise(lines) BY <1>4, EmptyAdds
<1>6. Bytewise((lines \o Label) \o some) = Bytewise(lines \o Label) \o Bytewise(some)
      BY <1>3, PartsJoined
<1> QED BY <1>1, <1>3, <1>5, <1>6, WrittenBytewise

\* A pass after which X is left out instead of missed and Waiting.
LEMMA ShownOn ==
  ASSUME Typed, Listed, Pass, NEW some \in Seq(LineType), lines' = lines \o Label \o some,
         UNCHANGED <<binary, heap>>, p' \in Nat, p' <= Size + 7,
         NEW X, X = missed' \cup Waiting',
         Picked(Source, p', X) = Picked(Source, p, missed \cup Waiting) \o Bytewise(some)
  PROVE  BytesShownOnce'
<1>1. Written' = Written \o Bytewise(some) BY WrittenNext
<1>2. Due' = Picked(Source, p', X) BY DueNext
<1>3. Written = Picked(Source, p, missed \cup Waiting) BY DueNow DEF Listed, BytesShownOnce
<1>4. Written' = Due' BY <1>1, <1>2, <1>3
<1> QED BY <1>4 DEF BytesShownOnce

\* The elements f[n] .. f[q - 1].
Stretch(f, n, q) == [k \in 1 .. q - n |-> f[n + k - 1]]

\* PickedNext and PickedOn, in the form in which they are used.
LEMMA PickedFromTo ==
  \A m \in Nat : \A f \in [0 .. m -> Byte] : \A n \in 0 .. m + 1 : \A q \in n .. m + 1 : \A X :
    /\ (\A a \in n .. q - 1 : a \in X) => Picked(f, q, X) = Picked(f, n, X)
    /\ (\A a \in n .. q - 1 : a \notin X) =>
         Picked(f, q, X) = Picked(f, n, X) \o Stretch(f, n, q)
BY PickedOn DEF Stretch

LEMMA PickedAll ==
  \A m \in Nat : \A f \in [0 .. m -> Byte] : \A n \in 0 .. m + 1 : \A q \in n .. m + 1 : \A X :
    (n .. q - 1) \cap X = {} => Picked(f, q, X) = Picked(f, n, X) \o Stretch(f, n, q)
<1> TAKE m \in Nat
<1> TAKE f \in [0 .. m -> Byte]
<1> TAKE n \in 0 .. m + 1
<1> TAKE q \in n .. m + 1
<1> TAKE X
<1>1. (\A a \in n .. q - 1 : a \notin X) => Picked(f, q, X) = Picked(f, n, X) \o Stretch(f, n, q)
      BY PickedFromTo
<1> QED BY <1>1

LEMMA PickedOneMore ==
  \A m \in Nat : \A f \in [0 .. m -> Byte] : \A n \in 0 .. m : \A X :
    n \notin X => Picked(f, n + 1, X) = Picked(f, n, X) \o <<f[n]>>
BY PickedNext

\* The bytes of a pass are left out, or shown, whole.
LEMMA PickedBeyond ==
  ASSUME Given, p \in Nat, p < Size, NEW n \in 1 .. 7, p + n <= Size + 7, NEW X, NEW Y,
         \A a \in 0 .. p - 1 : a \in X <=> a \in Y
  PROVE  /\ Picked(Source, p, X) \in Seq(Byte)
         /\ p .. p + n - 1 \subseteq Y => Picked(Source, p + n, Y) = Picked(Source, p, X)
         /\ (p .. p + n - 1) \cap Y = {} =>
              Picked(Source, p + n, Y) = Picked(Source, p, X) \o Taken(p, n)
<1> DEFINE m == Size + 6
<1>1. m \in Nat /\ Source \in [0 .. m -> Byte] /\ p \in 0 .. m + 1 /\ n \in Nat /\ p + n <= m + 1
      BY SourceType
<1>2. Taken(p, n) = [k \in 1 .. n |-> Source[p + k - 1]] BY <1>1, TakenType
<1> HIDE DEF m
<1>3. Picked(Source, p, X) = Picked(Source, p, Y) BY PickedSame
<1> DEFINE f == Source
           q == p
           e == p + n
<1> HIDE DEF f, q, e
<1>4. /\ m \in Nat /\ f \in [0 .. m -> Byte] /\ q \in 0 .. m + 1 /\ e \in q .. m + 1
      BY <1>1 DEF f, q, e
<1>5. q .. e - 1 = p .. p + n - 1 /\ 1 .. e - q = 1 .. n BY <1>1 DEF f, q, e
<1>6. (\A a \in q .. e - 1 : a \in Y) => Picked(f, e, Y) = Picked(f, q, Y)
       BY <1>4, PickedFromTo, Zenon
<1>7. (q .. e - 1) \cap Y = {} =>
         Picked(f, e, Y) = Picked(f, q, Y) \o Stretch(f, q, e)
       BY <1>4, PickedAll, Zenon
<1>8. Picked(Source, p, X) \in Seq(Byte) BY <1>1, PickedType
<1>9. p .. p + n - 1 \subseteq Y => Picked(Source, p + n, Y) = Picked(Source, p, X)
      BY <1>3, <1>5, <1>6 DEF f, q, e
<1>10. (p .. p + n - 1) \cap Y = {} =>
        Picked(Source, p + n, Y) = Picked(Source, p, X) \o Taken(p, n)
      BY <1>2, <1>3, <1>5, <1>7 DEF f, q, e, Stretch
<1> QED BY <1>8, <1>9, <1>10

\* The bytes after each action: a prefix is left out as long as it waits, ...
LEMMA PrefixListed == ASSUME Typed, Listed, Prefix PROVE Listed'
<1>1. /\ Pass /\ p' = p + 1 /\ UNCHANGED <<binary, heap>> /\ lines' = lines \o Label \o <<>>
      /\ option'.active /\ option'.at = p /\ missed' = missed \cup Waiting
      BY DEF Prefix, Write, Missing
<1>2. /\ Given /\ p \in Nat /\ p < Size /\ Size \in Nat
      /\ Waiting \subseteq 0 .. p - 1 /\ missed \subseteq 0 .. p - 1
      BY <1>1, PassFacts
<1> DEFINE X == missed \cup Waiting
           Y == missed' \cup Waiting'
<1>3. Y = X \cup {p} BY <1>1 DEF Waiting
<1>4. X \subseteq 0 .. p - 1 BY <1>2
<1> HIDE DEF X, Y
<1>5. \A a \in 0 .. p - 1 : a \in X <=> a \in Y BY <1>2, <1>3
<1>6. p .. p + 1 - 1 \subseteq Y /\ p + 1 <= Size + 7 /\ 1 \in 1 .. 7
  <2>1. p .. p + 1 - 1 = {p} BY <1>2
  <2> QED BY <1>2, <1>3, <2>1
<1>7. Picked(Source, p + 1, Y) = Picked(Source, p, X) /\ Picked(Source, p, X) \in Seq(Byte)
      BY <1>2, <1>5, <1>6, PickedBeyond
<1>8. Picked(Source, p, X) \o Bytewise(<<>>) = Picked(Source, p, X)
      BY <1>7, NoPart, EmptyAdds
<1>9. p' \in Nat /\ p' <= Size + 7 BY <1>1, <1>2
<1>10. BytesShownOnce'
       BY <1>1, <1>7, <1>8, <1>9, NoPart, ShownOn DEF X, Y
<1>11. option'.at \notin missed' BY <1>1, <1>2
<1>12. option'.at + 1 .. p' - 1 = {} BY <1>1, <1>2
<1> QED BY <1>10, <1>11, <1>12 DEF Listed

\* ... the last byte of a text takes none with it, ...
LEMMA LastByteListed == ASSUME Typed, Listed, LastByte PROVE Listed'
<1>1. /\ Pass /\ p' = p + 1 /\ UNCHANGED <<binary, heap>> /\ lines' = lines \o Label \o LastLines
      /\ option' = option /\ missed' = missed \cup Waiting /\ p + 1 = Size
      BY DEF LastByte, Write, Missing, LastLines, CutShort
<1>2. /\ Given /\ p \in Nat /\ p < Size /\ Size \in Nat /\ Adstr \in Word
      /\ Waiting \subseteq 0 .. p - 1 /\ missed \subseteq 0 .. p - 1
      BY <1>1, PassFacts
<1> DEFINE X == missed \cup Waiting
           Y == missed' \cup Waiting'
<1>3. Y = X BY <1>1 DEF Waiting
<1>4. X \subseteq 0 .. p - 1 BY <1>2
<1> HIDE DEF X, Y
<1>5. \A a \in 0 .. p - 1 : a \in X <=> a \in Y BY <1>3
<1>6. (p .. p + 1 - 1) \cap Y = {} /\ p + 1 <= Size + 7 /\ 1 \in 1 .. 7 BY <1>2, <1>3, <1>4
<1>7. Picked(Source, p + 1, Y) = Picked(Source, p, X) \o Taken(p, 1)
      BY <1>2, <1>5, <1>6, PickedBeyond
<1>8. LastLines \in Seq(LineType) /\ Bytewise(LastLines) = Taken(p, 1)
  <2>1. Taken(p, 1) \in Seq(Byte) BY <1>2, TakenType
  <2>2. Line("cerr", Adstr, Taken(p, 1)) \in LineType
        /\ Line("cerr", Adstr, Taken(p, 1)).bytes = Taken(p, 1)
        BY <1>2, <2>1 DEF Line, LineType
  <2> QED BY <2>2, OnePart DEF LastLines
<1>9. p' \in Nat /\ p' <= Size + 7 BY <1>1, <1>2
<1>10. BytesShownOnce' BY <1>1, <1>7, <1>8, <1>9, ShownOn DEF X, Y
<1>11. ~(p' < Size') BY <1>1, <1>2 DEF Size, Text
<1> QED BY <1>10, <1>11 DEF Listed

\* ... an instruction passed over is left out, ...
LEMMA PassOverListed == ASSUME Typed, Listed, PassOver PROVE Listed'
<1> DEFINE n == Current.size
<1>1. /\ Pass /\ p' = p + n /\ UNCHANGED <<binary, heap>> /\ lines' = lines \o Label \o <<>>
      /\ option' = option /\ missed' = missed \cup (p .. p + n - 1)
      BY DEF PassOver, Write, Missing
<1>2. /\ Given /\ p \in Nat /\ p < Size /\ Size \in Nat /\ n \in 1 .. 6
      /\ Waiting \subseteq 0 .. p - 1 /\ missed \subseteq 0 .. p - 1
      BY <1>1, PassFacts
<1> DEFINE X == missed \cup Waiting
           Y == missed' \cup Waiting'
<1> HIDE DEF n
<1>3. Y = X \cup (p .. p + n - 1) BY <1>1 DEF Waiting
<1>4. X \subseteq 0 .. p - 1 BY <1>2
<1> HIDE DEF X, Y
<1>5. \A a \in 0 .. p - 1 : a \in X <=> a \in Y BY <1>2, <1>3
<1>6. p .. p + n - 1 \subseteq Y /\ p + n <= Size + 7 /\ n \in 1 .. 7 BY <1>2, <1>3
<1>7. Picked(Source, p + n, Y) = Picked(Source, p, X) /\ Picked(Source, p, X) \in Seq(Byte)
      BY <1>2, <1>5, <1>6, PickedBeyond
<1>8. Picked(Source, p, X) \o Bytewise(<<>>) = Picked(Source, p, X)
      BY <1>7, NoPart, EmptyAdds
<1>9. p' \in Nat /\ p' <= Size + 7 BY <1>1, <1>2
<1>10. BytesShownOnce'
       BY <1>1, <1>7, <1>8, <1>9, NoPart, ShownOn DEF X, Y
<1>11. ASSUME option.active
       PROVE  option.at \notin missed' /\ option.at + 1 .. p + n - 1 \subseteq missed'
  <2>1. option.at \in Nat /\ option.at < p BY <1>11 DEF Typed, Held
  <2>2. option.at \notin missed /\ option.at + 1 .. p - 1 \subseteq missed
        BY <1>2, <1>11 DEF Listed
  <2>3. \A a \in option.at + 1 .. p + n - 1 : a \in option.at + 1 .. p - 1 \/ a \in p .. p + n - 1
        BY <1>2, <2>1
  <2> QED BY <1>1, <1>2, <2>1, <2>2, <2>3
<1>12. ASSUME option'.active
       PROVE  option'.at \notin missed' /\ option'.at + 1 .. p' - 1 \subseteq missed'
  <2>1. option' = option /\ p' = p + n BY <1>1
  <2>2. option.active BY <1>12, <2>1
  <2>3. option.at \notin missed' /\ option.at + 1 .. p + n - 1 \subseteq missed' BY <1>11, <2>2
  <2>4. option'.at = option.at /\ p' - 1 = p + n - 1 BY <1>2, <2>1
  <2> QED BY <2>3, <2>4
<1> QED BY <1>10, <1>12 DEF Listed

\* ... a line shows the waiting prefix before its own bytes, ...
LEMMA ListListed == ASSUME Typed, Listed, List PROVE Listed'
<1> DEFINE n == Current.size
<1>1. /\ Pass /\ p' = p + n /\ UNCHANGED <<binary, heap>> /\ lines' = lines \o Label \o ListLines
      /\ option' = NoOption /\ missed' = missed
      BY DEF List, Write, ListLines
<1>2. /\ Given /\ p \in Nat /\ p < Size /\ Size \in Nat /\ n \in 1 .. 6
      /\ Waiting \subseteq 0 .. p - 1 /\ missed \subseteq 0 .. p - 1
      BY <1>1, PassFacts
<1>3. /\ ListLines \in Seq(LineType) /\ Bytewise(ListLines) = option.bytes \o Taken(p, n)
      /\ Taken(p, n) \in Seq(Byte)
  <2>1. /\ Line("cerr", Adstr, Serialized(n)) \in LineType
        /\ Serialized(n) = option.bytes \o Taken(p, n) /\ Taken(p, n) \in Seq(Byte)
        BY <1>1, <1>2, SerializedType
  <2>2. Line("cerr", Adstr, Serialized(n)).bytes = Serialized(n) BY DEF Line
  <2> QED BY <2>1, <2>2, OnePart DEF ListLines
<1>4. ~option'.active /\ missed' \cup Waiting' = missed BY <1>1 DEF NoOption, Waiting
<1> HIDE DEF n
<1>5. p' \in Nat /\ p' <= Size + 7 /\ p + n <= Size + 7 /\ n \in 1 .. 7 BY <1>1, <1>2
<1>6. (p .. p + n - 1) \cap missed = {} BY <1>2
<1>7. /\ Picked(Source, p + n, missed) = Picked(Source, p, missed) \o Taken(p, n)
      /\ Picked(Source, p, missed) \in Seq(Byte)
      BY <1>2, <1>5, <1>6, PickedBeyond
<1>8. Picked(Source, p, missed) = Picked(Source, p, missed \cup Waiting) \o option.bytes
  <2>1. CASE ~option.active
    <3>1. missed \cup Waiting = missed /\ option.bytes = <<>> BY <2>1 DEF Waiting, Typed, Held
    <3> QED BY <1>7, <3>1, EmptyAdds
  <2>2. CASE option.active
    <3> DEFINE at == option.at
               X == missed \cup Waiting
               m == Size + 6
    <3>1. /\ X = missed \cup {at} /\ option.bytes = <<ByteAt(at)>> /\ at \in Nat /\ at < p
          /\ at \notin missed /\ at + 1 .. p - 1 \subseteq missed
          BY <1>2, <2>2 DEF Waiting, Typed, Held, Listed
    <3>2. m \in Nat /\ Source \in [0 .. m -> Byte] BY <1>2, SourceType
    <3>3. Source[at] = ByteAt(at)
      <4>1. at \in 0 .. Size + 6 BY <1>2, <3>1
      <4> QED BY <1>2, <4>1, SourceType
    <3>4. at \in 0 .. m /\ p \in Nat /\ p < m BY <1>2, <3>1
    <3> HIDE DEF at, X, m
    <3> DEFINE f == Source
    <3>5. f \in [0 .. m -> Byte] BY <3>2
    <3> HIDE DEF f
    <3> DEFINE b == at + 1
               q == p
    <3>6. /\ at \in 0 .. m + 1 /\ q \in at .. m + 1 /\ b \in 0 .. m + 1 /\ q \in b .. m + 1
          /\ at \in 0 .. m /\ at + 1 = b
          BY <3>1, <3>2, <3>4
    <3>7. (\A a \in at .. q - 1 : a \in X) /\ (\A a \in b .. q - 1 : a \in missed)
      <4>1. \A a \in at .. p - 1 : a = at \/ a \in at + 1 .. p - 1 BY <3>1, <3>4
      <4> QED BY <3>1, <4>1
    <3> HIDE DEF b, q
    <3>8. m \in Nat BY <3>2
    <3>9. Picked(f, q, X) = Picked(f, at, X) BY <3>5, <3>6, <3>7, <3>8, PickedFromTo, Zenon
    <3>10. Picked(f, at, X) = Picked(f, at, missed)
      <4>1. \A a \in 0 .. at - 1 : a \in X <=> a \in missed BY <3>1
      <4> QED BY <3>1, <4>1, PickedSame
    <3>11. Picked(f, b, missed) = Picked(f, at, missed) \o <<f[at]>>
      <4>1. at \notin missed => Picked(f, at + 1, missed) = Picked(f, at, missed) \o <<f[at]>>
            BY <3>5, <3>6, <3>8, PickedOneMore, Zenon
      <4> QED BY <3>1, <3>6, <4>1
    <3>12. Picked(f, q, missed) = Picked(f, b, missed) BY <3>5, <3>6, <3>7, <3>8, PickedFromTo, Zenon
    <3> QED BY <3>1, <3>3, <3>9, <3>10, <3>11, <3>12 DEF f, q, X
  <2> QED BY <2>1, <2>2
<1>9. Picked(Source, p', missed) = Picked(Source, p, missed \cup Waiting) \o Bytewise(ListLines)
  <2> DEFINE s == Picked(Source, p, missed \cup Waiting)
  <2>1. s \in Seq(Byte)
    <3>1. p \in 0 .. (Size + 6) + 1 /\ Size + 6 \in Nat /\ Source \in [0 .. Size + 6 -> Byte]
          BY <1>2, SourceType
    <3> QED BY <3>1, PickedType
  <2>2. option.bytes \in Seq(Byte) BY DEF Typed, Held
  <2> DEFINE t == option.bytes
             u == Taken(p, n)
  <2>3. t \in Seq(Byte) /\ u \in Seq(Byte) BY <1>3, <2>2
  <2> HIDE DEF s, t, u
  <2>4. (s \o t) \o u = s \o (t \o u) BY <2>1, <2>3, ConcatAssociative
  <2> QED BY <1>1, <1>3, <1>7, <1>8, <2>4 DEF s, t, u
<1>10. BytesShownOnce' BY <1>1, <1>3, <1>4, <1>5, <1>9, ShownOn
<1> QED BY <1>4, <1>10 DEF Listed

\* ... and a system call its arguments, if its type is known.
LEMMA ListV6Listed == ASSUME Typed, Listed, ListV6 PROVE Listed'
<1> DEFINE n == V6Words(V6Type)
<1>1. Pass /\ UNCHANGED <<binary, heap>> BY DEF ListV6
<1>2. /\ Given /\ p \in Nat /\ p < Size /\ Size \in Nat /\ missed \subseteq 0 .. p - 1
      BY <1>1, PassFacts
<1>3. /\ p' = p + 3 + 2 * n /\ n \in 0 .. 2 /\ p + 3 + 2 * n <= Size + 6
      /\ lines' = lines \o Label \o V6Lines /\ ~option.active /\ option' = option
      BY V6Shows
<1>4. /\ V6Type \in V6Known => Showing(V6Lines, p, 3 + 2 * n) /\ missed' = missed
      /\ V6Type \notin V6Known =>
           Showing(V6Lines, p, 2) /\ n = 0 /\ missed' = missed \cup {p + 2}
      BY V6Shows
<1> HIDE DEF n
<1>5. Waiting = {} /\ Waiting' = {} /\ ~option'.active BY <1>3 DEF Waiting
<1>6. p' \in Nat /\ p' <= Size + 7 BY <1>2, <1>3
<1>7. CASE V6Type \in V6Known
  <2> DEFINE m == 3 + 2 * n
  <2>1. m \in 1 .. 7 /\ p' = p + m /\ p + m <= Size + 7 BY <1>2, <1>3
  <2>2. V6Lines \in Seq(LineType) /\ Bytewise(V6Lines) = Taken(p, m) /\ missed' = missed
        BY <1>4, <1>7 DEF Showing
  <2> HIDE DEF m
  <2>3. (p .. p + m - 1) \cap missed = {} BY <1>2, <2>1
  <2>4. Picked(Source, p + m, missed) = Picked(Source, p, missed) \o Taken(p, m)
        BY <1>2, <2>1, <2>3, PickedBeyond
  <2>5. missed \cup Waiting = missed /\ missed' \cup Waiting' = missed BY <1>5, <2>2
  <2>6. BytesShownOnce' BY <1>1, <1>3, <1>6, <2>1, <2>2, <2>4, <2>5, ShownOn
  <2> QED BY <1>5, <2>6 DEF Listed
<1>8. CASE V6Type \notin V6Known
  <2> DEFINE Y == missed \cup {p + 2}
             m == Size + 6
             q == p + 2
  <2>1. V6Lines \in Seq(LineType) /\ Bytewise(V6Lines) = Taken(p, 2) /\ missed' = Y /\ n = 0
        BY <1>4, <1>8 DEF Showing
  <2>2. p' = q + 1 /\ p + 2 <= Size + 7 /\ 2 \in 1 .. 7 /\ q \in Y /\ q \in 0 .. m
        /\ m \in Nat /\ Source \in [0 .. m -> Byte]
        BY <1>2, <1>3, <2>1, SourceType
  <2>3. (p .. p + 2 - 1) \cap Y = {} BY <1>2
  <2>4. \A a \in 0 .. p - 1 : a \in missed <=> a \in Y BY <1>2
  <2> HIDE DEF Y, m
  <2>5. Picked(Source, p + 2, Y) = Picked(Source, p, missed) \o Taken(p, 2)
        BY <1>2, <2>2, <2>3, <2>4, PickedBeyond
  <2> HIDE DEF q
  <2>6. Picked(Source, q + 1, Y) = Picked(Source, q, Y) BY <2>2, PickedNext
  <2>7. missed \cup Waiting = missed /\ missed' \cup Waiting' = Y BY <1>5, <2>1
  <2>8. Picked(Source, p', Y) = Picked(Source, p, missed \cup Waiting) \o Bytewise(V6Lines)
        BY <2>1, <2>2, <2>5, <2>6, <2>7 DEF q
  <2>9. BytesShownOnce' BY <1>1, <1>3, <1>6, <2>1, <2>7, <2>8, ShownOn
  <2> QED BY <1>5, <2>9 DEF Listed
<1> QED BY <1>7, <1>8
-----------------------------------------------------------------------------
\* While nothing was left out, p is as far as the bytes written and waiting go.
Counted ==
  missed = {} =>
    /\ InOrder(lines, 0)
    /\ Len(Bytewise(lines)) + Len(option.bytes) = p
    /\ option.active => option.adstr = Wrapped(option.at) /\ p = option.at + 1

\* The bytes before a line.
LEMMA UptoType ==
  ASSUME NEW l \in Seq(LineType), NEW k \in 1 .. Len(l)
  PROVE  Upto(l, k) \in Seq(Byte) /\ Len(Upto(l, k)) \in Nat
<1> DEFINE n == k - 1
           x == [j \in 1 .. n |-> l[j].bytes]
<1>1. n \in Nat /\ \A j \in 1 .. n : j \in 1 .. Len(l) BY LineParts
<1>2. \A j \in 1 .. n : l[j].bytes \in Seq(Byte) BY <1>1, LineParts DEF LineType
<1>3. x \in [1 .. n -> Seq(Byte)] BY <1>2
<1> HIDE DEF n
<1>4. x \in Seq(Seq(Byte))
  <2> HIDE DEF x
  <2> QED BY <1>1, <1>3, SeqDef
<1>5. FlattenSeq(x) \in Seq(Byte)
  <2> HIDE DEF x
  <2> QED BY <1>4, FlattenType
<1> QED BY <1>5, LenProperties DEF Upto, n, x

\* Lines that are in order bear the addresses of their bytes.
LEMMA CountedTrue == ASSUME Typed, Counted PROVE AddressesTrue
<1> SUFFICES ASSUME missed = {}, NEW k \in DOMAIN lines, lines[k].bytes # <<>>
             PROVE  lines[k].at = Len(FlattenSeq([j \in 1 .. k - 1 |-> lines[j].bytes])) % 65536
    BY DEF AddressesTrue
<1>1. lines \in Seq(LineType) /\ k \in 1 .. Len(lines) BY LineParts DEF Typed
<1>2. lines[k].at = Wrapped(0 + Len(Upto(lines, k))) BY <1>1 DEF Counted, InOrder
<1>3. 0 + Len(Upto(lines, k)) = Len(Upto(lines, k)) BY <1>1, UptoType
<1>4. lines[k].at = Wrapped(Len(Upto(lines, k))) BY <1>2, <1>3
<1> QED BY <1>4 DEF Wrapped, Upto

\* A pass whose lines begin where the last byte was written.
LEMMA CountedOn ==
  ASSUME Typed, Pass, NEW some \in Seq(LineType), lines' = lines \o Label \o some,
         InOrder(lines, 0), NEW n, n = Len(Bytewise(lines)), InOrder(some, n)
  PROVE  /\ InOrder(lines', 0) /\ n \in Nat
         /\ Len(Bytewise(lines')) = n + Len(Bytewise(some))
<1>1. lines \in Seq(LineType) /\ Label \in Seq(LineType) /\ Bytewise(Label) = <<>> /\ Addr \in Word
      BY PassFacts DEF Typed
<1> DEFINE both == lines \o Label
<1>2. n \in Nat /\ Bytewise(lines) \in Seq(Byte) BY <1>1, LineParts, LenProperties
<1>3. InOrder(Label, n)
  <2>1. CASE Addr \in symbolTable
    <3> DEFINE x == Line("cout", Addr, <<>>)
    <3>1. <<>> \in Seq(Byte) OBVIOUS
    <3>2. Label = <<x>> /\ x \in LineType /\ x.bytes = <<>>
          BY <1>1, <2>1, <3>1 DEF Label, Line, LineType
    <3> HIDE DEF x
    <3> QED BY <1>2, <3>2, OneInOrder
  <2>2. CASE Addr \notin symbolTable BY <2>2, NoneInOrder DEF Label
  <2> QED BY <2>1, <2>2
<1>4. both \in Seq(LineType) /\ Len(Bytewise(both)) = n
  <2>1. both \in Seq(LineType) /\ Bytewise(both) = Bytewise(lines) \o Bytewise(Label)
        BY <1>1, PartsJoined
  <2>2. Bytewise(lines) \o <<>> = Bytewise(lines) BY <1>2, EmptyAdds
  <2> QED BY <1>1, <2>1, <2>2
<1>5. InOrder(both, 0)
  <2>1. 0 + Len(Bytewise(lines)) = n BY <1>2
  <2> QED BY <1>1, <1>3, <2>1, OrderJoined
<1> HIDE DEF both
<1>6. InOrder(both \o some, 0)
  <2>1. 0 + Len(Bytewise(both)) = n BY <1>2, <1>4
  <2> QED BY <1>4, <1>5, <2>1, OrderJoined
<1>7. Len(Bytewise(both \o some)) = n + Len(Bytewise(some)) BY <1>4, PartsJoined
<1> QED BY <1>2, <1>6, <1>7 DEF both

\* The count at the start, and after each action.
LEMMA InitCounted == ASSUME Init PROVE Counted
<1>1. lines = <<>> /\ p = 0 /\ option.bytes = <<>> /\ ~option.active BY DEF Init, NoOption
<1>2. Len(Bytewise(lines)) + Len(option.bytes) = p BY <1>1, NoPart
<1> QED BY <1>1, <1>2, NoneInOrder DEF Counted

LEMMA PrefixCounted == ASSUME Typed, Counted, Prefix PROVE Counted'
<1> SUFFICES ASSUME missed' = {}
             PROVE  /\ InOrder(lines', 0)
                    /\ Len(Bytewise(lines')) + Len(option'.bytes) = p'
                    /\ option'.adstr = Wrapped(option'.at) /\ p' = option'.at + 1
    BY DEF Counted
<1>1. /\ Pass /\ p' = p + 1 /\ lines' = lines \o Label \o <<>>
      /\ option' = [active |-> TRUE, bytes |-> Taken(p, 1), adstr |-> Adstr, at |-> p]
      /\ missed' = missed \cup Waiting
      BY DEF Prefix, Write, Missing
<1>2. missed = {} /\ ~option.active BY <1>1 DEF Waiting
<1>3. Given /\ p \in Nat /\ p < Size /\ Size \in Nat /\ Size <= 65535 /\ Addr = p
      BY <1>1, PassFacts
<1>4. option.bytes = <<>> BY <1>2 DEF Typed, Held
<1> DEFINE n == Len(Bytewise(lines))
<1>5. InOrder(lines, 0) /\ n + 0 = p BY <1>2, <1>4 DEF Counted
<1> HIDE DEF n
<1>6. InOrder(lines', 0) /\ n \in Nat /\ Len(Bytewise(lines')) = n + 0
  <2>1. <<>> \in Seq(LineType) /\ Len(Bytewise(<<>>)) = 0 BY NoPart
  <2>2. InOrder(<<>>, n) BY NoneInOrder
  <2> QED BY <1>1, <1>5, <2>1, <2>2, CountedOn DEF n
<1>7. option'.bytes = <<ByteAt(p)>> /\ option'.at = p BY <1>1, <1>3, OneTaken
<1>8. option'.adstr = Wrapped(p)
  <2>1. Wrapped(p) = p BY <1>3 DEF Wrapped
  <2> QED BY <1>1, <1>2, <1>3, <2>1 DEF Adstr
<1>9. Len(option'.bytes) = 1 BY <1>7
<1>10. n = p BY <1>5, <1>6
<1>11. Len(Bytewise(lines')) + Len(option'.bytes) = p'
  <2>1. (n + 0) + 1 = p + 1 BY <1>3, <1>10
  <2> QED BY <1>1, <1>6, <1>9, <2>1
<1>12. option'.adstr = Wrapped(option'.at) /\ p' = option'.at + 1 BY <1>1, <1>7, <1>8
<1> QED BY <1>6, <1>11, <1>12

LEMMA LastByteCounted == ASSUME Typed, Counted, LastByte PROVE Counted'
<1> SUFFICES ASSUME missed' = {}
             PROVE  /\ InOrder(lines', 0)
                    /\ Len(Bytewise(lines')) + Len(option'.bytes) = p'
                    /\ ~option'.active
    BY DEF Counted
<1>1. /\ Pass /\ p' = p + 1 /\ lines' = lines \o Label \o LastLines
      /\ option' = option /\ missed' = missed \cup Waiting
      BY DEF LastByte, Write, Missing, LastLines
<1>2. missed = {} /\ ~option.active BY <1>1 DEF Waiting
<1>3. Given /\ p \in Nat /\ p < Size /\ Size \in Nat /\ Size <= 65535 /\ Addr = p
      BY <1>1, PassFacts
<1>4. option.bytes = <<>> BY <1>2 DEF Typed, Held
<1> DEFINE n == Len(Bytewise(lines))
<1>5. InOrder(lines, 0) /\ n + 0 = p BY <1>2, <1>4 DEF Counted
<1>6. Wrapped(p) = p /\ Adstr = p BY <1>2, <1>3 DEF Wrapped, Adstr
<1>7. Showing(LastLines, p, 1)
  <2>1. 1 \in Nat \ {0} /\ "cerr" \in {"cerr", "cout"} OBVIOUS
  <2>2. Given /\ p \in Nat /\ p + 1 <= Size + 7 BY <1>3
  <2>3. "cerr" = "cerr" => Wrapped(p) = Adstr BY <1>6
  <2>4. Showing(<<Line("cerr", Wrapped(p), Taken(p, 1))>>, p, 1)
        BY <2>1, <2>2, <2>3, ShowingOne
  <2> QED BY <1>6, <2>4 DEF LastLines
<1>8. LastLines \in Seq(LineType) /\ Bytewise(LastLines) = Taken(p, 1) /\ InOrder(LastLines, p)
      BY <1>7 DEF Showing
<1>9. Len(Taken(p, 1)) = 1
  <2>1. 1 \in Nat /\ p + 1 <= Size + 7 BY <1>3
  <2>2. \A j \in Nat : p + j <= Size + 7 => Len(Taken(p, j)) = j BY <1>3, TakenType
  <2> QED BY <2>1, <2>2
<1> HIDE DEF n
<1>10. n = p
  <2>1. n \in Nat
    <3>1. Bytewise(lines) \in Seq(Byte) BY LineParts DEF Typed
    <3> QED BY <3>1, LenProperties DEF n
  <2> QED BY <1>5, <2>1
<1>11. InOrder(lines', 0) /\ Len(Bytewise(lines')) = n + 1
       BY <1>1, <1>5, <1>8, <1>9, <1>10, CountedOn DEF n
<1>12. Len(option'.bytes) = 0 BY <1>1, <1>4
<1> QED BY <1>1, <1>2, <1>3, <1>10, <1>11, <1>12

LEMMA ListCounted == ASSUME Typed, Counted, List PROVE Counted'
<1> DEFINE k == Current.size
           x == Line("cerr", Adstr, Serialized(k))
<1> SUFFICES ASSUME missed' = {}
             PROVE  /\ InOrder(lines', 0)
                    /\ Len(Bytewise(lines')) + Len(option'.bytes) = p'
                    /\ ~option'.active
    BY DEF Counted
<1>1. /\ Pass /\ p' = p + k /\ lines' = lines \o Label \o <<x>>
      /\ option' = NoOption /\ missed' = missed
      BY DEF List, Write
<1>2. missed = {} BY <1>1
<1>3. /\ Given /\ p \in Nat /\ p < Size /\ Size \in Nat /\ Size <= 65535 /\ Addr = p
      /\ k \in 1 .. 6
      BY <1>1, PassFacts
<1> DEFINE n == Len(Bytewise(lines))
           b == Len(option.bytes)
<1>4. InOrder(lines, 0) /\ n + b = p BY <1>2 DEF Counted
<1>5. x \in LineType /\ x.bytes = Serialized(k) /\ x.at = Adstr /\ Len(Serialized(k)) = b + k
  <2>1. \A j \in 1 .. 6 : /\ Len(Serialized(j)) = Len(option.bytes) + j
                          /\ Line("cerr", Adstr, Serialized(j)) \in LineType
        BY <1>1, SerializedType
  <2>2. Len(Serialized(k)) = b + k
    <3> HIDE DEF k
    <3> QED BY <1>3, <2>1
  <2>3. x \in LineType BY <1>3, <2>1
  <2> QED BY <2>2, <2>3 DEF Line
<1>6. n \in Nat
  <2>1. Bytewise(lines) \in Seq(Byte) BY LineParts DEF Typed
  <2> QED BY <2>1, LenProperties
<1>7. Adstr = Wrapped(n) /\ b \in Nat
  <2>1. CASE ~option.active
    <3>1. option.bytes = <<>> BY <2>1 DEF Typed, Held
    <3>2. b = 0 BY <3>1
    <3>3. n = p BY <1>4, <1>6, <3>2
    <3>4. Wrapped(p) = p BY <1>3 DEF Wrapped
    <3> QED BY <1>3, <2>1, <3>2, <3>3, <3>4 DEF Adstr
  <2>2. CASE option.active
    <3>1. option.bytes = <<ByteAt(option.at)>> /\ option.at \in Nat BY <2>2 DEF Typed, Held
    <3>2. b = 1 BY <3>1
    <3>3. option.adstr = Wrapped(option.at) /\ p = option.at + 1 BY <1>2, <2>2 DEF Counted
    <3>4. n = option.at BY <1>4, <1>6, <3>1, <3>2, <3>3
    <3> QED BY <2>2, <3>2, <3>3, <3>4 DEF Adstr
  <2> QED BY <2>1, <2>2
<1> HIDE DEF n, b, k, x
<1>8. InOrder(<<x>>, n) BY <1>5, <1>6, <1>7, OneInOrder
<1>9. <<x>> \in Seq(LineType) /\ Len(Bytewise(<<x>>)) = b + k BY <1>5, OnePart
<1>10. InOrder(lines', 0) /\ Len(Bytewise(lines')) = n + Len(Bytewise(<<x>>))
       BY <1>1, <1>4, <1>8, <1>9, CountedOn DEF n
<1>11. Len(option'.bytes) = 0 /\ ~option'.active BY <1>1 DEF NoOption
<1>12. n + (b + k) + 0 = p + k BY <1>3, <1>4, <1>6, <1>7
<1> QED BY <1>1, <1>9, <1>10, <1>11, <1>12

LEMMA PassOverCounted == ASSUME Typed, Counted, PassOver PROVE Counted'
<1>1. Pass /\ missed' = missed \cup (p .. p + Current.size - 1) BY DEF PassOver, Missing
<1>2. p \in Nat /\ Current.size \in 1 .. 6 BY <1>1, PassFacts
<1>3. p \in p .. p + Current.size - 1 BY <1>2
<1>4. missed' # {} BY <1>1, <1>3
<1> QED BY <1>4 DEF Counted

LEMMA ListV6Counted == ASSUME Typed, Counted, ListV6 PROVE Counted'
<1> DEFINE w == V6Words(V6Type)
           m == 3 + 2 * w
           n == Len(Bytewise(lines))
<1> SUFFICES ASSUME missed' = {}
             PROVE  /\ InOrder(lines', 0)
                    /\ Len(Bytewise(lines')) + Len(option'.bytes) = p'
                    /\ ~option'.active
    BY DEF Counted
<1>1. Pass BY DEF ListV6
<1>2. /\ p' = p + 3 + 2 * w /\ w \in 0 .. 2 /\ p + 3 + 2 * w <= Size + 6
      /\ lines' = lines \o Label \o V6Lines /\ ~option.active /\ option' = option
      BY V6Shows
<1>3. Showing(V6Lines, p, m) /\ missed = {}
  <2>1. V6Type \in V6Known
    <3>1. V6Type \notin V6Known => missed' = missed \cup {p + 2} BY V6Shows
    <3> QED BY <3>1
  <2> QED BY <2>1, V6Shows
<1>4. Given /\ p \in Nat /\ p < Size /\ Size \in Nat BY <1>1, PassFacts
<1>5. option.bytes = <<>> BY <1>2 DEF Typed, Held
<1> HIDE DEF w
<1>6. m \in Nat /\ p' = p + m /\ p + m <= Size + 7 BY <1>2, <1>4
<1> HIDE DEF m
<1>7. InOrder(lines, 0) /\ n + 0 = p BY <1>3, <1>5 DEF Counted
<1>8. n = p
  <2>1. n \in Nat
    <3>1. Bytewise(lines) \in Seq(Byte) BY LineParts DEF Typed
    <3> QED BY <3>1, LenProperties
  <2> HIDE DEF n
  <2> QED BY <1>7, <2>1
<1>9. V6Lines \in Seq(LineType) /\ Bytewise(V6Lines) = Taken(p, m) /\ InOrder(V6Lines, p)
      BY <1>3 DEF Showing
<1>10. Len(Taken(p, m)) = m BY <1>4, <1>6, TakenType
<1> HIDE DEF n
<1>11. InOrder(lines', 0) /\ Len(Bytewise(lines')) = n + m
       BY <1>1, <1>2, <1>7, <1>8, <1>9, <1>10, CountedOn DEF n
<1>12. Len(option'.bytes) = 0 /\ ~option'.active BY <1>2, <1>5
<1> QED BY <1>4, <1>6, <1>8, <1>11, <1>12
-----------------------------------------------------------------------------
\* A label at address a among the lines l.
LabelAt(l, a) == \E j \in 1 .. Len(l) : l[j].bytes = <<>> /\ l[j].at = a

\* Labels lie before p, and a waiting prefix that has a name has had its label.
Labelled ==
  /\ LabelsInPlace
  /\ \A k \in 1 .. Len(lines) : lines[k].bytes = <<>> => lines[k].at < p
  /\ option.active /\ option.adstr \in symbolTable => LabelAt(lines, option.adstr)

\* No line, no label.
LEMMA InitLabelled == ASSUME Init PROVE Labelled
<1>1. lines = <<>> /\ ~option.active BY DEF Init, NoOption
<1>2. DOMAIN <<>> = {} /\ 1 .. Len(<<>>) = {} OBVIOUS
<1> QED BY <1>1, <1>2 DEF Labelled, LabelsInPlace

\* The lines of a pass come after the label of the address where it begins, and bear
\* that of their prefix.
LEMMA LabelledOn ==
  ASSUME Typed, Labelled, Pass, NEW some \in Seq(LineType), lines' = lines \o Label \o some,
         symbolTable' = symbolTable, p' \in Nat, p < p',
         \A k \in 1 .. Len(some) :
           some[k].bytes # <<>> /\ (some[k].to = "cerr" => some[k].at = Adstr),
         option'.active => option'.adstr = Adstr \/ option' = option
  PROVE  Labelled'
<1> DEFINE old == lines
           n == Len(old)
           both == old \o Label
           l == both \o some
<1>1. /\ p \in Nat /\ Addr = p /\ Label \in Seq(LineType) /\ old \in Seq(LineType)
      BY PassFacts DEF Typed
<1>2. n \in Nat /\ DOMAIN old = 1 .. n BY <1>1, LineParts
<1>3. /\ Addr \notin symbolTable => both = old
      /\ Addr \in symbolTable => both = Append(old, Line("cout", Addr, <<>>))
  <2>1. old \o <<>> = old BY <1>1, EmptyAdds
  <2>2. <<>> \in Seq(Byte) OBVIOUS
  <2>3. Addr \in Word BY PassFacts
  <2>4. Line("cout", Addr, <<>>) \in LineType BY <2>2, <2>3 DEF Line, LineType
  <2> DEFINE x == Line("cout", Addr, <<>>)
  <2> HIDE DEF x
  <2>5. old \o <<x>> = Append(old, x) BY <1>1, <2>4, AppendIsConcat DEF x
  <2> QED BY <2>1, <2>5 DEF Label, x
<1>4. both \in Seq(LineType) BY <1>1, PartsJoined
<1> DEFINE m == Len(both)
<1>5. m \in Nat /\ n <= m /\ \A k \in 1 .. n : both[k] = old[k]
  <2>1. CASE Addr \notin symbolTable BY <1>2, <1>3, <2>1
  <2>2. CASE Addr \in symbolTable
    <3> DEFINE x == Line("cout", Addr, <<>>)
    <3>1. both = Append(old, x) BY <1>3, <2>2
    <3> HIDE DEF x, both
    <3>2. Len(both) = n + 1 /\ \A k \in 1 .. n : both[k] = old[k] BY <1>1, <3>1
    <3> QED BY <1>2, <3>2
  <2> QED BY <2>1, <2>2
\* What is in both and not in old is the label of Addr.
<1>6. \A k \in 1 .. m : k \notin 1 .. n =>
        /\ Addr \in symbolTable /\ k = n + 1
        /\ both[k].bytes = <<>> /\ both[k].at = Addr /\ both[k].to = "cout"
  <2>1. CASE Addr \notin symbolTable BY <1>3, <2>1
  <2>2. CASE Addr \in symbolTable
    <3> DEFINE x == Line("cout", Addr, <<>>)
    <3>1. both = Append(old, x) BY <1>3, <2>2
    <3>2. x.bytes = <<>> /\ x.at = Addr /\ x.to = "cout" BY DEF Line
    <3> HIDE DEF x, both
    <3>3. Len(both) = n + 1 /\ both[n + 1] = x BY <1>1, <3>1
    <3> QED BY <1>2, <2>2, <3>2, <3>3
  <2> QED BY <2>1, <2>2
<1>7. Addr \in symbolTable => LabelAt(both, Addr)
  <2> SUFFICES ASSUME Addr \in symbolTable PROVE LabelAt(both, Addr) OBVIOUS
  <2> DEFINE x == Line("cout", Addr, <<>>)
  <2>1. both = Append(old, x) BY <1>3
  <2>2. x.bytes = <<>> /\ x.at = Addr BY DEF Line
  <2> HIDE DEF x, both
  <2>3. Len(both) = n + 1 /\ both[n + 1] = x BY <1>1, <2>1
  <2>4. n + 1 \in 1 .. Len(both) BY <1>2, <2>3
  <2> QED BY <2>2, <2>3, <2>4 DEF LabelAt
<1> HIDE DEF both
<1>8. /\ l \in Seq(LineType) /\ Len(l) = m + Len(some) /\ Len(some) \in Nat
      /\ DOMAIN l = 1 .. Len(l)
      /\ \A k \in 1 .. m : l[k] = both[k]
      /\ \A k \in 1 .. Len(l) : k \notin 1 .. m => k - m \in 1 .. Len(some) /\ l[k] = some[k - m]
  <2>1. /\ Len(l) = Len(both) + Len(some) /\ Len(some) \in Nat /\ l \in Seq(LineType)
        /\ \A k \in 1 .. Len(both) + Len(some) :
             l[k] = IF k <= Len(both) THEN both[k] ELSE some[k - Len(both)]
        BY <1>4, ConcatProperties, LineParts
  <2>2. DOMAIN l = 1 .. Len(l) BY <2>1, LineParts
  <2> HIDE DEF l
  <2> QED BY <1>5, <2>1, <2>2
<1>9. lines' = l BY DEF both
<1> HIDE DEF l, m, n, old
\* A label of l is an old one, or that of Addr.
<1>10. ASSUME NEW k \in 1 .. Len(l), l[k].bytes = <<>>
       PROVE  \/ k \in 1 .. n /\ l[k] = old[k]
              \/ k = n + 1 /\ Addr \in symbolTable /\ l[k].at = Addr
  <2>1. k \in 1 .. m
    <3> SUFFICES ASSUME k \notin 1 .. m PROVE FALSE OBVIOUS
    <3>1. k - m \in 1 .. Len(some) /\ l[k] = some[k - m] BY <1>8
    <3> QED BY <1>10, <3>1
  <2>2. l[k] = both[k] BY <1>8, <2>1
  <2>3. CASE k \in 1 .. n
    <3>1. both[k] = old[k] BY <1>5, <2>3
    <3> QED BY <2>2, <2>3, <3>1
  <2>4. CASE k \notin 1 .. n BY <1>6, <2>1, <2>2, <2>4
  <2> QED BY <2>3, <2>4
<1>11. \A k \in 1 .. n : old[k].bytes = <<>> => old[k].at < p BY DEF Labelled, n, old
<1>12. LabelsInPlace BY DEF Labelled
\* The pass begins under a label, if its address has a name.
<1>13. Adstr \in symbolTable => LabelAt(both, Adstr)
  <2> SUFFICES ASSUME Adstr \in symbolTable PROVE LabelAt(both, Adstr) OBVIOUS
  <2>1. CASE option.active
    <3>1. Adstr = option.adstr BY <2>1 DEF Adstr
    <3>2. PICK j \in 1 .. n : old[j].bytes = <<>> /\ old[j].at = Adstr
          BY <2>1, <3>1 DEF Labelled, LabelAt, n, old
    <3>3. j \in 1 .. m /\ both[j] = old[j] BY <1>2, <1>5, <3>2
    <3> QED BY <3>2, <3>3 DEF LabelAt, m
  <2>2. CASE ~option.active
    <3>1. Adstr = Addr BY <2>2 DEF Adstr
    <3> QED BY <1>7, <3>1
  <2> QED BY <2>1, <2>2
<1>14. \A a : LabelAt(both, a) => LabelAt(l, a)
  <2> SUFFICES ASSUME NEW a, LabelAt(both, a) PROVE LabelAt(l, a) OBVIOUS
  <2>1. PICK j \in 1 .. m : both[j].bytes = <<>> /\ both[j].at = a BY DEF LabelAt, m
  <2>2. j \in 1 .. Len(l) /\ l[j] = both[j] BY <1>5, <1>8, <2>1
  <2> QED BY <2>1, <2>2 DEF LabelAt
<1>15. ASSUME NEW k \in 1 .. Len(l), l[k].to = "cerr", l[k].at \in symbolTable
       PROVE  \E j \in 1 .. k - 1 : l[j].bytes = <<>> /\ l[j].at = l[k].at
  <2>1. CASE k \in 1 .. n
    <3>1. l[k] = old[k]
      <4>1. k \in 1 .. m BY <1>2, <1>5, <2>1
      <4>2. both[k] = old[k] BY <1>5, <2>1
      <4> QED BY <1>8, <4>1, <4>2
    <3>2. \E j \in 1 .. k - 1 : old[j].bytes = <<>> /\ old[j].at = old[k].at
      <4>1. k \in DOMAIN old /\ old[k].to = "cerr" /\ old[k].at \in symbolTable
            BY <1>2, <1>15, <2>1, <3>1
      <4> QED BY <1>12, <4>1 DEF LabelsInPlace, old
    <3>3. \A j \in 1 .. k - 1 : l[j] = old[j]
      <4>1. \A j \in 1 .. k - 1 : j \in 1 .. n /\ j \in 1 .. m BY <1>2, <1>5, <2>1
      <4> QED BY <1>5, <1>8, <4>1
    <3> QED BY <3>1, <3>2, <3>3
  <2>2. CASE k \notin 1 .. n /\ k \in 1 .. m
    <3>1. l[k] = both[k] /\ both[k].to = "cout" BY <1>6, <1>8, <2>2
    <3> QED BY <1>15, <3>1
  <2>3. CASE k \notin 1 .. m
    <3>1. k - m \in 1 .. Len(some) /\ l[k] = some[k - m] BY <1>8, <2>3
    <3>2. l[k].at = Adstr BY <1>15, <3>1
    <3>3. PICK j \in 1 .. m : both[j].bytes = <<>> /\ both[j].at = Adstr
          BY <1>13, <1>15, <3>2 DEF LabelAt, m
    <3>4. j \in 1 .. k - 1 /\ l[j] = both[j] BY <1>5, <1>8, <2>3, <3>3
    <3> QED BY <3>2, <3>3, <3>4
  <2> QED BY <2>1, <2>2, <2>3
<1>16. ASSUME NEW k \in 1 .. Len(l), l[k].bytes = <<>> PROVE l[k].at \in symbolTable
  <2>1. CASE k \in 1 .. n /\ l[k] = old[k]
        BY <1>2, <1>12, <1>16, <2>1 DEF LabelsInPlace, old
  <2>2. CASE k = n + 1 /\ Addr \in symbolTable /\ l[k].at = Addr BY <2>2
  <2> QED BY <1>10, <1>16, <2>1, <2>2
<1>17. ASSUME NEW k \in 1 .. Len(l), NEW j \in 1 .. Len(l), j # k, l[k].bytes = <<>>,
              l[j].bytes = <<>>
       PROVE  l[j].at # l[k].at
  <2>1. \/ k \in 1 .. n /\ l[k] = old[k]
        \/ k = n + 1 /\ Addr \in symbolTable /\ l[k].at = Addr
        BY <1>10, <1>17
  <2>2. \/ j \in 1 .. n /\ l[j] = old[j]
        \/ j = n + 1 /\ Addr \in symbolTable /\ l[j].at = Addr
        BY <1>10, <1>17
  <2>3. \A a \in 1 .. n : old[a].bytes = <<>> => old[a].at # p
    <3>1. ~(p < p) BY <1>1
    <3> QED BY <1>11, <3>1
  <2>4. CASE k \in 1 .. n /\ l[k] = old[k] /\ j \in 1 .. n /\ l[j] = old[j]
        BY <1>2, <1>12, <1>17, <2>4 DEF LabelsInPlace, old
  <2>5. CASE k \in 1 .. n /\ l[k] = old[k] /\ j = n + 1 /\ l[j].at = Addr
        BY <1>1, <1>17, <2>3, <2>5
  <2>6. CASE k = n + 1 /\ l[k].at = Addr /\ j \in 1 .. n /\ l[j] = old[j]
        BY <1>1, <1>17, <2>3, <2>6
  <2> QED BY <1>17, <2>1, <2>2, <2>4, <2>5, <2>6
<1>18. LabelsInPlace'
  <2>1. \A k \in 1 .. Len(l) :
          /\ l[k].to = "cerr" /\ l[k].at \in symbolTable =>
               \E j \in 1 .. k - 1 : l[j].bytes = <<>> /\ l[j].at = l[k].at
          /\ l[k].bytes = <<>> =>
               /\ l[k].at \in symbolTable
               /\ \A j \in 1 .. Len(l) \ {k} : l[j].bytes = <<>> => l[j].at # l[k].at
    <3> TAKE k \in 1 .. Len(l)
    <3>1. \A j \in 1 .. Len(l) \ {k} : j \in 1 .. Len(l) /\ j # k OBVIOUS
    <3> QED BY <1>15, <1>16, <1>17, <3>1
  <2> QED BY <1>8, <1>9, <2>1 DEF LabelsInPlace
<1>19. ASSUME NEW k \in 1 .. Len(l), l[k].bytes = <<>> PROVE l[k].at < p'
  <2>1. CASE k \in 1 .. n /\ l[k] = old[k]
    <3>1. l[k].at < p BY <1>11, <1>19, <2>1
    <3>2. l[k].at \in Int
      <4>1. l[k] \in LineType BY <1>8, ElementOfSeq
      <4> QED BY <4>1, InValues DEF LineType, Word
    <3> QED BY <1>1, <3>1, <3>2
  <2>2. CASE l[k].at = Addr BY <1>1, <2>2
  <2> QED BY <1>10, <1>19, <2>1, <2>2
<1>20. option'.active /\ option'.adstr \in symbolTable => LabelAt(l, option'.adstr)
  <2> SUFFICES ASSUME option'.active, option'.adstr \in symbolTable
               PROVE  LabelAt(l, option'.adstr)
      OBVIOUS
  <2>1. option'.adstr = Adstr
    <3>1. CASE option' = option BY <3>1 DEF Adstr
    <3> QED BY <3>1
  <2> QED BY <1>13, <1>14, <2>1
<1> QED BY <1>9, <1>18, <1>19, <1>20 DEF Labelled

\* The inductive invariant.
Inv == Typed /\ Listed /\ Counted /\ Labelled
-----------------------------------------------------------------------------
\* The labels after each action.
LEMMA PrefixLabelled == ASSUME Typed, Typed', Labelled, Prefix PROVE Labelled'
<1>1. /\ Pass /\ p' = p + 1 /\ lines' = lines \o Label \o <<>> /\ symbolTable' = symbolTable
      /\ option' = [active |-> TRUE, bytes |-> Taken(p, 1), adstr |-> Adstr, at |-> p]
      BY DEF Prefix, Write
<1>2. p \in Nat BY <1>1, PassFacts
<1>3. /\ <<>> \in Seq(LineType) /\ p' \in Nat /\ p < p' /\ option'.adstr = Adstr
      /\ 1 .. Len(<<>>) = {}
      BY <1>1, <1>2
<1> DEFINE some == <<>>
<1>4. \A k \in 1 .. Len(some) :
        some[k].bytes # <<>> /\ (some[k].to = "cerr" => some[k].at = Adstr)
      BY <1>3
<1>5. some \in Seq(LineType) /\ lines' = lines \o Label \o some BY <1>1, <1>3
<1> HIDE DEF some
<1> QED BY <1>1, <1>3, <1>4, <1>5, LabelledOn

LEMMA LastByteLabelled == ASSUME Typed, Labelled, LastByte PROVE Labelled'
<1>1. /\ Pass /\ p' = p + 1 /\ lines' = lines \o Label \o LastLines
      /\ symbolTable' = symbolTable /\ option' = option
      BY DEF LastByte, Write, LastLines
<1>2. /\ Given /\ p \in Nat /\ p < Size /\ Adstr \in Word /\ Size \in Nat
      BY <1>1, PassFacts
<1> DEFINE x == Line("cerr", Adstr, Taken(p, 1))
<1>3. x \in LineType /\ x.bytes # <<>> /\ x.at = Adstr
  <2>1. Taken(p, 1) \in Seq(Byte) /\ Taken(p, 1) # <<>> BY <1>2, TakenType
  <2> QED BY <1>2, <2>1 DEF Line, LineType
<1> HIDE DEF x
<1>4. LastLines = <<x>> BY DEF LastLines, x
<1>5. LastLines \in Seq(LineType) BY <1>3, <1>4, OnePart
<1>6. \A k \in 1 .. Len(LastLines) :
        LastLines[k].bytes # <<>> /\ (LastLines[k].to = "cerr" => LastLines[k].at = Adstr)
      BY <1>3, <1>4
<1>7. p' \in Nat /\ p < p' BY <1>1, <1>2
<1> QED BY <1>1, <1>5, <1>6, <1>7, LabelledOn

LEMMA ListLabelled == ASSUME Typed, Labelled, List PROVE Labelled'
<1>1. /\ Pass /\ p' = p + Current.size /\ lines' = lines \o Label \o ListLines
      /\ symbolTable' = symbolTable /\ option' = NoOption
      BY DEF List, Write, ListLines
<1>2. Given /\ p \in Nat /\ Current.size \in 1 .. 6 BY <1>1, PassFacts
<1> DEFINE x == Line("cerr", Adstr, Serialized(Current.size))
<1>3. x \in LineType /\ x.bytes # <<>> /\ x.at = Adstr
  <2>1. x \in LineType /\ Serialized(Current.size) # <<>> BY <1>1, <1>2, SerializedType
  <2> QED BY <2>1 DEF Line
<1> HIDE DEF x
<1>4. ListLines = <<x>> BY DEF ListLines, x
<1>5. ListLines \in Seq(LineType) BY <1>3, <1>4, OnePart
<1>6. \A k \in 1 .. Len(ListLines) :
        ListLines[k].bytes # <<>> /\ (ListLines[k].to = "cerr" => ListLines[k].at = Adstr)
      BY <1>3, <1>4
<1>7. p' \in Nat /\ p < p' /\ ~option'.active BY <1>1, <1>2 DEF NoOption
<1> QED BY <1>1, <1>5, <1>6, <1>7, LabelledOn

LEMMA PassOverLabelled == ASSUME Typed, Labelled, PassOver PROVE Labelled'
<1>1. /\ Pass /\ p' = p + Current.size /\ lines' = lines \o Label \o <<>>
      /\ symbolTable' = symbolTable /\ option' = option
      BY DEF PassOver, Write
<1>2. p \in Nat /\ Current.size \in 1 .. 6 BY <1>1, PassFacts
<1> DEFINE some == <<>>
<1>3. /\ some \in Seq(LineType) /\ lines' = lines \o Label \o some
      /\ p' \in Nat /\ p < p' /\ 1 .. Len(some) = {}
      BY <1>1, <1>2
<1>4. \A k \in 1 .. Len(some) :
        some[k].bytes # <<>> /\ (some[k].to = "cerr" => some[k].at = Adstr)
      BY <1>3
<1> HIDE DEF some
<1> QED BY <1>1, <1>3, <1>4, LabelledOn

LEMMA ListV6Labelled == ASSUME Typed, Labelled, ListV6 PROVE Labelled'
<1> DEFINE n == V6Words(V6Type)
<1>1. Pass /\ symbolTable' = symbolTable BY DEF ListV6
<1>2. p \in Nat BY <1>1, PassFacts
<1>3. /\ p' = p + 3 + 2 * n /\ n \in 0 .. 2 /\ option' = option
      /\ lines' = lines \o Label \o V6Lines
      BY V6Shows
<1>4. /\ V6Lines \in Seq(LineType)
      /\ \A k \in 1 .. Len(V6Lines) :
           V6Lines[k].bytes # <<>> /\ (V6Lines[k].to = "cerr" => V6Lines[k].at = Adstr)
      BY V6Shows DEF Showing
<1> HIDE DEF n
<1>5. p' \in Nat /\ p < p' BY <1>2, <1>3
<1> QED BY <1>1, <1>3, <1>4, <1>5, LabelledOn
-----------------------------------------------------------------------------
\* Reading the symbol table comes before the first line; the end adds none.
LEMMA Unwritten ==
  ASSUME Typed, Listed, Counted, Labelled,
         binary' = binary, heap' = heap, p' = p, option' = option, lines' = lines,
         missed' = missed, symbolTable' # symbolTable => lines = <<>> /\ ~option.active
  PROVE  Listed' /\ Counted' /\ Labelled'
<1>1. Listed'
  <2>1. Waiting' = Waiting /\ Size' = Size /\ \A a : ByteAt(a)' = ByteAt(a)
        BY DEF Waiting, ByteAt, Size, Text
  <2>2. Due' = FlattenSeq([k \in 1 .. p' |->
                 IF k - 1 \in missed' \cup Waiting' THEN <<>> ELSE <<ByteAt(k - 1)'>>])
        BY DEF Due
  <2>3. Due' = Due BY <2>1, <2>2 DEF Due
  <2>4. Written' = Written BY DEF Written
  <2>5. BytesShownOnce' BY <2>3, <2>4 DEF Listed, BytesShownOnce
  <2> QED BY <2>1, <2>5 DEF Listed
<1>2. Counted' BY DEF Counted
<1>3. ASSUME symbolTable' = symbolTable PROVE Labelled' BY <1>3 DEF Labelled, LabelsInPlace, LabelAt
<1>4. ASSUME symbolTable' # symbolTable PROVE Labelled'
  <2>1. DOMAIN <<>> = {} /\ 1 .. Len(<<>>) = {} OBVIOUS
  <2>2. lines' = <<>> /\ ~option'.active BY <1>4
  <2> QED BY <2>1, <2>2 DEF Labelled, LabelsInPlace, LabelAt
<1> QED BY <1>1, <1>2, <1>3, <1>4

\* Nothing is due at the start, and nothing was written.
LEMMA InitListed == ASSUME Init PROVE Listed
<1>1. lines = <<>> /\ p = 0 /\ ~option.active /\ missed = {} BY DEF Init, NoOption
<1>2. Typed BY InitTyped
<1>3. Due = Picked(Source, 0, missed \cup Waiting) BY <1>1, <1>2, DueNow
<1>4. Due = <<>>
  <2>1. Size + 6 \in Nat /\ Source \in [0 .. Size + 6 -> Byte] BY <1>2, SourceType DEF Typed
  <2> QED BY <1>3, <2>1, PickedZero
<1>5. Written = <<>> BY <1>1, NoPart, WrittenBytewise
<1> QED BY <1>1, <1>4, <1>5 DEF Listed, BytesShownOnce
-----------------------------------------------------------------------------
\* The inductive invariant holds at the start ...
LEMMA InvInit == ASSUME Init PROVE Inv
BY InitTyped, InitListed, InitCounted, InitLabelled DEF Inv

\* ... and every step keeps it ...
LEMMA InvStep == ASSUME Inv, [Next]_vars PROVE Inv'
<1>1. Typed /\ Listed /\ Counted /\ Labelled BY DEF Inv
<1>2. Typed' BY <1>1, TypedStep
<1>3. CASE ReadSymbol
  <2>1. lines = <<>> /\ ~option.active BY <1>1, <1>3 DEF Typed, ReadSymbol
  <2> QED BY <1>1, <1>2, <1>3, <2>1, Unwritten DEF ReadSymbol, Inv
<1>4. CASE Prefix
      BY <1>1, <1>2, <1>4, PrefixListed, PrefixCounted, PrefixLabelled DEF Inv
<1>5. CASE LastByte
      BY <1>1, <1>2, <1>5, LastByteListed, LastByteCounted, LastByteLabelled DEF Inv
<1>6. CASE List
      BY <1>1, <1>2, <1>6, ListListed, ListCounted, ListLabelled DEF Inv
<1>7. CASE PassOver
      BY <1>1, <1>2, <1>7, PassOverListed, PassOverCounted, PassOverLabelled DEF Inv
<1>8. CASE ListV6
      BY <1>1, <1>2, <1>8, ListV6Listed, ListV6Counted, ListV6Labelled DEF Inv
<1>9. CASE Finish
  <2>1. /\ binary' = binary /\ heap' = heap /\ p' = p /\ option' = option
        /\ lines' = lines /\ missed' = missed /\ symbolTable' = symbolTable
        BY <1>9 DEF Finish
  <2>2. Listed' /\ Counted' /\ Labelled' BY <1>1, <2>1, Unwritten
  <2> QED BY <1>2, <2>2 DEF Inv
<1>10. CASE UNCHANGED vars
  <2>1. /\ binary' = binary /\ heap' = heap /\ p' = p /\ option' = option
        /\ lines' = lines /\ missed' = missed /\ symbolTable' = symbolTable
        BY <1>10 DEF vars
  <2>2. Listed' /\ Counted' /\ Labelled' BY <1>1, <2>1, Unwritten
  <2> QED BY <1>2, <2>2 DEF Inv
<1> QED BY <1>3, <1>4, <1>5, <1>6, <1>7, <1>8, <1>9, <1>10 DEF Next, Returned

\* ... so it always holds.
LEMMA InvAlways == Spec => []Inv
<1>1. Init => Inv BY InvInit
<1>2. Inv /\ [Next]_vars => Inv' BY InvStep
<1> QED BY <1>1, <1>2, PTL DEF Spec

\* Every variable keeps its type, and no pass reads more than six bytes past the
\* text, whatever the text and the heap behind it.
THEOREM ListingTyped == Spec => []TypeOK
<1>1. Inv => TypeOK BY DEF Inv, Typed
<1> QED BY <1>1, InvAlways, PTL

\* The listing shows the bytes of the text once each and in order, but for the
\* prefixes and instructions that disassm() drops.
THEOREM BytesShown == Spec => []BytesShownOnce
<1>1. Inv => BytesShownOnce BY DEF Inv, Listed
<1> QED BY <1>1, InvAlways, PTL

\* As long as nothing was dropped every line bears the address of its first byte.
THEOREM AddressesRight == Spec => []AddressesTrue
<1>1. Inv => AddressesTrue BY CountedTrue DEF Inv
<1> QED BY <1>1, InvAlways, PTL

\* Labels are those of the symbol table, each before the line at its address and
\* nowhere else.
THEOREM LabelsRight == Spec => []LabelsInPlace
<1>1. Inv => LabelsInPlace BY DEF Inv, Labelled
<1> QED BY <1>1, InvAlways, PTL
=============================================================================

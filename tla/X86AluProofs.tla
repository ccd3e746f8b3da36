---------------------------- MODULE X86AluProofs ----------------------------
(***************************************************************************)
(* What the operators of X86Words and X86Alu return: values of the width   *)
(* asked for and Boolean flags, whatever integers they are given; and that *)
(* each condition, read from the flags of cmp, is the relation it names.   *)
(***************************************************************************)
EXTENDS X86AluRules, TLAPS

LEMMA InValues ==
  ASSUME NEW n \in Nat, NEW v
  PROVE  v \in Values(n) <=> v \in Int /\ 0 <= v /\ v < n
BY DEF Values

LEMMA InWord == ASSUME NEW v PROVE v \in Word <=> v \in Int /\ 0 <= v /\ v < 65536
BY InValues DEF Word

LEMMA InByte == ASSUME NEW v PROVE v \in Byte <=> v \in Int /\ 0 <= v /\ v < 256
BY InValues DEF Byte

LEMMA ByteIsWord == \A v \in Byte : v \in Word
BY InByte, InWord

LEMMA WordIsInt == \A v \in Word : v \in Int
BY InWord

LEMMA ModWord == \A v \in Int : v % 65536 \in Word
BY InWord

LEMMA HalvesAreBytes == \A v \in Int : LowByte(v) \in Byte /\ HighByte(v) \in Byte
BY InByte DEF LowByte, HighByte

LEMMA PairIsWord == \A lo, hi \in Byte : Pair(lo, hi) \in Word
BY InByte, InWord DEF Pair

LEMMA PowerIsPositive == \A n \in 0 .. 16 : Power(n) \in Nat \ {0}
BY DEF Power

\* The two widths.
Widths == {256, 65536}

LEMMA ModFits == \A v \in Int, m \in Widths : v % m \in Values(m)
BY InValues DEF Widths

LEMMA SignedIsInt == \A v \in Int, m \in Widths : Signed(v, m) \in Int
BY DEF Signed, Widths

LEMMA SignExtendIsWord == \A v \in Int : SignExtend(v) \in Word
BY SignedIsInt, ModWord DEF SignExtend, Widths

LEMMA AndIsInt == ASSUME NEW x \in Int, NEW y \in Int PROVE And(x, y) \in Int
<1>1. \A k \in Int : InBoth(x, y, k) \in Int BY DEF InBoth
<1>2. /\ InBoth(x, y, 1) \in Int /\ InBoth(x, y, 2) \in Int
      /\ InBoth(x, y, 4) \in Int /\ InBoth(x, y, 8) \in Int
      /\ InBoth(x, y, 16) \in Int /\ InBoth(x, y, 32) \in Int
      /\ InBoth(x, y, 64) \in Int /\ InBoth(x, y, 128) \in Int
      /\ InBoth(x, y, 256) \in Int /\ InBoth(x, y, 512) \in Int
      /\ InBoth(x, y, 1024) \in Int /\ InBoth(x, y, 2048) \in Int
      /\ InBoth(x, y, 4096) \in Int /\ InBoth(x, y, 8192) \in Int
      /\ InBoth(x, y, 16384) \in Int /\ InBoth(x, y, 32768) \in Int
      BY <1>1
<1> QED BY <1>2 DEF And

LEMMA OrXorAreInt == \A x, y \in Int : Or(x, y) \in Int /\ Xor(x, y) \in Int
BY AndIsInt DEF Or, Xor

LEMMA ShiftsAreInt ==
  ASSUME NEW x \in Int, NEW n \in Nat, NEW m \in Widths
  PROVE  ShiftLeft(x, n, m) \in Int /\ ShiftRight(x, n) \in Int
<1>1. CASE n < 16
  <2>1. n \in 0 .. 16 BY <1>1
  <2>2. Power(n) \in Nat /\ Power(n) > 0 BY <2>1, PowerIsPositive
  <2>3. x * Power(n) \in Int /\ x \div Power(n) \in Int BY <2>2
  <2>4. (x * Power(n)) % m \in Int BY <2>3 DEF Widths
  <2> QED BY <1>1, <2>3, <2>4 DEF ShiftLeft, ShiftRight
<1>2. CASE ~(n < 16) BY <1>2 DEF ShiftLeft, ShiftRight
<1> QED BY <1>1, <1>2
-----------------------------------------------------------------------------
LEMMA OutcomeType ==
  ASSUME NEW v \in Int, NEW o \in BOOLEAN, NEW c \in BOOLEAN, NEW m \in Widths
  PROVE  Outcome(v, o, c, m) \in Outcomes(m)
BY ModFits DEF Outcome, Outcomes, TopBit

LEMMA CarryIsInt == ASSUME NEW f PROVE Carry(f) \in Int
BY DEF Carry

LEMMA OverflowsIsBoolean == ASSUME NEW v, NEW m PROVE Overflows(v, m) \in BOOLEAN
BY DEF Overflows

LEMMA SubType ==
  ASSUME NEW x \in Int, NEW y \in Int, NEW m \in Widths
  PROVE  Sub(x, y, m) \in Outcomes(m)
<1> DEFINE v == Signed(x, m) - Signed(y, m)
<1>1. v \in Int BY SignedIsInt
<1>2. Overflows(v, m) \in BOOLEAN BY OverflowsIsBoolean
<1>3. (x < y) \in BOOLEAN OBVIOUS
<1> HIDE DEF v
<1>4. Outcome(v, Overflows(v, m), x < y, m) \in Outcomes(m) BY <1>1, <1>2, <1>3, OutcomeType
<1> QED BY <1>4 DEF Sub, v

LEMMA AddType ==
  ASSUME NEW x \in Int, NEW y \in Int, NEW m \in Widths
  PROVE  Add(x, y, m) \in Outcomes(m)
<1> DEFINE v == Signed(x, m) + Signed(y, m)
<1>1. v \in Int BY SignedIsInt
<1>2. Overflows(v, m) \in BOOLEAN BY OverflowsIsBoolean
<1>3. (x + y >= m) \in BOOLEAN OBVIOUS
<1> HIDE DEF v
<1>4. Outcome(v, Overflows(v, m), x + y >= m, m) \in Outcomes(m)
      BY <1>1, <1>2, <1>3, OutcomeType
<1> QED BY <1>4 DEF Add, v

LEMMA AdcType ==
  ASSUME NEW x \in Int, NEW y \in Int, NEW f, NEW m \in Widths
  PROVE  Adc(x, y, f, m) \in Outcomes(m)
<1> DEFINE v == Signed(x, m) + Signed(y, m) + Carry(f)
<1>1. v \in Int BY SignedIsInt, CarryIsInt
<1>2. Overflows(v, m) \in BOOLEAN BY OverflowsIsBoolean
<1>3. (x + y + Carry(f) >= m) \in BOOLEAN OBVIOUS
<1> HIDE DEF v
<1>4. Outcome(v, Overflows(v, m), x + y + Carry(f) >= m, m) \in Outcomes(m)
      BY <1>1, <1>2, <1>3, OutcomeType
<1> QED BY <1>4 DEF Adc, v

LEMMA SbbType ==
  ASSUME NEW x \in Int, NEW y \in Int, NEW f, NEW m \in Widths
  PROVE  Sbb(x, y, f, m) \in Outcomes(m)
<1> DEFINE v == Signed(x, m) - Signed(y + Carry(f), m)
<1>1. y + Carry(f) \in Int BY CarryIsInt
<1>2. v \in Int BY <1>1, SignedIsInt
<1>3. Overflows(v, m) \in BOOLEAN BY OverflowsIsBoolean
<1>4. (x < y + Carry(f)) \in BOOLEAN OBVIOUS
<1> HIDE DEF v
<1>5. Outcome(v, Overflows(v, m), x < y + Carry(f), m) \in Outcomes(m)
      BY <1>2, <1>3, <1>4, OutcomeType
<1> QED BY <1>5 DEF Sbb, v

LEMMA IncType ==
  ASSUME NEW x \in Int, NEW f, f.c \in BOOLEAN, NEW m \in Widths
  PROVE  Inc(x, f, m) \in Outcomes(m) /\ Dec(x, f, m) \in Outcomes(m)
<1> DEFINE up == Signed(x, m) + 1
           down == Signed(x, m) - 1
<1>1. up \in Int /\ down \in Int BY SignedIsInt
<1>2. Overflows(up, m) \in BOOLEAN /\ Overflows(down, m) \in BOOLEAN
      BY OverflowsIsBoolean
<1> HIDE DEF up, down
<1>3. Outcome(up, Overflows(up, m), f.c, m) \in Outcomes(m) BY <1>1, <1>2, OutcomeType
<1>4. Outcome(down, Overflows(down, m), f.c, m) \in Outcomes(m)
      BY <1>1, <1>2, OutcomeType
<1> QED BY <1>3, <1>4 DEF Inc, Dec, up, down

LEMMA NegType ==
  ASSUME NEW x \in Int, NEW m \in Widths
  PROVE  Neg(x, m) \in Outcomes(m)
<1> DEFINE v == -Signed(x, m)
<1>1. v \in Int BY SignedIsInt
<1>2. Overflows(v, m) \in BOOLEAN BY OverflowsIsBoolean
<1>3. ((x % m) # 0) \in BOOLEAN OBVIOUS
<1> HIDE DEF v
<1>4. Outcome(v, Overflows(v, m), (x % m) # 0, m) \in Outcomes(m)
      BY <1>1, <1>2, <1>3, OutcomeType
<1> QED BY <1>4 DEF Neg, v

LEMMA LogicType ==
  ASSUME NEW x \in Int, NEW y \in Int, NEW m \in Widths
  PROVE  /\ LogicOr(x, y, m) \in Outcomes(m)
         /\ LogicAnd(x, y, m) \in Outcomes(m)
         /\ LogicXor(x, y, m) \in Outcomes(m)
BY AndIsInt, OrXorAreInt, OutcomeType DEF LogicOr, LogicAnd, LogicXor

LEMMA TwoOperandType ==
  ASSUME NEW x \in Int, NEW y \in Int, NEW f, NEW m \in Widths, NEW k \in 0 .. 7
  PROVE  TwoOperand(k, x, y, f, m) \in Outcomes(m)
BY AddType, AdcType, SbbType, SubType, LogicType DEF TwoOperand
-----------------------------------------------------------------------------
\* What a flags record must hold for the instructions that keep some of them.
AreBooleans(f) ==
  f.z \in BOOLEAN /\ f.s \in BOOLEAN /\ f.o \in BOOLEAN /\ f.c \in BOOLEAN

LEMMA RotatedType ==
  ASSUME NEW v \in Int, NEW o \in BOOLEAN, NEW c \in BOOLEAN, NEW f,
         f.z \in BOOLEAN, f.s \in BOOLEAN, NEW m \in Widths
  PROVE  Rotated(v, o, c, f, m) \in Outcomes(m)
BY ModFits DEF Rotated, Outcomes

LEMMA LastOutIsBoolean ==
  ASSUME NEW x, NEW n, NEW m
  PROVE  LastOutLeft(x, n, m) \in BOOLEAN /\ LastOutRight(x, n) \in BOOLEAN
BY DEF LastOutLeft, LastOutRight

LEMMA RclType ==
  ASSUME NEW x \in Int, NEW n \in Nat, NEW byCL \in BOOLEAN, NEW f, AreBooleans(f),
         NEW m \in Widths
  PROVE  /\ Rcl(x, n, byCL, f, m) \in Outcomes(m)
         /\ RclByteByCL(x, n, f) \in Outcomes(256)
<1> DEFINE v == 2 * (ShiftLeft(x, n, m) \div 2) + Carry(f)
           b == 2 * (ShiftLeft(x, n, 256) \div 2) + (IF LastOutLeft(x, n, 256) THEN 1 ELSE 0)
           o == IF byCL THEN f.o ELSE LastOutLeft(x, n, m) # TopBit(v, m)
<1>0. 256 \in Widths BY DEF Widths
<1>1. v \in Int /\ b \in Int
  <2>1. ShiftLeft(x, n, m) \in Int /\ ShiftLeft(x, n, 256) \in Int BY <1>0, ShiftsAreInt
  <2>2. Carry(f) \in Int BY CarryIsInt
  <2> QED BY <2>1, <2>2
<1>2. f.z \in BOOLEAN /\ f.s \in BOOLEAN /\ f.o \in BOOLEAN BY DEF AreBooleans
<1>3. o \in BOOLEAN
  <2>1. CASE byCL BY <2>1, <1>2
  <2>2. CASE ~byCL BY <2>2
  <2> QED BY <2>1, <2>2
<1>4. LastOutLeft(x, n, m) \in BOOLEAN /\ LastOutLeft(x, n, 256) \in BOOLEAN
      BY LastOutIsBoolean
<1> HIDE DEF v, b, o
<1>5. Rotated(v, o, LastOutLeft(x, n, m), f, m) \in Outcomes(m)
      BY <1>1, <1>2, <1>3, <1>4, RotatedType
<1>6. Rotated(b, f.o, LastOutLeft(x, n, 256), f, 256) \in Outcomes(256)
      BY <1>0, <1>1, <1>2, <1>4, RotatedType
<1> QED BY <1>5, <1>6 DEF Rcl, RclByteByCL, v, b, o

LEMMA RcrType ==
  ASSUME NEW x \in Int, NEW n \in Nat, NEW byCL \in BOOLEAN, NEW f, AreBooleans(f),
         NEW m \in Widths
  PROVE  Rcr(x, n, byCL, f, m) \in Outcomes(m)
<1> DEFINE v == (ShiftRight(x, n) % (m \div 2)) + Carry(f) * (m \div 2)
           next == (v \div (m \div 4)) % 2 = 1
           o == IF byCL THEN f.o ELSE TopBit(v, m) # next
<1>1. v \in Int
  <2>1. ShiftRight(x, n) \in Int BY ShiftsAreInt
  <2>2. Carry(f) \in {0, 1} BY DEF Carry
  <2> QED BY <2>1, <2>2 DEF Widths
<1>2. f.z \in BOOLEAN /\ f.s \in BOOLEAN /\ f.o \in BOOLEAN BY DEF AreBooleans
<1>3. o \in BOOLEAN
  <2>1. CASE byCL BY <2>1, <1>2
  <2>2. CASE ~byCL BY <2>2
  <2> QED BY <2>1, <2>2
<1>4. LastOutRight(x, n) \in BOOLEAN BY LastOutIsBoolean
<1> HIDE DEF v, o
<1>5. Rotated(v, o, LastOutRight(x, n), f, m) \in Outcomes(m)
      BY <1>1, <1>2, <1>3, <1>4, RotatedType
<1> QED BY <1>5 DEF Rcr, v, o

LEMMA ShlType ==
  ASSUME NEW x \in Int, NEW n \in Nat, NEW k, NEW byCL \in BOOLEAN, NEW m \in Widths
  PROVE  Shl(x, n, k, byCL, m) \in Outcomes(m)
<1> DEFINE v == ShiftLeft(x, n, m)
           out == LastOutLeft(x, IF byCL /\ m = 256 THEN 1 ELSE k, m)
<1>1. v \in Int BY ShiftsAreInt
<1>2. out \in BOOLEAN BY LastOutIsBoolean
<1>3. (TopBit(v, m) # out) \in BOOLEAN OBVIOUS
<1> HIDE DEF v, out
<1>4. Outcome(v, TopBit(v, m) # out, out, m) \in Outcomes(m) BY <1>1, <1>2, <1>3, OutcomeType
<1> QED BY <1>4 DEF Shl, v, out

LEMMA ShrType ==
  ASSUME NEW x \in Int, NEW n \in Nat, NEW k, NEW byCL \in BOOLEAN, NEW f, AreBooleans(f),
         NEW m \in Widths
  PROVE  Shr(x, n, k, byCL, f, m) \in Outcomes(m)
<1> DEFINE v == ShiftRight(x, n)
           o == IF byCL THEN f.o ELSE TopBit(x, m)
<1>1. v \in Int BY ShiftsAreInt
<1>2. o \in BOOLEAN
  <2>1. CASE byCL BY <2>1 DEF AreBooleans
  <2>2. CASE ~byCL BY <2>2 DEF TopBit
  <2> QED BY <2>1, <2>2
<1>3. LastOutRight(x, k) \in BOOLEAN BY LastOutIsBoolean
<1> HIDE DEF v, o
<1>4. Outcome(v, o, LastOutRight(x, k), m) \in Outcomes(m) BY <1>1, <1>2, <1>3, OutcomeType
<1> QED BY <1>4 DEF Shr, v, o

LEMMA ShrByteByCLType ==
  ASSUME NEW x \in Int, NEW k, NEW f, AreBooleans(f), NEW w \in Word
  PROVE  ShrByteByCL(x, k, f, w) \in Outcomes(256)
<1>1. x % 256 \in Values(256) BY ModFits DEF Widths
<1>2. f.o \in BOOLEAN BY DEF AreBooleans
<1>3. LastOutRight(x, k) \in BOOLEAN BY LastOutIsBoolean
<1>4. TopBit(w, 65536) \in BOOLEAN BY DEF TopBit
<1> QED BY <1>1, <1>2, <1>3, <1>4 DEF ShrByteByCL, Outcomes

LEMMA SarType ==
  ASSUME NEW x \in Int, NEW n \in Nat, NEW k, NEW byCL \in BOOLEAN, NEW f, AreBooleans(f),
         NEW m \in Widths
  PROVE  Sar(x, n, k, byCL, f, m) \in Outcomes(m)
<1> DEFINE places == IF n < 16 THEN n ELSE 16
           v == Signed(x, m) \div Power(places)
           out == LastOutRight(Signed(x, m) % 65536, k)
<1>1. v \in Int
  <2>1. places \in 0 .. 16 OBVIOUS
  <2>2. Power(places) \in Nat /\ Power(places) > 0 BY <2>1, PowerIsPositive
  <2>3. Signed(x, m) \in Int BY SignedIsInt
  <2> QED BY <2>2, <2>3
<1>2. out \in BOOLEAN BY LastOutIsBoolean
<1>3. (byCL /\ f.o) \in BOOLEAN BY DEF AreBooleans
<1> HIDE DEF v, out
<1>4. Outcome(v, byCL /\ f.o, out, m) \in Outcomes(m) BY <1>1, <1>2, <1>3, OutcomeType
<1> QED BY <1>4 DEF Sar, v, out, places
-----------------------------------------------------------------------------
\* The products and quotients are words, and so is every remainder.
LEMMA ProductsAreWords ==
  \A x, y \in Word : LowProduct(x, y) \in Word /\ HighProduct(x, y) \in Word
<1> SUFFICES ASSUME NEW x \in Word, NEW y \in Word
             PROVE  LowProduct(x, y) \in Word /\ HighProduct(x, y) \in Word
    OBVIOUS
<1> DEFINE low == (x % 256) * y
           high == (x \div 256) * y
<1>1. x \in Int /\ y \in Int BY WordIsInt
<1>2. low \in Int /\ high \in Int BY <1>1
<1> HIDE DEF low, high
<1>3. /\ (low + (high % 256) * 256) % 65536 \in Word
      /\ (high \div 256 + (low + (high % 256) * 256) \div 65536) % 65536 \in Word
      BY <1>2, ModWord
<1> QED BY <1>3 DEF LowProduct, HighProduct, low, high

LEMMA QuotientIsWord ==
  ASSUME NEW hi \in Word, NEW lo \in Word, NEW n \in Word, n # 0
  PROVE  Quotient(hi, lo, n) \in Word /\ Remainder(hi, lo, n) \in Word
<1> DEFINE t == (hi % n) * 256 + HighByte(lo)
           u == (t % n) * 256 + LowByte(lo)
<1>1. n \in Nat /\ 0 < n /\ n < 65536 /\ hi \in Int /\ lo \in Int BY InWord
<1>2. HighByte(lo) \in Int /\ LowByte(lo) \in Int BY <1>1 DEF HighByte, LowByte
<1>3. t \in Int BY <1>1, <1>2
<1> HIDE DEF t
<1>4. u \in Int BY <1>1, <1>2, <1>3
<1> HIDE DEF u
<1>5. t \div n \in Int /\ u \div n \in Int BY <1>1, <1>3, <1>4
<1>6. ((t \div n) * 256 + u \div n) % 65536 \in Word BY <1>5, ModWord
<1>7. u % n \in Int /\ 0 <= u % n /\ u % n < n BY <1>1, <1>4
<1>8. u % n \in Word BY <1>1, <1>7, InWord
<1> QED BY <1>6, <1>8 DEF Quotient, Remainder, t, u

LEMMA SignedQuotientIsWord ==
  ASSUME NEW hi \in Word, NEW lo \in Word, NEW n \in Word, n # 0
  PROVE  SignedQuotient(hi, lo, n) \in Word /\ SignedRemainder(hi, lo, n) \in Word
<1> DEFINE h == MagnitudeHigh(hi, lo)
           l == MagnitudeLow(hi, lo)
           d == Magnitude(n, 65536)
<1>1. h \in Word /\ l \in Word
  <2>1. hi \in Int /\ lo \in Int BY WordIsInt
  <2>2. (65536 - lo) % 65536 \in Word BY <2>1, ModWord
  <2>3. (65535 - hi + (IF lo = 0 THEN 1 ELSE 0)) % 65536 \in Word BY <2>1, ModWord
  <2> QED BY <2>2, <2>3 DEF MagnitudeHigh, MagnitudeLow
<1>2. d \in Word /\ d # 0 BY InWord DEF Magnitude, TopBit
<1> HIDE DEF h, l, d
<1>3. Quotient(h, l, d) \in Word /\ Remainder(h, l, d) \in Word
      BY <1>1, <1>2, QuotientIsWord
<1>4. (-Quotient(h, l, d)) % 65536 \in Word /\ (-Remainder(h, l, d)) % 65536 \in Word
      BY <1>3, InWord
<1> QED BY <1>3, <1>4 DEF SignedQuotient, SignedRemainder, h, l, d
-----------------------------------------------------------------------------
\* What C, Z and S # O say of two operands that were subtracted.
LEMMA ComparisonFlags ==
  ASSUME NEW m \in Widths, NEW x \in Values(m), NEW y \in Values(m)
  PROVE  /\ Sub(x, y, m).c = (x < y)
         /\ Sub(x, y, m).z = (x = y)
         /\ (Sub(x, y, m).s # Sub(x, y, m).o) = (Signed(x, m) < Signed(y, m))
<1>1. x \in Int /\ 0 <= x /\ x < m /\ y \in Int /\ 0 <= y /\ y < m
      BY InValues DEF Widths
<1> DEFINE v == Signed(x, m) - Signed(y, m)
<1>2. v \in Int BY <1>1, SignedIsInt
<1>3. Sub(x, y, m) = Outcome(v, Overflows(v, m), x < y, m) BY DEF Sub
<1>4. /\ Sub(x, y, m).c = (x < y)
      /\ Sub(x, y, m).z = ((v % m) = 0)
      /\ Sub(x, y, m).s = TopBit(v % m, m)
      /\ Sub(x, y, m).o = Overflows(v, m)
      BY <1>3 DEF Outcome
<1>5. ((v % m) = 0) = (x = y)
  <2>1. CASE m = 256 BY <1>1, <2>1 DEF Signed
  <2>2. CASE m = 65536 BY <1>1, <2>2 DEF Signed
  <2> QED BY <2>1, <2>2 DEF Widths
<1>6. (TopBit(v % m, m) # Overflows(v, m)) = (Signed(x, m) < Signed(y, m))
  <2>1. CASE m = 256 BY <1>1, <2>1 DEF Signed, TopBit, Overflows
  <2>2. CASE m = 65536 BY <1>1, <2>2 DEF Signed, TopBit, Overflows
  <2> QED BY <2>1, <2>2 DEF Widths
<1> QED BY <1>4, <1>5, <1>6

\* Each condition of the jumps, read from the flags of cmp, is its relation.
LEMMA CompareDecides ==
  ASSUME NEW m \in Widths, NEW x \in Values(m), NEW y \in Values(m), NEW cc \in Conditions
  PROVE  Holds(cc, Sub(x, y, m)) <=> Relation(cc, x, y, m)
<1> DEFINE d == Sub(x, y, m)
<1>1. x \in Int /\ y \in Int BY InValues DEF Widths
<1>2. Signed(x, m) \in Int /\ Signed(y, m) \in Int BY <1>1, SignedIsInt
<1>3. d.c = (x < y) /\ d.z = (x = y) /\ (d.s # d.o) = (Signed(x, m) < Signed(y, m))
      BY ComparisonFlags
<1>4. d.c \in BOOLEAN /\ d.z \in BOOLEAN /\ d.s \in BOOLEAN /\ d.o \in BOOLEAN
      BY <1>1, SubType DEF Outcomes
<1> HIDE DEF d
<1>5. Signed(x, m) = Signed(y, m) <=> x = y
  <2>1. CASE m = 256 BY <2>1, InValues DEF Signed
  <2>2. CASE m = 65536 BY <2>2, InValues DEF Signed
  <2> QED BY <2>1, <2>2 DEF Widths
<1>6. /\ Signed(x, m) <= Signed(y, m) <=> x = y \/ Signed(x, m) < Signed(y, m)
      /\ x <= y <=> x = y \/ x < y
      /\ x > y <=> ~(x < y \/ x = y)
      /\ x >= y <=> ~(x < y)
      /\ Signed(x, m) >= Signed(y, m) <=> ~(Signed(x, m) < Signed(y, m))
      /\ Signed(x, m) > Signed(y, m) <=> x # y /\ ~(Signed(x, m) < Signed(y, m))
      BY <1>1, <1>2, <1>5
<1>7. Holds(cc, d) <=> Relation(cc, x, y, m)
  <2>1. CASE cc = 2 BY <1>3, <1>4, <1>6, <2>1 DEF Holds, Relation
  <2>2. CASE cc = 3 BY <1>3, <1>4, <1>6, <2>2 DEF Holds, Relation
  <2>3. CASE cc = 4 BY <1>3, <1>4, <1>6, <2>3 DEF Holds, Relation
  <2>4. CASE cc = 5 BY <1>3, <1>4, <1>6, <2>4 DEF Holds, Relation
  <2>5. CASE cc = 6 BY <1>3, <1>4, <1>6, <2>5 DEF Holds, Relation
  <2>6. CASE cc = 7 BY <1>3, <1>4, <1>6, <2>6 DEF Holds, Relation
  <2>7. CASE cc = 12 BY <1>3, <1>4, <1>6, <2>7 DEF Holds, Relation
  <2>8. CASE cc = 13 BY <1>3, <1>4, <1>6, <2>8 DEF Holds, Relation
  <2>9. CASE cc = 14 BY <1>3, <1>4, <1>6, <2>9 DEF Holds, Relation
  <2>10. CASE cc = 15 BY <1>3, <1>4, <1>6, <2>10 DEF Holds, Relation
  <2> QED BY <2>1, <2>2, <2>3, <2>4, <2>5, <2>6, <2>7, <2>8, <2>9, <2>10 DEF Conditions
<1> QED BY <1>7 DEF d
=============================================================================

------------------------- MODULE X86AluSweepProofs --------------------------
(***************************************************************************)
(* The four rules of X86AluSweep hold for whatever words are tried: the    *)
(* relation of a comparison, the chains of bytes, the shifts by a count    *)
(* and the divisions.  Each rule is a lemma on words (ChainsRight,         *)
(* CountsRight, DivisionsHold; CompareDecides is in X86AluProofs); the     *)
(* theorems at the end are about Spec, by the invariant Swept.             *)
(***************************************************************************)
EXTENDS X86AluSweep, X86AluProofs, FlatSequences

\* The operands stay what they were and the count keeps below 32.
Swept == left \in Operands /\ right \in Operands /\ count \in 0 .. 31

\* It is an invariant.
LEMMA SweepStays == Spec => []Swept
<1>1. Init => Swept BY DEF Init, Swept
<1>2. Swept /\ [Next]_vars => Swept' 
  <2> SUFFICES ASSUME Swept, [Next]_vars PROVE Swept' OBVIOUS
  <2>1. CASE Next BY <2>1 DEF Next, Swept
  <2>2. CASE UNCHANGED vars BY <2>2 DEF vars, Swept
  <2> QED BY <2>1, <2>2
<1> QED BY <1>1, <1>2, PTL DEF Spec

\* A word by its two bytes.
LEMMA BytesOf ==
  ASSUME NEW v \in Word
  PROVE  /\ LowByte(v) \in 0 .. 255 /\ HighByte(v) \in 0 .. 255
         /\ v = LowByte(v) + 256 * HighByte(v)
<1>1. v \in Int /\ 0 <= v /\ v < 65536 BY InWord
<1> QED BY <1>1 DEF LowByte, HighByte

\* A number that fits has the sign of its top bit.
LEMMA SignedOf ==
  ASSUME NEW m \in Widths, NEW v \in Values(m)
  PROVE  /\ v \in Int /\ 0 <= v /\ v < m /\ v % m = v
         /\ ~TopBit(v, m) => Signed(v, m) = v
         /\ TopBit(v, m) => Signed(v, m) = v - m
<1>1. CASE m = 256 BY <1>1, InValues DEF Signed, TopBit
<1>2. CASE m = 65536 BY <1>2, InValues DEF Signed, TopBit
<1> QED BY <1>1, <1>2 DEF Widths

\* The result of an operation overflows when its sign is not that of the bits kept.
LEMMA OverflowsOf ==
  ASSUME NEW v \in Int
  PROVE  /\ Overflows(v, 256) <=> v < -128 \/ v > 127
         /\ Overflows(v, 65536) <=> v < -32768 \/ v > 32767
<1>1. Overflows(v, 256) <=> v < -128 \/ v > 127 BY DEF Overflows, Signed
<1>2. Overflows(v, 65536) <=> v < -32768 \/ v > 32767 BY DEF Overflows, Signed
<1> QED BY <1>1, <1>2

\* The sign of a word is that of its high byte.
LEMMA SignedBytes ==
  ASSUME NEW v \in Word
  PROVE  /\ Signed(v, 65536) = LowByte(v) + 256 * Signed(HighByte(v), 256)
         /\ Signed(HighByte(v), 256) \in -128 .. 127
<1> DEFINE a == LowByte(v)
           b == HighByte(v)
<1>1. a \in 0 .. 255 /\ b \in 0 .. 255 /\ v = a + 256 * b BY BytesOf
<1> HIDE DEF a, b
<1>2. Signed(v, 65536) = a + 256 * Signed(b, 256) /\ Signed(b, 256) \in -128 .. 127
      BY <1>1 DEF Signed
<1> QED BY <1>2 DEF a, b

\* The top bit of a sum is that of its high byte.
LEMMA TopOfHigh ==
  ASSUME NEW l \in 0 .. 255, NEW h \in Int, NEW v, v = l + 256 * h
  PROVE  TopBit(h % 256, 256) = TopBit(v % 65536, 65536)
<1>1. v % 65536 = l + 256 * (h % 256) /\ h % 256 \in 0 .. 255 OBVIOUS
<1>2. (v % 65536) % 65536 = v % 65536 /\ (h % 256) % 256 = h % 256 OBVIOUS
<1>3. v % 65536 >= 32768 <=> h % 256 >= 128 BY <1>1
<1> QED BY <1>2, <1>3 DEF TopBit

\* add of the low bytes and adc of the high ones is the word add.
LEMMA AddChain ==
  ASSUME NEW x \in Word, NEW y \in Word
  PROVE  AddByBytes(x, y) = Whole(Add(x, y, 65536))
<1> DEFINE a == LowByte(x)
           b == HighByte(x)
           c == LowByte(y)
           d == HighByte(y)
           lo == Add(a, c, 256)
           hi == Adc(b, d, lo, 256)
           w == Add(x, y, 65536)
<1>1. /\ a \in 0 .. 255 /\ b \in 0 .. 255 /\ x = a + 256 * b
      /\ c \in 0 .. 255 /\ d \in 0 .. 255 /\ y = c + 256 * d
      BY BytesOf
<1> HIDE DEF a, b, c, d
<1>2. lo.val = (a + c) % 256 /\ lo.c = (a + c >= 256)
  <2>1. (Signed(a, 256) + Signed(c, 256)) % 256 = (a + c) % 256 BY <1>1 DEF Signed
  <2> QED BY <2>1 DEF Add, Outcome
<1> DEFINE k == IF a + c >= 256 THEN 1 ELSE 0
<1>3. Carry(lo) = k BY <1>2 DEF Carry
<1>4. /\ hi.val = (b + d + k) % 256 /\ hi.c = (b + d + k >= 256)
      /\ hi.s = TopBit((b + d + k) % 256, 256)
      /\ hi.o = Overflows(Signed(b, 256) + Signed(d, 256) + k, 256)
  <2>1. (Signed(b, 256) + Signed(d, 256) + k) % 256 = (b + d + k) % 256 BY <1>1 DEF Signed
  <2> HIDE DEF k, lo
  <2> QED BY <1>3, <2>1 DEF Adc, Outcome
<1>5. /\ w.val = (x + y) % 65536 /\ w.c = (x + y >= 65536)
      /\ w.s = TopBit((x + y) % 65536, 65536)
      /\ w.o = Overflows(Signed(x, 65536) + Signed(y, 65536), 65536)
  <2>1. (Signed(x, 65536) + Signed(y, 65536)) % 65536 = (x + y) % 65536 BY <1>1 DEF Signed
  <2> QED BY <2>1 DEF Add, Outcome
<1>6. Pair(lo.val, hi.val) = w.val
  <2>1. ((a + c) % 256) + 256 * ((b + d + k) % 256) = (x + y) % 65536 BY <1>1
  <2> QED BY <1>2, <1>4, <1>5, <2>1 DEF Pair
<1>7. hi.c = w.c BY <1>1, <1>4, <1>5
<1>8. hi.s = w.s
  <2>1. b + d + k \in Int /\ a + c - 256 * k \in 0 .. 255
        /\ x + y = (a + c - 256 * k) + 256 * (b + d + k)
        BY <1>1
  <2>2. TopBit((b + d + k) % 256, 256) = TopBit((x + y) % 65536, 65536)
        BY <2>1, TopOfHigh
  <2> QED BY <1>4, <1>5, <2>2
<1>9. hi.o = w.o
  <2> DEFINE sb == Signed(b, 256)
             sd == Signed(d, 256)
             sx == Signed(x, 65536)
             sy == Signed(y, 65536)
  <2>1. sx = a + 256 * sb /\ sb \in -128 .. 127 /\ sy = c + 256 * sd /\ sd \in -128 .. 127
        BY SignedBytes DEF a, b, c, d
  <2> HIDE DEF sb, sd, sx, sy
  <2>2. k \in Int /\ a + c - 256 * k \in 0 .. 255 BY <1>1
  <2> HIDE DEF k
  <2>3. sx + sy = 256 * (sb + sd + k) + (a + c - 256 * k) BY <1>1, <2>1, <2>2
  <2>4. sb + sd + k \in Int /\ sx + sy \in Int BY <1>1, <2>1, <2>2
  <2>5. Overflows(sb + sd + k, 256) <=> Overflows(sx + sy, 65536)
        BY <1>1, <2>2, <2>3, <2>4, OverflowsOf
  <2>6. Overflows(sb + sd + k, 256) = Overflows(sx + sy, 65536) BY <2>5 DEF Overflows
  <2> QED BY <1>4, <1>5, <2>6 DEF sb, sd, sx, sy
<1> HIDE DEF lo, hi, w
<1>10. AddByBytes(x, y) = AsWord(lo, hi) BY DEF AddByBytes, a, b, c, d, lo, hi
<1> QED BY <1>6, <1>7, <1>8, <1>9, <1>10 DEF AsWord, Whole, w

\* sub of the low bytes and sbb of the high ones is the word sub, with its overflow
\* unless sbb is misled.
LEMMA SubChain ==
  ASSUME NEW x \in Word, NEW y \in Word
  PROVE  /\ Unsigned(SubByBytes(x, y)) = Unsigned(Sub(x, y, 65536))
         /\ ~SbbMisled(x, y) => SubByBytes(x, y).o = Sub(x, y, 65536).o
<1> DEFINE a == LowByte(x)
           b == HighByte(x)
           c == LowByte(y)
           d == HighByte(y)
           lo == Sub(a, c, 256)
           hi == Sbb(b, d, lo, 256)
           w == Sub(x, y, 65536)
<1>1. /\ a \in 0 .. 255 /\ b \in 0 .. 255 /\ x = a + 256 * b
      /\ c \in 0 .. 255 /\ d \in 0 .. 255 /\ y = c + 256 * d
      BY BytesOf
<1> HIDE DEF a, b, c, d
<1>2. lo.val = (a - c) % 256 /\ lo.c = (a < c)
  <2>1. (Signed(a, 256) - Signed(c, 256)) % 256 = (a - c) % 256 BY <1>1 DEF Signed
  <2> QED BY <2>1 DEF Sub, Outcome
<1> DEFINE k == IF a < c THEN 1 ELSE 0
<1>3. Carry(lo) = k BY <1>2 DEF Carry
<1>4. /\ hi.val = (b - d - k) % 256 /\ hi.c = (b < d + k)
      /\ hi.s = TopBit((b - d - k) % 256, 256)
      /\ hi.o = Overflows(Signed(b, 256) - Signed(d + k, 256), 256)
  <2>1. (Signed(b, 256) - Signed(d + k, 256)) % 256 = (b - d - k) % 256 BY <1>1 DEF Signed
  <2> HIDE DEF k, lo
  <2> QED BY <1>3, <2>1 DEF Sbb, Outcome
<1>5. /\ w.val = (x - y) % 65536 /\ w.c = (x < y) /\ w.s = TopBit((x - y) % 65536, 65536)
      /\ w.o = Overflows(Signed(x, 65536) - Signed(y, 65536), 65536)
  <2>1. (Signed(x, 65536) - Signed(y, 65536)) % 65536 = (x - y) % 65536 BY <1>1 DEF Signed
  <2> QED BY <2>1 DEF Sub, Outcome
<1>6. Pair(lo.val, hi.val) = w.val
  <2>1. ((a - c) % 256) + 256 * ((b - d - k) % 256) = (x - y) % 65536 BY <1>1
  <2> QED BY <1>2, <1>4, <1>5, <2>1 DEF Pair
<1>7. hi.c = w.c BY <1>1, <1>4, <1>5
<1>8. hi.s = w.s
  <2>1. b - d - k \in Int /\ a - c + 256 * k \in 0 .. 255
        /\ x - y = (a - c + 256 * k) + 256 * (b - d - k)
        BY <1>1
  <2>2. TopBit((b - d - k) % 256, 256) = TopBit((x - y) % 65536, 65536)
        BY <2>1, TopOfHigh
  <2> QED BY <1>4, <1>5, <2>2
<1>9. ~SbbMisled(x, y) => hi.o = w.o
  <2> DEFINE sb == Signed(b, 256)
             sd == Signed(d, 256)
             sx == Signed(x, 65536)
             sy == Signed(y, 65536)
  <2> SUFFICES ASSUME ~SbbMisled(x, y) PROVE hi.o = w.o OBVIOUS
  <2>1. sx = a + 256 * sb /\ sb \in -128 .. 127 /\ sy = c + 256 * sd /\ sd \in -128 .. 127
        BY SignedBytes DEF a, b, c, d
  <2>2. Signed(d + k, 256) = sd + k
    <3>1. ~(d = 127 /\ k = 1) BY DEF SbbMisled, a, c, d
    <3> QED BY <1>1, <3>1 DEF Signed
  <2> HIDE DEF sb, sd, sx, sy
  <2>3. k \in Int /\ a - c + 256 * k \in 0 .. 255 BY <1>1
  <2> HIDE DEF k
  <2>4. sx - sy = 256 * (sb - sd - k) + (a - c + 256 * k) BY <1>1, <2>1, <2>3
  <2>5. sb - sd - k \in Int /\ sx - sy \in Int /\ sb - (sd + k) = sb - sd - k
        BY <1>1, <2>1, <2>3
  <2>6. Overflows(sb - sd - k, 256) <=> Overflows(sx - sy, 65536)
        BY <1>1, <2>3, <2>4, <2>5, OverflowsOf
  <2>7. Overflows(sb - sd - k, 256) = Overflows(sx - sy, 65536) BY <2>6 DEF Overflows
  <2> QED BY <1>4, <1>5, <2>2, <2>5, <2>7 DEF sb, sd, sx, sy
<1> HIDE DEF lo, hi, w
<1>10. SubByBytes(x, y) = AsWord(lo, hi) BY DEF SubByBytes, a, b, c, d, lo, hi
<1> QED BY <1>6, <1>7, <1>8, <1>9, <1>10 DEF AsWord, Unsigned, w

\* One place to the left, and to the right.
LEMMA OnePlace ==
  ASSUME NEW m \in Widths, NEW v \in Values(m)
  PROVE  /\ ShiftLeft(v, 1, m) = (2 * v) % m /\ LastOutLeft(v, 1, m) = TopBit(v, m)
         /\ ShiftRight(v, 1) = v \div 2 /\ LastOutRight(v, 1) = (v % 2 = 1)
<1>1. Power(0) = 1 /\ Power(1) = 2 BY DEF Power
<1>2. v \in Int /\ 0 <= v /\ v < m /\ m \in Int /\ m > 0 /\ v % m = v
      BY SignedOf DEF Widths
<1>3. ShiftLeft(v, 0, m) = v /\ ShiftRight(v, 0) = v BY <1>1, <1>2 DEF ShiftLeft, ShiftRight
<1>4. ShiftLeft(v, 1, m) = (2 * v) % m /\ ShiftRight(v, 1) = v \div 2
  <2>1. v * 2 = 2 * v BY <1>2
  <2> QED BY <1>1, <2>1 DEF ShiftLeft, ShiftRight
<1>5. 1 - 1 = 0 /\ 1 > 0 OBVIOUS
<1>6. LastOutLeft(v, 1, m) = TopBit(v, m)
  <2>1. ShiftLeft(v, 1 - 1, m) = v BY <1>3, <1>5
  <2> QED BY <1>5, <2>1 DEF LastOutLeft, TopBit
<1>7. LastOutRight(v, 1) = (v % 2 = 1)
  <2>1. ShiftRight(v, 1 - 1) = v BY <1>3, <1>5
  <2> QED BY <1>5, <2>1 DEF LastOutRight
<1> QED BY <1>4, <1>6, <1>7

\* A word shifted by one place.
WordShl(x) == Shl(x, 1, 1, FALSE, 65536)
WordShr(x, f) == Shr(x, 1, 1, FALSE, f, 65536)

\* shl and rcl.
LEMMA ShlChain ==
  ASSUME NEW x \in Word, NEW f
  PROVE  /\ ShlByBytes(x, f).val = WordShl(x).val
         /\ ShlByBytes(x, f).c = WordShl(x).c
         /\ ShlByBytes(x, f).o = WordShl(x).o
<1> DEFINE a == LowByte(x)
           b == HighByte(x)
           lo == Shl(a, 1, 1, FALSE, 256)
           hi == Rcl(b, 1, FALSE, lo, 256)
           w == WordShl(x)
<1>1. a \in 0 .. 255 /\ b \in 0 .. 255 /\ x = a + 256 * b BY BytesOf
<1>2. /\ a \in Values(256) /\ b \in Values(256) /\ x \in Values(65536)
      /\ 256 \in Widths /\ 65536 \in Widths
  <2>1. a \in Values(256) /\ b \in Values(256) BY <1>1, InValues
  <2>2. x \in Values(65536) BY DEF Word
  <2> QED BY <2>1, <2>2 DEF Widths
<1> HIDE DEF a, b
<1>3. lo.val = (2 * a) % 256 /\ lo.c = (a >= 128)
  <2>1. lo = Outcome((2 * a) % 256, TopBit((2 * a) % 256, 256) # TopBit(a, 256), TopBit(a, 256), 256)
        BY <1>2, OnePlace DEF Shl
  <2>2. TopBit(a, 256) = (a >= 128) /\ ((2 * a) % 256) % 256 = (2 * a) % 256
        BY <1>1 DEF TopBit
  <2> HIDE DEF lo
  <2> QED BY <2>1, <2>2 DEF Outcome
<1> DEFINE k == IF a >= 128 THEN 1 ELSE 0
           v == ((2 * b) % 256) + k
<1>4. Carry(lo) = k BY <1>3 DEF Carry
<1>5. hi.val = v /\ hi.c = (b >= 128) /\ hi.o = ((b >= 128) # (v >= 128))
  <2>1. 2 * (((2 * b) % 256) \div 2) + k = v /\ v % 256 = v BY <1>1
  <2> HIDE DEF k, v, lo
  <2>2. hi = Rotated(v, TopBit(b, 256) # TopBit(v, 256), TopBit(b, 256), lo, 256)
        BY <1>2, <1>4, <2>1, OnePlace DEF Rcl
  <2> HIDE DEF hi
  <2> QED BY <1>1, <2>1, <2>2 DEF Rotated, TopBit
<1>6. /\ w.val = (2 * x) % 65536 /\ w.c = (x >= 32768)
      /\ w.o = (((2 * x) % 65536 >= 32768) # (x >= 32768))
  <2>1. w = Outcome((2 * x) % 65536, TopBit((2 * x) % 65536, 65536) # TopBit(x, 65536),
                    TopBit(x, 65536), 65536)
        BY <1>2, OnePlace DEF Shl, WordShl
  <2>2. /\ TopBit(x, 65536) = (x >= 32768)
        /\ TopBit((2 * x) % 65536, 65536) = ((2 * x) % 65536 >= 32768)
        /\ ((2 * x) % 65536) % 65536 = (2 * x) % 65536
        BY <1>1 DEF TopBit
  <2> HIDE DEF w
  <2> QED BY <2>1, <2>2 DEF Outcome
<1>7. Pair(lo.val, hi.val) = w.val
  <2>1. ((2 * a) % 256) + 256 * v = (2 * x) % 65536 BY <1>1
  <2> HIDE DEF lo, hi, w, v
  <2> QED BY <1>3, <1>5, <1>6, <2>1 DEF Pair
<1>8. hi.c = w.c
  <2>1. x >= 32768 <=> b >= 128 BY <1>1
  <2> HIDE DEF hi, w, v
  <2> QED BY <1>5, <1>6, <2>1
<1>9. hi.o = w.o
  <2>1. x >= 32768 <=> b >= 128 BY <1>1
  <2>2. (2 * x) % 65536 = ((2 * a) % 256) + 256 * v /\ (2 * a) % 256 \in 0 .. 255 /\ v \in 0 .. 255
        BY <1>1
  <2> HIDE DEF hi, w, v
  <2>3. (2 * x) % 65536 >= 32768 <=> v >= 128 BY <2>2
  <2> QED BY <1>5, <1>6, <2>1, <2>3
<1> HIDE DEF lo, hi, w
<1>10. ShlByBytes(x, f) = AsWord(lo, hi) BY DEF ShlByBytes, a, b, lo, hi
<1> QED BY <1>7, <1>8, <1>9, <1>10 DEF AsWord, w

\* shr and rcr.
LEMMA ShrChain ==
  ASSUME NEW x \in Word, NEW f
  PROVE  ShrByBytes(x, f) = [val |-> WordShr(x, f).val,
                             c |-> WordShr(x, f).c]
<1> DEFINE a == LowByte(x)
           b == HighByte(x)
           hi == Shr(b, 1, 1, FALSE, f, 256)
           lo == Rcr(a, 1, FALSE, hi, 256)
           w == WordShr(x, f)
<1>1. a \in 0 .. 255 /\ b \in 0 .. 255 /\ x = a + 256 * b BY BytesOf
<1>2. /\ a \in Values(256) /\ b \in Values(256) /\ x \in Values(65536)
      /\ 256 \in Widths /\ 65536 \in Widths
  <2>1. a \in Values(256) /\ b \in Values(256) BY <1>1, InValues
  <2>2. x \in Values(65536) BY DEF Word
  <2> QED BY <2>1, <2>2 DEF Widths
<1> HIDE DEF a, b
<1>3. hi.val = b \div 2 /\ hi.c = (b % 2 = 1)
  <2>1. hi = Outcome(b \div 2, TopBit(b, 256), b % 2 = 1, 256) BY <1>2, OnePlace DEF Shr
  <2>2. (b \div 2) % 256 = b \div 2 BY <1>1
  <2> HIDE DEF hi
  <2> QED BY <2>1, <2>2 DEF Outcome
<1> DEFINE k == IF b % 2 = 1 THEN 1 ELSE 0
<1>4. Carry(hi) = k BY <1>3 DEF Carry
<1>5. lo.val = a \div 2 + 128 * k /\ lo.c = (a % 2 = 1)
  <2> DEFINE v == ((a \div 2) % 128) + k * 128
  <2>1. v = a \div 2 + 128 * k /\ v % 256 = v BY <1>1
  <2>2. 256 \div 2 = 128 OBVIOUS
  <2> HIDE DEF k, hi
  <2>3. lo.val = v % 256 /\ lo.c = (a % 2 = 1)
        BY <1>2, <1>4, <2>2, OnePlace DEF Rcr, Rotated
  <2> QED BY <2>1, <2>3
<1>6. w.val = x \div 2 /\ w.c = (x % 2 = 1)
  <2>1. w = Outcome(x \div 2, TopBit(x, 65536), x % 2 = 1, 65536)
        BY <1>2, OnePlace DEF Shr, WordShr
  <2>2. (x \div 2) % 65536 = x \div 2 BY <1>1
  <2> HIDE DEF w
  <2> QED BY <2>1, <2>2 DEF Outcome
<1>7. Pair(lo.val, hi.val) = w.val
  <2>1. (a \div 2 + 128 * k) + 256 * (b \div 2) = x \div 2 BY <1>1
  <2> HIDE DEF lo, hi, w, k
  <2> QED BY <1>3, <1>5, <1>6, <2>1 DEF Pair
<1>8. lo.c = w.c
  <2>1. x % 2 = a % 2 BY <1>1
  <2> HIDE DEF lo, w
  <2> QED BY <1>5, <1>6, <2>1
<1> HIDE DEF lo, hi, w
<1>9. ShrByBytes(x, f) = [val |-> Pair(lo.val, hi.val), c |-> lo.c]
      BY DEF ShrByBytes, a, b, lo, hi
<1> QED BY <1>7, <1>8, <1>9 DEF w

\* The chains of bytes, together.
LEMMA ChainsRight == ASSUME NEW x \in Word, NEW y \in Word, NEW f PROVE WordsByBytes(x, y, f)
<1>1. AddByBytes(x, y) = Whole(Add(x, y, 65536)) BY AddChain
<1>2. /\ Unsigned(SubByBytes(x, y)) = Unsigned(Sub(x, y, 65536))
      /\ ~SbbMisled(x, y) => SubByBytes(x, y).o = Sub(x, y, 65536).o
      BY SubChain
<1>3. /\ ShlByBytes(x, f).val = WordShl(x).val
      /\ ShlByBytes(x, f).c = WordShl(x).c
      /\ ShlByBytes(x, f).o = WordShl(x).o
      BY ShlChain
<1>4. ShrByBytes(x, f) = [val |-> WordShr(x, f).val,
                          c |-> WordShr(x, f).c]
      BY ShrChain
<1> QED BY <1>1, <1>2, <1>3, <1>4 DEF WordsByBytes, WordShl, WordShr

\* Two courses of steps that begin alike and go on alike end alike.
LEMMA SameCourse ==
  ASSUME NEW n \in Nat \ {0}, NEW s, NEW t, s[1] = t[1],
         \A k \in 2 .. n : s[k - 1] = t[k - 1] => s[k] = t[k]
  PROVE  s[n] = t[n]
<1> DEFINE T == {j \in Nat : j + 1 <= n => s[j + 1] = t[j + 1]}
<1>1. 0 \in T OBVIOUS
<1>2. ASSUME NEW j \in Nat, j \in T PROVE j + 1 \in T
  <2> SUFFICES ASSUME j + 1 + 1 <= n PROVE s[j + 1 + 1] = t[j + 1 + 1] OBVIOUS
  <2>1. s[j + 1] = t[j + 1] BY <1>2
  <2>2. j + 2 \in 2 .. n /\ j + 2 - 1 = j + 1 /\ j + 1 + 1 = j + 2 OBVIOUS
  <2> QED BY <2>1, <2>2
<1>3. Nat \subseteq T
  <2> HIDE DEF T
  <2> QED BY <1>1, <1>2, Induction
<1>4. n - 1 \in T /\ n - 1 + 1 = n BY <1>3
<1> QED BY <1>4

\* The powers of two that a shift by up to 16 places multiplies by.
LEMMA Powers ==
  /\ \A k \in 0 .. 15 : Power(k + 1) = 2 * Power(k) /\ Power(k) \in Nat \ {0}
  /\ Power(0) = 1 /\ Power(1) = 2 /\ Power(16) = 65536
BY DEF Power

\* One place more to the left.
LEMMA LeftAgain ==
  ASSUME NEW x \in Word, NEW k \in Nat
  PROVE  /\ ShiftLeft(x, k, 65536) \in Word
         /\ (2 * ShiftLeft(x, k, 65536)) % 65536 = ShiftLeft(x, k + 1, 65536)
<1>1. x \in Int BY InWord
<1>2. CASE k >= 16
  <2>1. ShiftLeft(x, k, 65536) = 0 /\ ShiftLeft(x, k + 1, 65536) = 0 BY <1>2 DEF ShiftLeft
  <2> QED BY <2>1, InWord
<1>3. CASE k < 16
  <2> DEFINE X == x * Power(k)
  <2>1. X \in Int /\ x * Power(k + 1) = 2 * X
    <3>1. Power(k + 1) = 2 * Power(k) /\ Power(k) \in Int BY <1>3, Powers
    <3> HIDE DEF Power
    <3>2. \A q \in Int : x * (2 * q) = 2 * (x * q) BY <1>1
    <3> QED BY <1>1, <3>1, <3>2
  <2>2. ShiftLeft(x, k, 65536) = X % 65536 BY <1>3 DEF ShiftLeft
  <2>3. k = 15 => 2 * X = x * 65536 BY <2>1, Powers
  <2> HIDE DEF X
  <2>4. (2 * (X % 65536)) % 65536 = (2 * X) % 65536 BY <2>1
  <2>5. X % 65536 \in Word BY <2>1, InWord
  <2>6. ShiftLeft(x, k + 1, 65536) = (2 * X) % 65536
    <3>1. CASE k < 15 BY <2>1, <3>1 DEF ShiftLeft
    <3>2. CASE k = 15
      <4>1. (x * 65536) % 65536 = 0 BY <1>1
      <4> QED BY <2>3, <3>2, <4>1 DEF ShiftLeft
    <3> QED BY <1>3, <3>1, <3>2
  <2> QED BY <2>2, <2>4, <2>5, <2>6
<1> QED BY <1>2, <1>3

\* One place more to the right.
LEMMA RightAgain ==
  ASSUME NEW x \in Word, NEW k \in Nat
  PROVE  /\ ShiftRight(x, k) \in Word
         /\ ShiftRight(x, k) \div 2 = ShiftRight(x, k + 1)
<1>1. x \in Int /\ 0 <= x /\ x < 65536 BY InWord
<1>2. CASE k >= 16
  <2>1. ShiftRight(x, k) = 0 /\ ShiftRight(x, k + 1) = 0 BY <1>2 DEF ShiftRight
  <2> QED BY <2>1, InWord
<1>3. CASE k < 15
  <2>1. /\ Power(k) \in Nat \ {0} /\ Power(k + 1) = 2 * Power(k)
        /\ (x \div Power(k)) \div 2 = x \div Power(k + 1)
        /\ x \div Power(k) \in Int /\ 0 <= x \div Power(k) /\ x \div Power(k) < 65536
    <3>1. k \in {0, 1, 2, 3, 4, 5, 6, 7, 8, 9, 10, 11, 12, 13, 14} BY <1>3
    <3> QED BY <1>1, <3>1 DEF Power
  <2> QED BY <1>3, <2>1, InWord DEF ShiftRight
<1>4. CASE k = 15
  <2>1. Power(15) = 32768 BY DEF Power
  <2>2. ShiftRight(x, 15) = x \div 32768 /\ ShiftRight(x, 15 + 1) = 0 BY <2>1 DEF ShiftRight
  <2>3. x \div 32768 \in 0 .. 1 /\ (x \div 32768) \div 2 = 0 BY <1>1
  <2> QED BY <1>4, <2>2, <2>3, InWord
<1> QED BY <1>2, <1>3, <1>4

\* A shift by one place.
OneLeft(v) == Shl(v, 1, 1, FALSE, 65536)
OneRight(v, f) == Shr(v, 1, 1, FALSE, f, 65536)
OneSigned(v, f) == Sar(v, 1, 1, FALSE, f, 65536)

\* shl by one: value, Z, S and the bit shifted out.
LEMMA OneLeftIs ==
  ASSUME NEW v \in Word
  PROVE  /\ OneLeft(v).val = (2 * v) % 65536 /\ OneLeft(v).c = TopBit(v, 65536)
         /\ OneLeft(v).s = TopBit((2 * v) % 65536, 65536)
         /\ OneLeft(v).z = ((2 * v) % 65536 = 0)
<1>1. v \in Values(65536) /\ 65536 \in Widths BY DEF Word, Widths
<1>2. OneLeft(v) = Outcome((2 * v) % 65536, TopBit((2 * v) % 65536, 65536) # TopBit(v, 65536),
                           TopBit(v, 65536), 65536)
      BY <1>1, OnePlace DEF OneLeft, Shl
<1>3. v \in Int BY InWord
<1>4. ((2 * v) % 65536) % 65536 = (2 * v) % 65536 BY <1>3
<1> QED BY <1>2, <1>4 DEF Outcome

\* shr by one: value, Z, S and the bit shifted out.
LEMMA OneRightIs ==
  ASSUME NEW v \in Word, NEW f
  PROVE  /\ OneRight(v, f).val = v \div 2 /\ OneRight(v, f).c = (v % 2 = 1)
         /\ OneRight(v, f).s = TopBit(v \div 2, 65536)
         /\ OneRight(v, f).z = (v \div 2 = 0)
<1>1. v \in Values(65536) /\ 65536 \in Widths BY DEF Word, Widths
<1>2. OneRight(v, f) = Outcome(v \div 2, TopBit(v, 65536), v % 2 = 1, 65536)
      BY <1>1, OnePlace DEF OneRight, Shr
<1>3. v \in Int /\ 0 <= v /\ v < 65536 BY InWord
<1>4. (v \div 2) % 65536 = v \div 2 BY <1>3
<1> HIDE DEF OneRight
<1> QED BY <1>2, <1>4 DEF Outcome

\* The n-th of repeated shifts by one, to the left.
LEMMA LeftCourse ==
  ASSUME NEW x \in Word, NEW n \in Nat \ {0}
  PROVE  RepeatedLeft(x, n)
           = OneLeft(ShiftLeft(x, n - 1, 65536))
<1> DEFINE s == CHOOSE s : s = [k \in 1 .. n |-> OneLeft(IF k = 1 THEN x ELSE s[k - 1].val)]
           t == [k \in 1 .. n |-> OneLeft(ShiftLeft(x, k - 1, 65536))]
<1>1. RepeatedLeft(x, n) = s[n] BY DEF Repeated, RepeatedLeft, OneLeft
<1>2. \A k \in 1 .. n : t[k].val = ShiftLeft(x, k, 65536)
  <2> TAKE k \in 1 .. n
  <2>1. k - 1 \in Nat /\ k - 1 + 1 = k OBVIOUS
  <2>2. t[k] = OneLeft(ShiftLeft(x, k - 1, 65536)) OBVIOUS
  <2> DEFINE q == ShiftLeft(x, k - 1, 65536)
  <2>3. q \in Word /\ (2 * q) % 65536 = ShiftLeft(x, k, 65536)
    <3>1. \A j \in Nat : /\ ShiftLeft(x, j, 65536) \in Word
                         /\ (2 * ShiftLeft(x, j, 65536)) % 65536 = ShiftLeft(x, j + 1, 65536)
          BY LeftAgain
    <3> QED BY <2>1, <3>1
  <2>4. t[k] = OneLeft(q) BY <2>2
  <2> HIDE DEF q, t
  <2> QED BY <2>3, <2>4, OneLeftIs
<1>3. x \in Int /\ ShiftLeft(x, 0, 65536) = x
  <2>1. x \in Int /\ 0 <= x /\ x < 65536 BY InWord
  <2> QED BY <2>1, Powers DEF ShiftLeft
<1>4. t = [k \in 1 .. n |-> OneLeft(IF k = 1 THEN x ELSE t[k - 1].val)]
  <2> HIDE DEF t
  <2>1. ASSUME NEW k \in 1 .. n
        PROVE  ShiftLeft(x, k - 1, 65536) = IF k = 1 THEN x ELSE t[k - 1].val
    <3>1. CASE k = 1 BY <1>3, <3>1
    <3>2. CASE k # 1
      <4>1. k - 1 \in 1 .. n BY <3>2
      <4> QED BY <1>2, <3>2, <4>1
    <3> QED BY <3>1, <3>2
  <2> DEFINE e(k) == IF k = 1 THEN x ELSE t[k - 1].val
  <2>2. \A k \in 1 .. n : ShiftLeft(x, k - 1, 65536) = e(k) BY <2>1
  <2>3. t = [k \in 1 .. n |-> OneLeft(ShiftLeft(x, k - 1, 65536))] BY DEF t
  <2> HIDE DEF e
  <2>4. t = [k \in 1 .. n |-> OneLeft(e(k))] BY <2>2, <2>3
  <2> QED BY <2>4 DEF e
<1> HIDE DEF t
<1>5. s = [k \in 1 .. n |-> OneLeft(IF k = 1 THEN x ELSE s[k - 1].val)]
  <2>1. \E g : g = [k \in 1 .. n |-> OneLeft(IF k = 1 THEN x ELSE g[k - 1].val)] BY <1>4
  <2> QED BY <2>1
<1> HIDE DEF s
<1>6. s[n] = t[n]
  <2>1. s[1] = OneLeft(x) BY <1>5
  <2>2. t[1] = OneLeft(x) BY <1>4
  <2>3. ASSUME NEW k \in 2 .. n, s[k - 1] = t[k - 1] PROVE s[k] = t[k]
    <3>1. k \in 1 .. n /\ k # 1 OBVIOUS
    <3>2. s[k] = OneLeft(s[k - 1].val) BY <1>5, <3>1
    <3>3. t[k] = OneLeft(t[k - 1].val) BY <1>4, <3>1
    <3> QED BY <2>3, <3>2, <3>3
  <2> QED BY <2>1, <2>2, <2>3, SameCourse
<1>7. t[n] = OneLeft(ShiftLeft(x, n - 1, 65536)) BY DEF t
<1> QED BY <1>1, <1>6, <1>7

\* The n-th of repeated shifts by one, to the right.
LEMMA RightCourse ==
  ASSUME NEW x \in Word, NEW n \in Nat \ {0}, NEW f
  PROVE  RepeatedRight(x, n, f)
           = OneRight(ShiftRight(x, n - 1), f)
<1> DEFINE s == CHOOSE s : s = [k \in 1 .. n |-> OneRight(IF k = 1 THEN x ELSE s[k - 1].val, f)]
           t == [k \in 1 .. n |-> OneRight(ShiftRight(x, k - 1), f)]
<1>1. RepeatedRight(x, n, f) = s[n] BY DEF Repeated, RepeatedRight, OneRight
<1>2. \A k \in 1 .. n : t[k].val = ShiftRight(x, k)
  <2> TAKE k \in 1 .. n
  <2>1. k - 1 \in Nat /\ k - 1 + 1 = k OBVIOUS
  <2>2. t[k] = OneRight(ShiftRight(x, k - 1), f) OBVIOUS
  <2> DEFINE q == ShiftRight(x, k - 1)
  <2>3. q \in Word /\ q \div 2 = ShiftRight(x, k)
    <3>1. \A j \in Nat : /\ ShiftRight(x, j) \in Word
                         /\ ShiftRight(x, j) \div 2 = ShiftRight(x, j + 1)
          BY RightAgain
    <3> QED BY <2>1, <3>1
  <2>4. t[k] = OneRight(q, f) BY <2>2
  <2> HIDE DEF q, t
  <2> QED BY <2>3, <2>4, OneRightIs
<1>3. x \in Int /\ ShiftRight(x, 0) = x
  <2>1. x \in Int /\ 0 <= x /\ x < 65536 BY InWord
  <2> QED BY <2>1, Powers DEF ShiftRight
<1>4. t = [k \in 1 .. n |-> OneRight(IF k = 1 THEN x ELSE t[k - 1].val, f)]
  <2> HIDE DEF t
  <2>1. ASSUME NEW k \in 1 .. n
        PROVE  ShiftRight(x, k - 1) = IF k = 1 THEN x ELSE t[k - 1].val
    <3>1. CASE k = 1 BY <1>3, <3>1
    <3>2. CASE k # 1
      <4>1. k - 1 \in 1 .. n BY <3>2
      <4> QED BY <1>2, <3>2, <4>1
    <3> QED BY <3>1, <3>2
  <2> DEFINE e(k) == IF k = 1 THEN x ELSE t[k - 1].val
  <2>2. \A k \in 1 .. n : ShiftRight(x, k - 1) = e(k) BY <2>1
  <2>3. t = [k \in 1 .. n |-> OneRight(ShiftRight(x, k - 1), f)] BY DEF t
  <2> HIDE DEF e
  <2>4. t = [k \in 1 .. n |-> OneRight(e(k), f)] BY <2>2, <2>3
  <2> QED BY <2>4 DEF e
<1> HIDE DEF t
<1>5. s = [k \in 1 .. n |-> OneRight(IF k = 1 THEN x ELSE s[k - 1].val, f)]
  <2>1. \E g : g = [k \in 1 .. n |-> OneRight(IF k = 1 THEN x ELSE g[k - 1].val, f)] BY <1>4
  <2> QED BY <2>1
<1> HIDE DEF s
<1>6. s[n] = t[n]
  <2>1. s[1] = OneRight(x, f) BY <1>5
  <2>2. t[1] = OneRight(x, f) BY <1>4
  <2>3. ASSUME NEW k \in 2 .. n, s[k - 1] = t[k - 1] PROVE s[k] = t[k]
    <3>1. k \in 1 .. n /\ k # 1 OBVIOUS
    <3>2. s[k] = OneRight(s[k - 1].val, f) BY <1>5, <3>1
    <3>3. t[k] = OneRight(t[k - 1].val, f) BY <1>4, <3>1
    <3> QED BY <2>3, <3>2, <3>3
  <2> QED BY <2>1, <2>2, <2>3, SameCourse
<1>7. t[n] = OneRight(ShiftRight(x, n - 1), f) BY DEF t
<1> QED BY <1>1, <1>6, <1>7

\* x shifted right by k places, with its sign.
SignedRight(x, k) == (Signed(x, 65536) \div Power(IF k < 16 THEN k ELSE 16)) % 65536

\* One place more to the right, with the sign.
LEMMA SignedAgain ==
  ASSUME NEW x \in Word, NEW k \in Nat
  PROVE  /\ SignedRight(x, k) \in Word
         /\ (Signed(SignedRight(x, k), 65536) \div 2) % 65536 = SignedRight(x, k + 1)
<1> DEFINE s == Signed(x, 65536)
           p == Power(IF k < 16 THEN k ELSE 16)
           q == Power(IF k + 1 < 16 THEN k + 1 ELSE 16)
           v == s \div p
<1>1. s \in Int /\ -32768 <= s /\ s <= 32767
  <2>1. x \in Int /\ 0 <= x /\ x < 65536 BY InWord
  <2>2. x \in Values(65536) /\ 65536 \in Widths BY DEF Word, Widths
  <2>3. TopBit(x, 65536) <=> x >= 32768 BY DEF TopBit
  <2>4. (x >= 32768 => s = x - 65536) /\ (~(x >= 32768) => s = x)
        BY <2>2, <2>3, SignedOf
  <2>5. s \in Int BY <2>1, <2>2, SignedIsInt
  <2> HIDE DEF s, p, q, v
  <2>6. x >= 32768 => s \in Int /\ -32768 <= s /\ s <= 32767 BY <2>1, <2>4, <2>5
  <2>7. ~(x >= 32768) => s \in Int /\ -32768 <= s /\ s <= 32767 BY <2>1, <2>4, <2>5
  <2> QED BY <2>6, <2>7
<1> HIDE DEF s
<1>2. v \in Int /\ -32768 <= v /\ v <= 32767 /\ (v \div 2) % 65536 = (s \div q) % 65536
  <2>1. CASE k < 15
    <3>1. \A a \in Int, b \in Int, c \in Int : -32768 <= a /\ a <= 32767 =>
           ((\/ (b = 1 /\ c = 2) \/ (b = 2 /\ c = 4) \/ (b = 4 /\ c = 8) \/ (b = 8 /\ c = 16)
             \/ (b = 16 /\ c = 32) \/ (b = 32 /\ c = 64) \/ (b = 64 /\ c = 128)
             \/ (b = 128 /\ c = 256) \/ (b = 256 /\ c = 512) \/ (b = 512 /\ c = 1024)
             \/ (b = 1024 /\ c = 2048) \/ (b = 2048 /\ c = 4096) \/ (b = 4096 /\ c = 8192)
             \/ (b = 8192 /\ c = 16384) \/ (b = 16384 /\ c = 32768))
            => -32768 <= a \div b /\ a \div b <= 32767 /\ (a \div b) \div 2 = a \div c)
          OBVIOUS
    <3>2. k \in {0, 1, 2, 3, 4, 5, 6, 7, 8, 9, 10, 11, 12, 13, 14} BY <2>1
    <3>3. p \in Int /\ q \in Int /\
            (\/ (p = 1 /\ q = 2) \/ (p = 2 /\ q = 4) \/ (p = 4 /\ q = 8) \/ (p = 8 /\ q = 16)
             \/ (p = 16 /\ q = 32) \/ (p = 32 /\ q = 64) \/ (p = 64 /\ q = 128)
             \/ (p = 128 /\ q = 256) \/ (p = 256 /\ q = 512) \/ (p = 512 /\ q = 1024)
             \/ (p = 1024 /\ q = 2048) \/ (p = 2048 /\ q = 4096) \/ (p = 4096 /\ q = 8192)
             \/ (p = 8192 /\ q = 16384) \/ (p = 16384 /\ q = 32768))
          BY <3>2 DEF Power
    <3> HIDE DEF p, q
    <3> QED BY <1>1, <3>1, <3>3
  <2>2. CASE k = 15
    <3>1. (p = 32768 /\ q = 65536) BY <2>2 DEF Power
    <3> HIDE DEF p, q
    <3> QED BY <1>1, <3>1
  <2>3. CASE k > 15
    <3>1. (p = 65536 /\ q = 65536) BY <2>3 DEF Power
    <3> HIDE DEF p, q
    <3> QED BY <1>1, <3>1
  <2> QED BY <2>1, <2>2, <2>3
<1>3. SignedRight(x, k) = v % 65536 /\ SignedRight(x, k + 1) = (s \div q) % 65536
      BY DEF SignedRight, s
<1> HIDE DEF v, q
<1>4. v % 65536 \in Word /\ Signed(v % 65536, 65536) = v
  <2>1. v % 65536 \in Word BY <1>2, InWord
  <2>2. Signed(v % 65536, 65536) = v BY <1>2 DEF Signed
  <2> QED BY <2>1, <2>2
<1> QED BY <1>2, <1>3, <1>4

\* sar by one: value, Z, S and the bit shifted out.
LEMMA OneSignedIs ==
  ASSUME NEW v \in Word, NEW f
  PROVE  /\ OneSigned(v, f).val = (Signed(v, 65536) \div 2) % 65536
         /\ OneSigned(v, f).s = TopBit((Signed(v, 65536) \div 2) % 65536, 65536)
         /\ OneSigned(v, f).z = ((Signed(v, 65536) \div 2) % 65536 = 0)
         /\ OneSigned(v, f).c = (v % 2 = 1)
<1> DEFINE w == Signed(v, 65536) \div 2
           out == LastOutRight(Signed(v, 65536) % 65536, 1)
<1>1. OneSigned(v, f) = Outcome(w, FALSE /\ f.o, out, 65536)
      BY Powers DEF OneSigned, Sar
<1>2. out = (v % 2 = 1)
  <2>1. v \in Int /\ 0 <= v /\ v < 65536 BY InWord
  <2>2. Signed(v, 65536) % 65536 = v BY <2>1 DEF Signed
  <2>3. v \in Values(65536) /\ 65536 \in Widths BY DEF Word, Widths
  <2> QED BY <2>2, <2>3, OnePlace
<1> HIDE DEF w, out, OneSigned
<1>3. /\ OneSigned(v, f).val = w % 65536 /\ OneSigned(v, f).s = TopBit(w % 65536, 65536)
      /\ OneSigned(v, f).z = (w % 65536 = 0) /\ OneSigned(v, f).c = out
      BY <1>1 DEF Outcome
<1> QED BY <1>2, <1>3 DEF w

\* Shifted with its sign or without, a word has the same lowest bit, until the sign
\* alone is left.
LEMMA SameLowest ==
  ASSUME NEW x \in Word, NEW n \in Nat \ {0}, ~SignLost(x, n)
  PROVE  (ShiftRight(x, n - 1) % 2 = 1) = (SignedRight(x, n - 1) % 2 = 1)
<1> DEFINE s == Signed(x, 65536)
           k == n - 1
           p == Power(k)
<1>1. x \in Int /\ 0 <= x /\ x < 65536 BY InWord
<1>2. s \in Int /\ (s = x \/ (x >= 32768 /\ s = x - 65536)) BY <1>1 DEF Signed
<1>3. x >= 32768 => k < 16 BY <1>1 DEF SignLost, TopBit
<1>4. CASE k < 16
  <2>1. p \in {1, 2, 4, 8, 16, 32, 64, 128, 256, 512, 1024, 2048, 4096, 8192, 16384, 32768}
    <3>1. k \in {0, 1, 2, 3, 4, 5, 6, 7, 8, 9, 10, 11, 12, 13, 14, 15} BY <1>4
    <3> HIDE DEF k
    <3> QED BY <3>1 DEF Power
  <2>2. ShiftRight(x, k) = x \div p /\ SignedRight(x, k) = (s \div p) % 65536
        BY <1>4 DEF ShiftRight, SignedRight
  <2> HIDE DEF p, s, k
  <2>3. (x \div p) % 2 = ((s \div p) % 65536) % 2 BY <1>1, <1>2, <2>1
  <2> QED BY <2>2, <2>3 DEF k
<1>5. CASE ~(k < 16)
  <2>1. s = x BY <1>2, <1>3, <1>5
  <2>2. Power(16) = 65536 BY DEF Power
  <2>3. ShiftRight(x, k) = 0 BY <1>5 DEF ShiftRight
  <2>4. SignedRight(x, k) = (x \div 65536) % 65536 BY <1>5, <2>1, <2>2 DEF SignedRight
  <2>5. (x \div 65536) % 65536 = 0 BY <1>1
  <2> QED BY <2>3, <2>4, <2>5 DEF k
<1> QED BY <1>4, <1>5

\* The n-th of repeated shifts by one, with the sign.
LEMMA SignedCourse ==
  ASSUME NEW x \in Word, NEW n \in Nat \ {0}, NEW f
  PROVE  RepeatedSigned(x, n, f)
           = OneSigned(SignedRight(x, n - 1), f)
<1> DEFINE s == CHOOSE s : s = [k \in 1 .. n |-> OneSigned(IF k = 1 THEN x ELSE s[k - 1].val, f)]
           t == [k \in 1 .. n |-> OneSigned(SignedRight(x, k - 1), f)]
<1>1. RepeatedSigned(x, n, f) = s[n] BY DEF Repeated, RepeatedSigned, OneSigned
<1>2. \A k \in 1 .. n : t[k].val = SignedRight(x, k)
  <2> TAKE k \in 1 .. n
  <2>1. k - 1 \in Nat /\ k - 1 + 1 = k OBVIOUS
  <2>2. t[k] = OneSigned(SignedRight(x, k - 1), f) OBVIOUS
  <2> DEFINE q == SignedRight(x, k - 1)
  <2>3. q \in Word /\ (Signed(q, 65536) \div 2) % 65536 = SignedRight(x, k)
    <3>1. \A j \in Nat : /\ SignedRight(x, j) \in Word
                         /\ (Signed(SignedRight(x, j), 65536) \div 2) % 65536 = SignedRight(x, j + 1)
          BY SignedAgain
    <3> QED BY <2>1, <3>1
  <2>4. t[k] = OneSigned(q, f) BY <2>2
  <2> HIDE DEF q, t
  <2> QED BY <2>3, <2>4, OneSignedIs
<1>3. x \in Int /\ SignedRight(x, 0) = x
  <2>1. x \in Int /\ 0 <= x /\ x < 65536 BY InWord
  <2> QED BY <2>1, Powers DEF SignedRight, Signed
<1>4. t = [k \in 1 .. n |-> OneSigned(IF k = 1 THEN x ELSE t[k - 1].val, f)]
  <2> HIDE DEF t
  <2>1. ASSUME NEW k \in 1 .. n
        PROVE  SignedRight(x, k - 1) = IF k = 1 THEN x ELSE t[k - 1].val
    <3>1. CASE k = 1 BY <1>3, <3>1
    <3>2. CASE k # 1
      <4>1. k - 1 \in 1 .. n BY <3>2
      <4> QED BY <1>2, <3>2, <4>1
    <3> QED BY <3>1, <3>2
  <2> DEFINE e(k) == IF k = 1 THEN x ELSE t[k - 1].val
  <2>2. \A k \in 1 .. n : SignedRight(x, k - 1) = e(k) BY <2>1
  <2>3. t = [k \in 1 .. n |-> OneSigned(SignedRight(x, k - 1), f)] BY DEF t
  <2> HIDE DEF e
  <2>4. t = [k \in 1 .. n |-> OneSigned(e(k), f)] BY <2>2, <2>3
  <2> QED BY <2>4 DEF e
<1> HIDE DEF t
<1>5. s = [k \in 1 .. n |-> OneSigned(IF k = 1 THEN x ELSE s[k - 1].val, f)]
  <2>1. \E g : g = [k \in 1 .. n |-> OneSigned(IF k = 1 THEN x ELSE g[k - 1].val, f)] BY <1>4
  <2> QED BY <2>1
<1> HIDE DEF s
<1>6. s[n] = t[n]
  <2>1. s[1] = OneSigned(x, f) BY <1>5
  <2>2. t[1] = OneSigned(x, f) BY <1>4
  <2>3. ASSUME NEW k \in 2 .. n, s[k - 1] = t[k - 1] PROVE s[k] = t[k]
    <3>1. k \in 1 .. n /\ k # 1 OBVIOUS
    <3>2. s[k] = OneSigned(s[k - 1].val, f) BY <1>5, <3>1
    <3>3. t[k] = OneSigned(t[k - 1].val, f) BY <1>4, <3>1
    <3> QED BY <2>3, <3>2, <3>3
  <2> QED BY <2>1, <2>2, <2>3, SameCourse
<1>7. t[n] = OneSigned(SignedRight(x, n - 1), f) BY DEF t
<1> QED BY <1>1, <1>6, <1>7

\* A word shifted by CL.
ShlByCL(x, n) == Shl(x, n, n, TRUE, 65536)
ShrByCL(x, n, f) == Shr(x, n, n, TRUE, f, 65536)
SarByCL(x, n, f) == Sar(x, n, n, TRUE, f, 65536)

\* A shift by CL is as many shifts by one.
LEMMA CountsRight ==
  ASSUME NEW x \in Word, NEW n \in Nat, NEW f
  PROVE  ShiftByCount(x, n, f)
<1>1. CASE ~(n > 0) BY <1>1 DEF ShiftByCount
<1> SUFFICES ASSUME n > 0 PROVE ShiftByCount(x, n, f) BY <1>1
<1>2. n \in Nat \ {0} /\ n - 1 \in Nat /\ n - 1 + 1 = n OBVIOUS
<1> DEFINE l == ShiftLeft(x, n - 1, 65536)
           r == ShiftRight(x, n - 1)
           s == SignedRight(x, n - 1)
           left1 == RepeatedLeft(x, n)
           right1 == RepeatedRight(x, n, f)
           signed1 == RepeatedSigned(x, n, f)
           shl == ShlByCL(x, n)
           shr == ShrByCL(x, n, f)
           sar == SarByCL(x, n, f)
<1>3. left1 = OneLeft(l) /\ right1 = OneRight(r, f) /\ signed1 = OneSigned(s, f)
      BY <1>2, LeftCourse, RightCourse, SignedCourse
<1>4. /\ l \in Word /\ (2 * l) % 65536 = ShiftLeft(x, n, 65536)
      /\ r \in Word /\ r \div 2 = ShiftRight(x, n)
      /\ s \in Word /\ (Signed(s, 65536) \div 2) % 65536 = SignedRight(x, n)
      BY <1>2, LeftAgain, RightAgain, SignedAgain
<1>5. Shifting(shl) = Shifting(left1)
  <2>1. shl.val = ShiftLeft(x, n, 65536) /\ shl.s = TopBit(ShiftLeft(x, n, 65536), 65536)
        /\ shl.c = TopBit(l, 65536) /\ shl.z = (ShiftLeft(x, n, 65536) = 0)
    <3>1. LastOutLeft(x, n, 65536) = TopBit(l, 65536) BY DEF LastOutLeft, TopBit
    <3>2. ShiftLeft(x, n, 65536) % 65536 = ShiftLeft(x, n, 65536)
      <4>1. l \in Int BY <1>4, InWord
      <4> HIDE DEF l
      <4>2. ((2 * l) % 65536) % 65536 = (2 * l) % 65536 BY <4>1
      <4> QED BY <1>4, <4>2
    <3> HIDE DEF l
    <3> QED BY <3>1, <3>2 DEF ShlByCL, Shl, Outcome
  <2> HIDE DEF left1, shl, l
  <2> QED BY <1>3, <1>4, <2>1, OneLeftIs DEF Shifting
<1>6. Shifting(shr) = Shifting(right1)
  <2>1. shr.val = ShiftRight(x, n) /\ shr.s = TopBit(ShiftRight(x, n), 65536)
        /\ shr.c = (r % 2 = 1) /\ shr.z = (ShiftRight(x, n) = 0)
    <3>1. LastOutRight(x, n) = (r % 2 = 1) BY DEF LastOutRight
    <3>2. ShiftRight(x, n) % 65536 = ShiftRight(x, n)
      <4>1. r \in Int /\ 0 <= r /\ r < 65536 BY <1>4, InWord
      <4> HIDE DEF r
      <4>2. (r \div 2) % 65536 = r \div 2 BY <4>1
      <4> QED BY <1>4, <4>2
    <3> HIDE DEF r
    <3> QED BY <3>1, <3>2 DEF ShrByCL, Shr, Outcome
  <2> HIDE DEF right1, shr, r
  <2> QED BY <1>3, <1>4, <2>1, OneRightIs DEF Shifting
<1>7. /\ sar.val = signed1.val /\ sar.z = signed1.z /\ sar.s = signed1.s
      /\ ~SignLost(x, n) => sar.c = signed1.c
  <2>1. /\ sar.val = SignedRight(x, n) /\ sar.s = TopBit(SignedRight(x, n), 65536)
        /\ sar.z = (SignedRight(x, n) = 0) /\ sar.c = LastOutRight(Signed(x, 65536) % 65536, n)
        BY DEF SarByCL, Sar, Outcome, SignedRight
  <2>2. sar.c = (r % 2 = 1)
    <3>1. x \in Int /\ 0 <= x /\ x < 65536 BY InWord
    <3>2. Signed(x, 65536) % 65536 = x BY <3>1 DEF Signed
    <3>3. LastOutRight(x, n) = (r % 2 = 1) BY DEF LastOutRight
    <3> QED BY <2>1, <3>2, <3>3
  <2>3. ~SignLost(x, n) => (r % 2 = 1) = (s % 2 = 1) BY <1>2, SameLowest
  <2> HIDE DEF signed1, sar, s, r
  <2> QED BY <1>3, <1>4, <2>1, <2>2, <2>3, OneSignedIs
<1> HIDE DEF left1, right1, signed1, shl, shr, sar
<1>8. /\ Shifting(ShlByCL(x, n)) = Shifting(RepeatedLeft(x, n))
      /\ Shifting(ShrByCL(x, n, f)) = Shifting(RepeatedRight(x, n, f))
      BY <1>5, <1>6 DEF left1, right1, shl, shr
<1>9. /\ SarByCL(x, n, f).val = RepeatedSigned(x, n, f).val
      /\ SarByCL(x, n, f).z = RepeatedSigned(x, n, f).z
      /\ SarByCL(x, n, f).s = RepeatedSigned(x, n, f).s
      /\ ~SignLost(x, n) => SarByCL(x, n, f).c = RepeatedSigned(x, n, f).c
      BY <1>7 DEF signed1, sar
<1> QED BY <1>8, <1>9 DEF ShiftByCount, ShlByCL, ShrByCL, SarByCL, Shl, Shr, Sar

\* Division by a positive number.
LEMMA Euclid ==
  ASSUME NEW t \in Nat, NEW n \in Nat \ {0}
  PROVE  /\ t \div n \in Nat /\ t % n \in 0 .. n - 1
         /\ t = n * (t \div n) + (t % n)
OBVIOUS

\* A quotient below k, of a number below k times the divisor.
LEMMA QuotientBound ==
  ASSUME NEW q \in Nat, NEW n \in Nat \ {0}, NEW k \in Nat, n * q < k * n
  PROVE  q < k
<1> SUFFICES ASSUME q >= k PROVE FALSE OBVIOUS
<1>1. PICK d \in Nat : q = k + d
  <2>1. q - k \in Nat /\ q = k + (q - k) OBVIOUS
  <2> QED BY <2>1
<1>2. n * q = k * n + n * d BY <1>1
<1>3. n * d \in Nat BY <1>1
<1>4. n * q \in Int /\ k * n \in Int OBVIOUS
<1> QED BY <1>2, <1>3, <1>4

\* div in two steps of a byte, as the code does it, is the division of the whole.
LEMMA Divided ==
  ASSUME NEW hi \in Word, NEW lo \in Word, NEW n \in Word, n # 0, hi < n
  PROVE  /\ Quotient(hi, lo, n) \in Word /\ Remainder(hi, lo, n) \in 0 .. n - 1
         /\ n * Quotient(hi, lo, n) + Remainder(hi, lo, n) = 65536 * hi + lo
<1> DEFINE t == hi * 256 + HighByte(lo)
           a == t \div n
           e == t % n
           u == e * 256 + LowByte(lo)
           b == u \div n
           r == u % n
<1>1. /\ hi \in Int /\ 0 <= hi /\ n \in Nat \ {0} /\ n < 65536 /\ lo \in Int
      /\ LowByte(lo) \in 0 .. 255 /\ HighByte(lo) \in 0 .. 255
      /\ lo = LowByte(lo) + 256 * HighByte(lo)
      BY BytesOf, InWord
<1>2. hi % n = hi
  <2>1. hi \in Nat /\ hi < n BY <1>1
  <2> QED BY <1>1, <2>1
<1>3. t \in Nat /\ t < 256 * n BY <1>1
<1>4. a \in Nat /\ e \in 0 .. n - 1 /\ t = n * a + e
  <2> HIDE DEF t
  <2>1. t \in Nat /\ n \in Nat \ {0} BY <1>1, <1>3
  <2>2. /\ t \div n \in Nat /\ t % n \in 0 .. n - 1
        /\ t = n * (t \div n) + (t % n)
        BY <2>1, Euclid, Zenon
  <2> QED BY <2>2
<1>5. a < 256
  <2> HIDE DEF t, a, e
  <2>1. n * a \in Int BY <1>1, <1>4
  <2>2. n * a < 256 * n BY <1>1, <1>3, <1>4, <2>1
  <2> QED BY <1>1, <1>4, <2>2, QuotientBound
<1>6. u \in Nat /\ u < 256 * n
  <2> HIDE DEF e
  <2> QED BY <1>1, <1>4
<1>7. b \in Nat /\ r \in 0 .. n - 1 /\ u = n * b + r
  <2> HIDE DEF u
  <2>1. u \in Nat /\ n \in Nat \ {0} BY <1>1, <1>6
  <2>2. /\ u \div n \in Nat /\ u % n \in 0 .. n - 1
        /\ u = n * (u \div n) + (u % n)
        BY <2>1, Euclid, Zenon
  <2> QED BY <2>2
<1>8. b < 256
  <2> HIDE DEF u, b, r
  <2>1. n * b \in Int BY <1>1, <1>7
  <2>2. n * b < 256 * n BY <1>1, <1>6, <1>7, <2>1
  <2> QED BY <1>1, <1>7, <2>2, QuotientBound
<1>9. Quotient(hi, lo, n) = (a * 256 + b) % 65536 /\ Remainder(hi, lo, n) = r
      BY <1>2 DEF Quotient, Remainder
<1>10. t = hi * 256 + HighByte(lo) /\ u = e * 256 + LowByte(lo) OBVIOUS
<1> HIDE DEF t, a, e, u, b, r
<1>11. (a * 256 + b) % 65536 = a * 256 + b /\ 0 <= a * 256 + b /\ a * 256 + b < 65536
  <2>1. a \in Nat /\ a < 256 /\ b \in Nat /\ b < 256 BY <1>4, <1>5, <1>7, <1>8
  <2> QED BY <2>1
<1>12. n * (a * 256 + b) + r = 65536 * hi + lo
  <2> DEFINE A == n * a
             B == n * b
  <2>1. A \in Int /\ B \in Int BY <1>1, <1>4, <1>7
  <2>2. n * (a * 256 + b) = A * 256 + B BY <1>1, <1>4, <1>7
  <2>3. t = A + e /\ u = B + r BY <1>4, <1>7
  <2>4. /\ LowByte(lo) \in Int /\ HighByte(lo) \in Int /\ e \in Int /\ r \in Int
        /\ t = hi * 256 + HighByte(lo) /\ u = e * 256 + LowByte(lo)
        /\ lo = LowByte(lo) + 256 * HighByte(lo) /\ hi \in Int
    <3>1. LowByte(lo) \in Int /\ HighByte(lo) \in Int BY <1>1
    <3>2. e \in Int /\ r \in Int
      <4>1. \A x \in 0 .. n - 1 : x \in Int OBVIOUS
      <4> QED BY <1>4, <1>7, <4>1
    <3> QED BY <1>1, <1>10, <3>1, <3>2
  <2> HIDE DEF A, B
  <2>5. (A * 256 + B) + r = 65536 * hi + lo BY <2>1, <2>3, <2>4
  <2> QED BY <2>2, <2>5
<1>13. a * 256 + b \in Word BY <1>4, <1>7, <1>11, InWord
<1> QED BY <1>7, <1>9, <1>11, <1>12, <1>13

\* mul by the bytes of one factor is the product of the whole.
LEMMA Multiplied ==
  ASSUME NEW q \in Word, NEW n \in Word
  PROVE  /\ HighProduct(q, n) \in Word /\ LowProduct(q, n) \in Word
         /\ 65536 * HighProduct(q, n) + LowProduct(q, n) = n * q
<1> DEFINE a == q \div 256
           b == q % 256
           A == a * n
           B == b * n
<1>1. n \in Int /\ 0 <= n /\ n < 65536 /\ q \in Int /\ 0 <= q /\ q < 65536 BY InWord
<1>2. a \in 0 .. 255 /\ b \in 0 .. 255 /\ q = 256 * a + b BY <1>1
<1>3. HighProduct(q, n) = (A \div 256 + (B + (A % 256) * 256) \div 65536) % 65536
      BY DEF HighProduct
<1>4. LowProduct(q, n) = (B + (A % 256) * 256) % 65536 BY DEF LowProduct
<1> HIDE DEF a, b
<1>5. A \in Int /\ 0 <= A /\ A <= 255 * 65535 /\ B \in Int /\ 0 <= B /\ B <= 255 * 65535
  <2>1. \A c \in 0 .. 255 : c * n \in Int /\ 0 <= c * n /\ c * n <= 255 * 65535
    <3> TAKE c \in 0 .. 255
    <3>1. c * n \in Int /\ 0 <= c * n BY <1>1
    <3>2. (255 - c) * n >= 0 /\ (255 - c) * n = 255 * n - c * n BY <1>1
    <3> DEFINE C == c * n
    <3>3. C \in Int /\ 255 * n - C >= 0 BY <3>1, <3>2
    <3> HIDE DEF C
    <3>4. C <= 255 * 65535 BY <1>1, <3>3
    <3> QED BY <3>1, <3>4 DEF C
  <2> QED BY <1>2, <2>1
<1>6. n * q = 256 * A + B
  <2>1. n * q = n * (256 * a + b) BY <1>2
  <2>2. n * (256 * a + b) = 256 * (a * n) + b * n BY <1>1, <1>2
  <2> QED BY <2>1, <2>2
<1> HIDE DEF A, B
<1>7. /\ A \div 256 + (B + (A % 256) * 256) \div 65536 = (256 * A + B) \div 65536
      /\ (B + (A % 256) * 256) % 65536 = (256 * A + B) % 65536
      BY <1>5
<1>8. 0 <= 256 * A + B /\ 256 * A + B < 65536 * 65536 BY <1>5
<1> DEFINE P == 256 * A + B
<1>9. P \in Int /\ 0 <= P /\ P < 65536 * 65536 BY <1>5, <1>8
<1>10. /\ HighProduct(q, n) = (P \div 65536) % 65536 /\ LowProduct(q, n) = P % 65536
       /\ n * q = P
       BY <1>3, <1>4, <1>6, <1>7
<1> HIDE DEF P
<1>11. (P \div 65536) % 65536 = P \div 65536 /\ 0 <= P \div 65536 /\ P \div 65536 < 65536
       BY <1>9
<1>12. P \div 65536 \in Word /\ P % 65536 \in Word BY <1>9, <1>11, InWord
<1>13. 65536 * (P \div 65536) + (P % 65536) = P BY <1>9
<1> QED BY <1>10, <1>11, <1>12, <1>13

\* A pair of words and a word added to it, when the sum is known.
LEMMA PlusBack ==
  ASSUME NEW hi \in Word, NEW lo \in Word, NEW h \in Word, NEW l \in Word, NEW r \in Word,
         65536 * h + l + r = 65536 * hi + lo
  PROVE  PlusWord(h, l, r) = <<hi, lo>>
<1>1. /\ hi \in Int /\ 0 <= hi /\ hi < 65536 /\ lo \in Int /\ 0 <= lo /\ lo < 65536
      /\ h \in Int /\ 0 <= h /\ h < 65536 /\ l \in Int /\ 0 <= l /\ l < 65536
      /\ r \in Int /\ 0 <= r /\ r < 65536
      BY InWord
<1>2. (l + r) % 65536 = lo /\ (h + (l + r) \div 65536) % 65536 = hi BY <1>1
<1> QED BY <1>2 DEF PlusWord

\* A small number, or its opposite.
LEMMA WithSign ==
  ASSUME NEW v \in Int, 0 <= v, v < 32768, NEW neg \in BOOLEAN,
         NEW w, w = IF neg THEN (-v) % 65536 ELSE v
  PROVE  /\ w \in Word /\ Signed(w, 65536) = IF neg THEN -v ELSE v
         /\ Signed(w, 65536) % 65536 = w /\ Magnitude(w, 65536) = v
<1>1. w \in Int /\ 0 <= w /\ w < 65536 OBVIOUS
<1>2. w \in Word BY <1>1, InWord
<1>3. TopBit(w, 65536) <=> neg /\ v # 0
  <2>1. TopBit(w, 65536) <=> w >= 32768 BY DEF TopBit
  <2> QED BY <2>1
<1>4. w \in Values(65536) /\ 65536 \in Widths BY <1>2 DEF Word, Widths
<1>5. Signed(w, 65536) = IF neg THEN -v ELSE v
  <2>1. /\ TopBit(w, 65536) => Signed(w, 65536) = w - 65536
        /\ ~TopBit(w, 65536) => Signed(w, 65536) = w
        BY <1>4, SignedOf
  <2> QED BY <1>1, <1>3, <2>1
<1>6. Signed(w, 65536) % 65536 = w BY <1>1, <1>5
<1>7. Magnitude(w, 65536) = v BY <1>1, <1>3 DEF Magnitude
<1> QED BY <1>2, <1>5, <1>6, <1>7

\* mul undoes div.
LEMMA UnsignedBack ==
  ASSUME NEW hi \in Word, NEW lo \in Word, NEW n \in Word, n # 0, hi < n
  PROVE  PlusWord(Product(Quotient(hi, lo, n), n)[1], Product(Quotient(hi, lo, n), n)[2],
                  Remainder(hi, lo, n)) = <<hi, lo>>
<1> DEFINE q == Quotient(hi, lo, n)
           r == Remainder(hi, lo, n)
           h == HighProduct(q, n)
           l == LowProduct(q, n)
<1>1. q \in Word /\ r \in 0 .. n - 1 /\ n * q + r = 65536 * hi + lo BY Divided
<1>2. n \in Int /\ 0 <= n /\ n < 65536 BY InWord
<1> HIDE DEF q, r
<1>3. h \in Word /\ l \in Word /\ 65536 * h + l = n * q BY <1>1, Multiplied
<1>4. r \in Word BY <1>1, <1>2, InWord
<1> HIDE DEF h, l
<1>5. PlusWord(h, l, r) = <<hi, lo>>
  <2> DEFINE P == n * q
  <2>1. P + r = 65536 * hi + lo /\ 65536 * h + l = P BY <1>1, <1>3
  <2>2. h \in Int /\ l \in Int /\ r \in Int /\ hi \in Int /\ lo \in Int BY <1>3, <1>4, InWord
  <2> HIDE DEF P
  <2>3. 65536 * h + l + r = 65536 * hi + lo BY <2>1, <2>2
  <2> QED BY <1>3, <1>4, <2>3, PlusBack
<1>6. Product(q, n)[1] = h /\ Product(q, n)[2] = l BY DEF Product, h, l
<1> QED BY <1>5, <1>6 DEF q, r

\* The magnitude of a pair of words, and its opposite.
LEMMA Magnitudes ==
  ASSUME NEW hi \in Word, NEW lo \in Word
  PROVE  LET mh == MagnitudeHigh(hi, lo)
             ml == MagnitudeLow(hi, lo)
         IN  /\ mh \in Word /\ ml \in Word
             /\ IF TopBit(hi, 65536) THEN Opposite(mh, ml) = <<hi, lo>>
                ELSE mh = hi /\ ml = lo
<1> DEFINE mh == MagnitudeHigh(hi, lo)
           ml == MagnitudeLow(hi, lo)
<1>1. hi \in Int /\ 0 <= hi /\ hi < 65536 /\ lo \in Int /\ 0 <= lo /\ lo < 65536 BY InWord
<1>2. CASE ~TopBit(hi, 65536) BY <1>2 DEF MagnitudeHigh, MagnitudeLow
<1>3. CASE TopBit(hi, 65536)
  <2>1. ml = (65536 - lo) % 65536 /\ mh = (65535 - hi + (IF lo = 0 THEN 1 ELSE 0)) % 65536
        BY <1>3 DEF MagnitudeHigh, MagnitudeLow
  <2>2. mh \in Int /\ 0 <= mh /\ mh < 65536 /\ ml \in Int /\ 0 <= ml /\ ml < 65536
        BY <1>1, <2>1
  <2>3. (-ml) % 65536 = lo /\ (ml = 0 <=> lo = 0) BY <1>1, <2>1
  <2>4. (IF ml = 0 THEN -mh ELSE -mh - 1) % 65536 = hi
    <3>1. hi >= 32768 BY <1>3 DEF TopBit
    <3>2. CASE lo = 0 BY <1>1, <2>1, <2>3, <3>1, <3>2
    <3>3. CASE lo # 0 BY <1>1, <2>1, <2>3, <3>1, <3>3
    <3> QED BY <3>2, <3>3
  <2> HIDE DEF mh, ml
  <2> QED BY <1>3, <2>2, <2>3, <2>4, InWord DEF Opposite, mh, ml
<1> QED BY <1>2, <1>3

\* mul of the magnitudes undoes idiv, and the signs are those of the dividend and
\* of the two operands.
LEMMA SignedBack ==
  ASSUME NEW hi \in Word, NEW lo \in Word, NEW n \in Word, n # 0,
         MagnitudeHigh(hi, lo) < Magnitude(n, 65536) \div 2
  PROVE  IdivUndone(hi, lo, n)
<1> DEFINE mh == MagnitudeHigh(hi, lo)
           ml == MagnitudeLow(hi, lo)
           mn == Magnitude(n, 65536)
           q0 == Quotient(mh, ml, mn)
           r0 == Remainder(mh, ml, mn)
           neg == TopBit(hi, 65536)
           differ == neg # TopBit(n, 65536)
           sq == SignedQuotient(hi, lo, n)
           sr == SignedRemainder(hi, lo, n)
<1>1. mh \in Word /\ ml \in Word
      /\ IF neg THEN Opposite(mh, ml) = <<hi, lo>> ELSE mh = hi /\ ml = lo
      BY Magnitudes
<1>2. mn \in Int /\ 0 <= mn /\ mn <= 32768 /\ mn \in Word
  <2>1. n \in Int /\ 0 <= n /\ n < 65536 BY InWord
  <2>2. TopBit(n, 65536) <=> n >= 32768 BY DEF TopBit
  <2>3. mn = IF TopBit(n, 65536) THEN (65536 - n) % 65536 ELSE n BY DEF Magnitude
  <2> HIDE DEF mn
  <2>4. mn \in Int /\ 0 <= mn /\ mn <= 32768 BY <2>1, <2>2, <2>3
  <2> QED BY <2>4, InWord
<1>3. neg \in BOOLEAN /\ differ \in BOOLEAN BY DEF TopBit
<1>4. sq = IF differ THEN (-q0) % 65536 ELSE q0 BY DEF SignedQuotient
<1>5. sr = IF neg THEN (-r0) % 65536 ELSE r0 BY DEF SignedRemainder
<1>6. mh < mn \div 2 OBVIOUS
<1> HIDE DEF mh, ml, mn, neg, differ, sq, sr
<1>7. mh \in Int /\ 0 <= mh /\ ml \in Int /\ ml < 65536 BY <1>1, InWord
<1>8. mn # 0 /\ mh < mn /\ mn \in Nat \ {0} BY <1>2, <1>6, <1>7
<1>9. q0 \in Word /\ r0 \in 0 .. mn - 1 /\ mn * q0 + r0 = 65536 * mh + ml
      BY <1>1, <1>2, <1>8, Divided
<1>10. PlusWord(Product(q0, mn)[1], Product(q0, mn)[2], r0) = <<mh, ml>>
       BY <1>1, <1>2, <1>8, UnsignedBack
<1> HIDE DEF q0, r0
<1>11. q0 \in Int /\ 0 <= q0 /\ q0 < 32768
  <2>1. q0 \in Int /\ 0 <= q0 BY <1>9, InWord
  <2>2. mn * q0 \in Int /\ r0 >= 0 /\ r0 \in Int BY <1>2, <1>9, <2>1
  <2> DEFINE P == mn * q0
  <2>3. P \in Int /\ P + r0 = 65536 * mh + ml BY <1>9, <2>2
  <2> HIDE DEF P
  <2>4. P < 32768 * mn BY <1>2, <1>6, <1>7, <2>2, <2>3
  <2>5. mn * q0 < 32768 * mn BY <2>4 DEF P
  <2> QED BY <1>8, <2>1, <2>5, QuotientBound
<1>12. r0 \in Int /\ 0 <= r0 /\ r0 < mn /\ r0 < 32768 BY <1>2, <1>9
<1> DEFINE q == Signed(sq, 65536)
           r == Signed(sr, 65536)
<1>13. q = (IF differ THEN -q0 ELSE q0) /\ Magnitude(q % 65536, 65536) = q0
  <2>1. /\ Signed(sq, 65536) = IF differ THEN -q0 ELSE q0
        /\ Signed(sq, 65536) % 65536 = sq /\ Magnitude(sq, 65536) = q0
        BY <1>3, <1>4, <1>11, WithSign
  <2> QED BY <2>1
<1>14. r = (IF neg THEN -r0 ELSE r0) /\ Magnitude(r % 65536, 65536) = r0
  <2>1. /\ Signed(sr, 65536) = IF neg THEN -r0 ELSE r0
        /\ Signed(sr, 65536) % 65536 = sr /\ Magnitude(sr, 65536) = r0
        BY <1>3, <1>5, <1>12, WithSign
  <2> QED BY <2>1
<1> HIDE DEF q, r
<1> DEFINE p == Product(Magnitude(q % 65536, 65536), mn)
           whole == PlusWord(p[1], p[2], Magnitude(r % 65536, 65536))
<1>15. whole = <<mh, ml>> BY <1>10, <1>13, <1>14
<1> HIDE DEF whole
<1>16. (IF neg THEN Opposite(whole[1], whole[2]) ELSE whole) = <<hi, lo>>
  <2>1. whole[1] = mh /\ whole[2] = ml BY <1>15
  <2> QED BY <1>1, <1>15, <2>1
<1>17. Magnitude(r % 65536, 65536) < mn BY <1>12, <1>14
<1>18. r # 0 => (r < 0) = neg BY <1>3, <1>12, <1>14
<1>19. q # 0 => (q < 0) = differ BY <1>3, <1>11, <1>13
<1>20. IdivUndone(hi, lo, n) <=>
         /\ (IF neg THEN Opposite(whole[1], whole[2]) ELSE whole) = <<hi, lo>>
         /\ Magnitude(r % 65536, 65536) < mn
         /\ r # 0 => (r < 0) = neg
         /\ q # 0 => (q < 0) = differ
       BY DEF IdivUndone, whole, p, q, r, sq, sr, mn, neg, differ
<1> HIDE DEF p
<1> QED BY <1>16, <1>17, <1>18, <1>19, <1>20

\* Both divisions, for every divisor but 0.
LEMMA DivisionsHold ==
  ASSUME NEW hi \in Word, NEW lo \in Word, NEW n \in Word
  PROVE  DivisionRight(hi, lo, n)
<1>1. ASSUME n # 0, hi < n PROVE DivUndone(hi, lo, n)
  <2>1. Remainder(hi, lo, n) < n
    <3>1. Remainder(hi, lo, n) \in 0 .. n - 1 BY <1>1, Divided
    <3>2. n \in Int BY InWord
    <3> QED BY <3>1, <3>2
  <2>2. PlusWord(Product(Quotient(hi, lo, n), n)[1], Product(Quotient(hi, lo, n), n)[2],
                 Remainder(hi, lo, n)) = <<hi, lo>>
        BY <1>1, UnsignedBack
  <2> QED BY <2>1, <2>2 DEF DivUndone
<1>2. ASSUME n # 0, MagnitudeHigh(hi, lo) < Magnitude(n, 65536) \div 2
      PROVE  IdivUndone(hi, lo, n)
      BY <1>2, SignedBack
<1> QED BY <1>1, <1>2 DEF DivisionRight
-----------------------------------------------------------------------------
\* What a step of the sweep has at hand.
LEMMA SweptWords == ASSUME Swept PROVE left \in Word /\ right \in Word /\ count \in Nat
BY OperandsAssumption DEF Swept

\* Each conditional jump after cmp of two bytes or two words takes the relation it
\* is named for: setZSOC by cmp and the cases 72 .. 7f of run() fit each other.
THEOREM ComparesDecide == Spec => []CompareRight
<1>1. ASSUME Swept PROVE CompareRight
  <2> SUFFICES ASSUME NEW m \in {256, 65536}, NEW cc \in Conditions
               PROVE  Holds(cc, Sub(left % m, right % m, m))
                        = Relation(cc, left % m, right % m, m)
      BY DEF CompareRight
  <2>1. left \in Int /\ right \in Int BY <1>1, SweptWords, InWord
  <2>2. left % m \in Values(m) /\ right % m \in Values(m) /\ m \in Widths
    <3>1. CASE m = 256 BY <2>1, <3>1, InValues DEF Widths
    <3>2. CASE m = 65536 BY <2>1, <3>2, InValues DEF Widths
    <3> QED BY <3>1, <3>2
  <2> DEFINE l == left % m
             r == right % m
  <2> HIDE DEF l, r
  <2>3. l \in Values(m) /\ r \in Values(m) BY <2>2 DEF l, r
  <2>4. Holds(cc, Sub(l, r, m)) <=> Relation(cc, l, r, m) BY <2>2, <2>3, CompareDecides
  <2>5. Holds(cc, Sub(l, r, m)) \in BOOLEAN /\ Relation(cc, l, r, m) \in BOOLEAN
        BY DEF Holds, Relation
  <2>6. Holds(cc, Sub(l, r, m)) = Relation(cc, l, r, m) BY <2>4, <2>5
  <2> QED BY <2>6 DEF l, r
<1> QED BY <1>1, SweepStays, PTL

\* The chains of byte instructions that compiled code uses for longer numbers
\* leave what the word instruction leaves: value, S, O and C of add and of sub, O of
\* sub/sbb but for a high byte of 127 with a borrow; value, C and O of shl; value and C
\* of shr.  adc, sbb, rcl and rcr take the carry that the instruction before them
\* leaves, and give the next one its own.
THEOREM ChainsEqualWords == Spec => []WordsByBytesRight
<1>1. ASSUME Swept PROVE WordsByBytesRight
      BY <1>1, SweptWords, ChainsRight DEF WordsByBytesRight
<1> QED BY <1>1, SweepStays, PTL

\* shl, shr and sar of a word by CL leave value, Z, S and C of CL shifts by one, for
\* every count a mask of five bits lets through, but for C of sar of a negative word
\* from 17 places on, which c_rshift loses.
THEOREM CountsAreRepeats == Spec => []ShiftByCountRight
<1>1. ASSUME Swept PROVE ShiftByCountRight
      BY <1>1, SweptWords, CountsRight DEF ShiftByCountRight
<1> QED BY <1>1, SweepStays, PTL

\* Whenever the quotient fits a word, mul undoes div and idiv, and the remainder
\* is smaller than the divisor and has the sign of the dividend.
THEOREM DivisionsUndone == Spec => []DivisionsRight
<1>1. ASSUME Swept PROVE DivisionsRight
  <2>1. \A d \in Operands : d \in Word BY OperandsAssumption
  <2> QED BY <1>1, <2>1, SweptWords, DivisionsHold DEF DivisionsRight
<1> QED BY <1>1, SweepStays, PTL
=============================================================================

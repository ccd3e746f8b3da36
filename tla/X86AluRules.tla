---------------------------- MODULE X86AluRules -----------------------------
(***************************************************************************)
(* What the operators of X86Alu promise each other, whatever the operands: *)
(* the relations a program reads from the flags, the chains by which it    *)
(* computes on numbers longer than a register, shifts by a count, and      *)
(* division against multiplication.                                        *)
(***************************************************************************)
EXTENDS X86Alu

\* The relation a condition names, between two unsigned numbers of m values.
Relation(cc, l, r, m) ==
  \/ cc = 2 /\ l < r
  \/ cc = 3 /\ l >= r
  \/ cc = 4 /\ l = r
  \/ cc = 5 /\ l # r
  \/ cc = 6 /\ l <= r
  \/ cc = 7 /\ l > r
  \/ cc = 12 /\ Signed(l, m) < Signed(r, m)
  \/ cc = 13 /\ Signed(l, m) >= Signed(r, m)
  \/ cc = 14 /\ Signed(l, m) <= Signed(r, m)
  \/ cc = 15 /\ Signed(l, m) > Signed(r, m)
-----------------------------------------------------------------------------
\* Two byte results taken for a word: value and sign, and what the high one says.
AsWord(lo, hi) == [val |-> Pair(lo.val, hi.val), s |-> hi.s, o |-> hi.o, c |-> hi.c]
Whole(res) == [val |-> res.val, s |-> res.s, o |-> res.o, c |-> res.c]
Unsigned(res) == [val |-> res.val, s |-> res.s, c |-> res.c]

AddByBytes(x, y) ==
  LET lo == Add(LowByte(x), LowByte(y), 256)
  IN  AsWord(lo, Adc(HighByte(x), HighByte(y), lo, 256))

SubByBytes(x, y) ==
  LET lo == Sub(LowByte(x), LowByte(y), 256)
  IN  AsWord(lo, Sbb(HighByte(x), HighByte(y), lo, 256))

\* f: the flags before the first of the two shifts by one.
ShlByBytes(x, f) ==
  LET lo == Shl(LowByte(x), 1, 1, FALSE, 256)
  IN  AsWord(lo, Rcl(HighByte(x), 1, FALSE, lo, 256))

ShrByBytes(x, f) ==
  LET hi == Shr(HighByte(x), 1, 1, FALSE, f, 256)
      lo == Rcr(LowByte(x), 1, FALSE, hi, 256)
  IN  [val |-> Pair(lo.val, hi.val), c |-> lo.c]

\* sbb adds CF to the byte it takes away before it casts the sum to a char: 127 and
\* a borrow make -128, and O comes out as the opposite of what it should be.
SbbMisled(x, y) == HighByte(y) = 127 /\ LowByte(x) < LowByte(y)

\* A word instruction and the chain of byte instructions that hands CF on leave the
\* same: add/adc and sub/sbb value, S, C and O, but for O of sub/sbb where sbb is
\* misled; shl/rcl value, C and O; shr/rcr value and C.  That is all a program may ask
\* for: Z of a chain is that of its last byte, and rcl and rcr set no Z and S.
WordsByBytes(x, y, f) ==
  /\ AddByBytes(x, y) = Whole(Add(x, y, 65536))
  /\ LET word == Sub(x, y, 65536)
         bytes == SubByBytes(x, y)
     IN  Unsigned(bytes) = Unsigned(word) /\ (~SbbMisled(x, y) => bytes.o = word.o)
  /\ LET word == Shl(x, 1, 1, FALSE, 65536)
         bytes == ShlByBytes(x, f)
     IN  bytes.val = word.val /\ bytes.c = word.c /\ bytes.o = word.o
  /\ LET word == Shr(x, 1, 1, FALSE, f, 65536)
     IN  ShrByBytes(x, f) = [val |-> word.val, c |-> word.c]
-----------------------------------------------------------------------------
\* n shifts by one place, each on the result of the last.
Repeated(x, n, One(_)) ==
  LET step[k \in 1 .. n] == One(IF k = 1 THEN x ELSE step[k - 1].val) IN step[n]

RepeatedLeft(x, n) == Repeated(x, n, LAMBDA v : Shl(v, 1, 1, FALSE, 65536))
RepeatedRight(x, n, f) == Repeated(x, n, LAMBDA v : Shr(v, 1, 1, FALSE, f, 65536))
RepeatedSigned(x, n, f) == Repeated(x, n, LAMBDA v : Sar(v, 1, 1, FALSE, f, 65536))

Shifting(res) == [val |-> res.val, z |-> res.z, s |-> res.s, c |-> res.c]

\* The last bit of a negative word shifted by more than its 16 places is its sign;
\* c_rshift has it as a uint16 and finds 0.
SignLost(x, n) == n > 16 /\ TopBit(x, 65536)

\* A word shift by CL, a count that is masked to five bits, leaves what that many
\* shifts by one leave: shl and shr value, Z, S and C; sar value, Z and S, and C unless
\* the sign is lost.  O of a shift by CL is not that of a shift by one.
ShiftByCount(x, n, f) ==
  n > 0 =>
    LET once == RepeatedSigned(x, n, f)
        byCount == Sar(x, n, n, TRUE, f, 65536)
    IN  /\ Shifting(Shl(x, n, n, TRUE, 65536)) = Shifting(RepeatedLeft(x, n))
        /\ Shifting(Shr(x, n, n, TRUE, f, 65536)) = Shifting(RepeatedRight(x, n, f))
        /\ byCount.val = once.val /\ byCount.z = once.z /\ byCount.s = once.s
        /\ ~SignLost(x, n) => byCount.c = once.c
-----------------------------------------------------------------------------
\* A pair of words as the 8086 adds a word to it and takes its opposite.
PlusWord(hi, lo, r) == <<(hi + (lo + r) \div 65536) % 65536, (lo + r) % 65536>>
Opposite(hi, lo) == <<(IF lo = 0 THEN -hi ELSE -hi - 1) % 65536, (-lo) % 65536>>
Product(q, n) == <<HighProduct(q, n), LowProduct(q, n)>>

\* mul after div, with the remainder added, gives the dividend back, and the
\* remainder is below the divisor.
DivUndone(hi, lo, n) ==
  LET q == Quotient(hi, lo, n)
      r == Remainder(hi, lo, n)
      p == Product(q, n)
  IN  PlusWord(p[1], p[2], r) = <<hi, lo>> /\ r < n

\* The same after idiv, where |remainder| < |divisor|, and the remainder has the
\* dividend's sign: C's division rounds towards zero.
IdivUndone(hi, lo, n) ==
  LET q == Signed(SignedQuotient(hi, lo, n), 65536)
      r == Signed(SignedRemainder(hi, lo, n), 65536)
      p == Product(Magnitude(q % 65536, 65536), Magnitude(n, 65536))
      whole == PlusWord(p[1], p[2], Magnitude(r % 65536, 65536))
  IN  /\ (IF TopBit(hi, 65536) THEN Opposite(whole[1], whole[2]) ELSE whole) = <<hi, lo>>
      /\ Magnitude(r % 65536, 65536) < Magnitude(n, 65536)
      /\ r # 0 => (r < 0) = TopBit(hi, 65536)
      /\ q # 0 => (q < 0) = (TopBit(hi, 65536) # TopBit(n, 65536))

\* Both, when the quotient fits a word.
DivisionRight(hi, lo, n) ==
  /\ n # 0 /\ hi < n => DivUndone(hi, lo, n)
  /\ n # 0 /\ MagnitudeHigh(hi, lo) < Magnitude(n, 65536) \div 2 => IdivUndone(hi, lo, n)
=============================================================================

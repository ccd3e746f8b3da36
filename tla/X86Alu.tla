------------------------------- MODULE X86Alu -------------------------------
(***************************************************************************)
(* What each arithmetic, logic and shift instruction of X86Runtime::run    *)
(* computes, as the code computes it: its result and the four flags handed *)
(* to setZSOC.  The operators are pure; X86Runtime applies them.           *)
(***************************************************************************)
EXTENDS X86Words

\* The value stored (val8 or val16) and the arguments of setZSOC.
Outcome(v, o, c, m) ==
  [val |-> v % m, z |-> (v % m) = 0, s |-> TopBit(v % m, m), o |-> o, c |-> c]

Outcomes(m) == [val : Values(m), z : BOOLEAN, s : BOOLEAN, o : BOOLEAN, c : BOOLEAN]

\* (val8 != val): the int the code computed does not fit the signed width.
Overflows(v, m) == Signed(v, m) # v

Carry(f) == IF f.c THEN 1 ELSE 0
-----------------------------------------------------------------------------
\* The eight two-operand instructions; f is the flags record read by adc and sbb.
Add(x, y, m) ==
  LET v == Signed(x, m) + Signed(y, m)
  IN  Outcome(v, Overflows(v, m), x + y >= m, m)

\* Mutant of Adc: the carry out is that of the operands alone.
AdcForgetsCarryOut(x, y, f, m) ==
  LET v == Signed(x, m) + Signed(y, m) + Carry(f)
  IN  Outcome(v, Overflows(v, m), x + y >= m, m)

\* Mutant of Adc: the carry is not added.
AdcForgetsCarryIn(x, y, f, m) == Add(x, y, m)

Adc(x, y, f, m) ==
  LET v == Signed(x, m) + Signed(y, m) + Carry(f)
  IN  Outcome(v, Overflows(v, m), x + y + Carry(f) >= m, m)

\* The cast covers src + cv, not src alone.
Sbb(x, y, f, m) ==
  LET v == Signed(x, m) - Signed(y + Carry(f), m)
  IN  Outcome(v, Overflows(v, m), x < y + Carry(f), m)

\* Mutant of Sub: the difference is taken of the unsigned operands.
SubUnsigned(x, y, m) ==
  LET v == x - y IN Outcome(v, Overflows(v, m), x < y, m)

Sub(x, y, m) ==
  LET v == Signed(x, m) - Signed(y, m)
  IN  Outcome(v, Overflows(v, m), x < y, m)

LogicOr(x, y, m) == Outcome(Or(x, y), FALSE, FALSE, m)
LogicAnd(x, y, m) == Outcome(And(x, y), FALSE, FALSE, m)
LogicXor(x, y, m) == Outcome(Xor(x, y), FALSE, FALSE, m)

\* Selected by bits 3-5 of the opcode, or by the ext field of 80/81/83.
TwoOperand(k, x, y, f, m) ==
  CASE k = 0 -> Add(x, y, m)
    [] k = 1 -> LogicOr(x, y, m)
    [] k = 2 -> Adc(x, y, f, m)
    [] k = 3 -> Sbb(x, y, f, m)
    [] k = 4 -> LogicAnd(x, y, m)
    [] k = 5 -> Sub(x, y, m)
    [] k = 6 -> LogicXor(x, y, m)
    [] k = 7 -> Sub(x, y, m)
-----------------------------------------------------------------------------
\* inc and dec hand the old carry back to setZSOC.
Inc(x, f, m) == LET v == Signed(x, m) + 1 IN Outcome(v, Overflows(v, m), f.c, m)
Dec(x, f, m) == LET v == Signed(x, m) - 1 IN Outcome(v, Overflows(v, m), f.c, m)
Neg(x, m) == LET v == -Signed(x, m) IN Outcome(v, Overflows(v, m), (x % m) # 0, m)
Complement(x, m) == (-1 - x) % m
-----------------------------------------------------------------------------
\* c_lshift and c_rshift: the last bit shifted out of a value of m values.
LastOutLeft(x, n, m) == n > 0 /\ TopBit(ShiftLeft(x, n - 1, m), m)
LastOutRight(x, n) == n > 0 /\ ShiftRight(x, n - 1) % 2 = 1

\* A rotate keeps Z and S, and keeps O when the count comes from CL.
Rotated(v, o, c, f, m) == [val |-> v % m, z |-> f.z, s |-> f.s, o |-> o, c |-> c]

\* rcl: shift left and put the old carry in bit 0, whatever the count.
Rcl(x, n, byCL, f, m) ==
  LET v == 2 * (ShiftLeft(x, n, m) \div 2) + Carry(f)
      out == LastOutLeft(x, n, m)
  IN  Rotated(v, IF byCL THEN f.o ELSE out # TopBit(v, m), out, f, m)

\* rcl r/m8, CL: bit 0 takes the bit shifted out (D2 runs only when CF is set).
RclByteByCL(x, n, f) ==
  LET out == LastOutLeft(x, n, 256)
      v == 2 * (ShiftLeft(x, n, 256) \div 2) + (IF out THEN 1 ELSE 0)
  IN  Rotated(v, f.o, out, f, 256)

\* rcr: shift right and put the old carry in the top bit, whatever the count.
Rcr(x, n, byCL, f, m) ==
  LET v == (ShiftRight(x, n) % (m \div 2)) + Carry(f) * (m \div 2)
      next == (v \div (m \div 4)) % 2 = 1
  IN  Rotated(v, IF byCL THEN f.o ELSE TopBit(v, m) # next, LastOutRight(x, n), f, m)

\* The other shifts take the carry with a count k of its own: run() reads CL
\* again for it, after the result has been written.

\* Mutant of Shl: D3 does as D2.
ShlCarryOfOne(x, n, k, byCL, m) ==
  LET v == ShiftLeft(x, n, m)
      out == LastOutLeft(x, IF byCL THEN 1 ELSE k, m)
  IN  Outcome(v, TopBit(v, m) # out, out, m)

\* shl: D2 takes the carry of a shift by one, whatever CL says.
Shl(x, n, k, byCL, m) ==
  LET v == ShiftLeft(x, n, m)
      out == LastOutLeft(x, IF byCL /\ m = 256 THEN 1 ELSE k, m)
  IN  Outcome(v, TopBit(v, m) # out, out, m)

Shr(x, n, k, byCL, f, m) ==
  Outcome(ShiftRight(x, n), IF byCL THEN f.o ELSE TopBit(x, m), LastOutRight(x, k), m)

\* shr r/m8, CL: the count is CL >> 0x1f, which is 0, and Z and S are those of
\* val16, the result of whichever 16-bit instruction ran last.
ShrByteByCL(x, k, f, val16) ==
  [val |-> x % 256, z |-> val16 = 0, s |-> TopBit(val16, 65536),
   o |-> f.o, c |-> LastOutRight(x, k)]

\* sar: the operand is a signed int; c_rshift sees it as a uint16.
Sar(x, n, k, byCL, f, m) ==
  LET places == IF n < 16 THEN n ELSE 16
      v == Signed(x, m) \div Power(places)
      out == LastOutRight(Signed(x, m) % 65536, k)
  IN  Outcome(v, byCL /\ f.o, out, m)
-----------------------------------------------------------------------------
\* mul and div on 16 bits, by bytes: no product or dividend of 32 bits is formed.
LowProduct(x, y) == ((x % 256) * y + (((x \div 256) * y) % 256) * 256) % 65536
HighProduct(x, y) ==
  (((x \div 256) * y) \div 256
   + ((x % 256) * y + (((x \div 256) * y) % 256) * 256) \div 65536) % 65536

\* The low 16 bits of (hi:lo) / n, and the remainder, for n # 0.
Quotient(hi, lo, n) ==
  LET t == (hi % n) * 256 + HighByte(lo)
      u == (t % n) * 256 + LowByte(lo)
  IN  ((t \div n) * 256 + u \div n) % 65536
Remainder(hi, lo, n) ==
  LET t == (hi % n) * 256 + HighByte(lo)
      u == (t % n) * 256 + LowByte(lo)
  IN  u % n

\* The magnitude of a signed word, and of a signed pair of words.
Magnitude(x, m) == IF TopBit(x, m) THEN (m - x) % m ELSE x
MagnitudeLow(hi, lo) == IF TopBit(hi, 65536) THEN (65536 - lo) % 65536 ELSE lo
MagnitudeHigh(hi, lo) ==
  IF TopBit(hi, 65536) THEN (65535 - hi + (IF lo = 0 THEN 1 ELSE 0)) % 65536 ELSE hi

\* idiv on 16 bits: C truncates towards zero; the remainder has the dividend's sign.
SignedQuotient(hi, lo, n) ==
  LET q == Quotient(MagnitudeHigh(hi, lo), MagnitudeLow(hi, lo), Magnitude(n, 65536))
  IN  IF TopBit(hi, 65536) # TopBit(n, 65536) THEN (-q) % 65536 ELSE q
\* Mutant of SignedRemainder: the sign of the divisor.
RemainderSignedByDivisor(hi, lo, n) ==
  LET r == Remainder(MagnitudeHigh(hi, lo), MagnitudeLow(hi, lo), Magnitude(n, 65536))
  IN  IF TopBit(n, 65536) THEN (-r) % 65536 ELSE r

SignedRemainder(hi, lo, n) ==
  LET r == Remainder(MagnitudeHigh(hi, lo), MagnitudeLow(hi, lo), Magnitude(n, 65536))
  IN  IF TopBit(hi, 65536) THEN (-r) % 65536 ELSE r

\* The only quotient of a 32-bit int that the host cannot form besides x / 0.
HostOverflow(hi, lo, n) == hi = 32768 /\ lo = 0 /\ n = 65535
-----------------------------------------------------------------------------
\* The condition a conditional jump 72 .. 7f tests, by the low four bits.
Conditions == {2, 3, 4, 5, 6, 7, 12, 13, 14, 15}
Holds(cc, f) ==
  \/ cc = 2 /\ f.c
  \/ cc = 3 /\ ~f.c
  \/ cc = 4 /\ f.z
  \/ cc = 5 /\ ~f.z
  \/ cc = 6 /\ (f.c \/ f.z)
  \/ cc = 7 /\ ~(f.c \/ f.z)
  \/ cc = 12 /\ f.s # f.o
  \/ cc = 13 /\ f.s = f.o
  \/ cc = 14 /\ (f.z \/ (f.s # f.o))
  \/ cc = 15 /\ ~f.z /\ f.s = f.o
=============================================================================

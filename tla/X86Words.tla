------------------------------ MODULE X86Words ------------------------------
(***************************************************************************)
(* The integers of the interpreter: uchar, uint16 and the casts to char    *)
(* and int16.  A machine value is kept as the unsigned number it is; `m'   *)
(* is the number of values of the width at hand, 256 or 65536.             *)
(***************************************************************************)
EXTENDS Integers, Sequences

\* The values of an unsigned integer that has n of them.
Values(n) == 0 .. n - 1
Byte == Values(256)
Word == Values(65536)

\* How many values an operand of an instruction with this w bit has.
Width(w) == IF w = 1 THEN 65536 ELSE 256

\* Assignment to an unsigned integer of m values, and the cast to the signed one.
Trunc(x, m) == x % m
Signed(x, m) == IF x % m >= m \div 2 THEN (x % m) - m ELSE x % m

\* (uint16)(char)x: a byte widened with its sign.
SignExtend(x) == Signed(x, 256) % 65536

LowByte(x) == x % 256
HighByte(x) == (x \div 256) % 256
Pair(lo, hi) == lo + 256 * hi

TopBit(x, m) == x >= m \div 2

\* x & y, bit by bit: k is the weight of a bit.
InBoth(x, y, k) == IF (x \div k) % 2 = 1 /\ (y \div k) % 2 = 1 THEN k ELSE 0
And(x, y) ==
    InBoth(x, y, 1) + InBoth(x, y, 2) + InBoth(x, y, 4) + InBoth(x, y, 8)
  + InBoth(x, y, 16) + InBoth(x, y, 32) + InBoth(x, y, 64) + InBoth(x, y, 128)
  + InBoth(x, y, 256) + InBoth(x, y, 512) + InBoth(x, y, 1024) + InBoth(x, y, 2048)
  + InBoth(x, y, 4096) + InBoth(x, y, 8192) + InBoth(x, y, 16384) + InBoth(x, y, 32768)

Or(x, y) == x + y - And(x, y)
Xor(x, y) == x + y - 2 * And(x, y)

\* 2^n, for n in 0 .. 16.
Power(n) ==
  <<1, 2, 4, 8, 16, 32, 64, 128, 256, 512, 1024, 2048, 4096, 8192, 16384, 32768, 65536>>[n + 1]

\* x << n and x >> n for a shift count 0 .. 31: C computes them in a 32-bit int
\* of which only the low m values are kept, so 16 places and more leave 0.
ShiftLeft(x, n, m) == IF n < 16 THEN (x * Power(n)) % m ELSE 0
ShiftRight(x, n) == IF n < 16 THEN x \div Power(n) ELSE 0
=============================================================================

----------------------------- MODULE MCX86Code ------------------------------
(***************************************************************************)
(* Three families of small programs whose instructions depend on what      *)
(* earlier ones left: comparisons and jumps, the stack, and arithmetic on  *)
(* numbers longer than a register.                                         *)
(***************************************************************************)
EXTENDS X86Watch, MCPrograms, TLC

\* Every program  mov ax,a; mov bx,b; compare; between; jcc  over these sets: each
\* comparison of boundary values, each condition, and code in between that leaves
\* the flags alone.
Boundaries == {0, 1, 127, 128, 32768, 65535}

\* cmp ax,bx; cmp al,bl; cmp bl,al; sub ax,bx; cmp ax,-128; cmp al,127; cmp bl,128; scasb
Comparisons == {<<\h39, \hd8>>, <<\h38, \hd8>>, <<\h3a, \hd8>>, <<\h2b, \hc3>>,
                <<\h83, \hf8, \h80>>, <<\h3c, \h7f>>, <<\h80, \hfb, \h80>>, <<\hae>>}

\* nothing; mov cx,ax and not cx; push ax, pop bx; xchg ax,bx and cbw
Betweens == {<<>>, <<\h89, \hc1, \hf7, \hd1>>, <<\h50, \h5b>>, <<\h93, \h98>>}

CompareProgram(a, b, cmp, between, cc) ==
  MovAX(a) \o MovBX(b) \o cmp \o between \o <<\h70 + cc, 2>>

CompareLoads ==
  {Load(CompareProgram(a, b, cmp, between, cc), 0 :> 128, 256) :
     a \in Boundaries, b \in Boundaries, cmp \in Comparisons,
     between \in Betweens, cc \in Conditions}
-----------------------------------------------------------------------------
\* Every three stack snippets and a fourth that pops, with SP in the middle of memory
\* and at its two ends, so that a word is split between addresses 65535 and 0.
StackPointers == {0, 1, 40000}

Pops == {
  <<\h5a>>,                               \* pop dx
  <<\heb, 1, \hc3, \he8, \hfc, \hff>>,    \* call a subroutine that returns
  <<\heb, 3, \hc2, 2, 0, \h50, \he8, \hf9, \hff>>, \* push ax, call one that drops it
  <<\heb, 1, \hc3, \he8, 0, 0, \h5b, \h83, \heb, 4, \hff, \hd3>>}
                                          \* call through bx, computed from a popped pc
StackSnippets == Pops \cup {
  <<\h50>>,                               \* push ax
  <<\hff, \h36, \h20, 0>>,                \* push word [32]
  <<\h8f, \h06, \h22, 0>>,                \* pop word [34]
  <<\h44>>,                               \* inc sp
  <<\hc6, \h46, 0, \h77>>}                \* mov byte [bp+0],77

StackPrograms ==
  {a \o b \o c \o d : a \in StackSnippets, b \in StackSnippets, c \in StackSnippets, d \in Pops}

\* mov bp,sp first, so that the store through bp hits the first word pushed.
Prologue == <<\h89, \he5, \h4d, \h4d, \hb8, \h34, \h12>>
StackCells == (32 :> 65) @@ (33 :> 66)

StackLoads == {Load(Prologue \o p, StackCells, sp) : p \in StackPrograms, sp \in StackPointers}
-----------------------------------------------------------------------------
\* The loops by which compiled code computes on longer numbers: a byte at a time,
\* with the carry (or AH, for the division) handed from one turn to the next across
\* inc, dec, mov and loop.  Each runs over every pair of numbers of Places digits.
Digits == {0, 128, 255}
Places == 3
Divisor == 7

\* cx := 3, si := 16, and di at the lowest or the highest digit; CF := 0.
LongSetup(di) == <<\h29, \hc0>> \o MovCX(Places) \o MovSI(16) \o MovDI(di)

LongPrograms == [
  add |-> LongSetup(32) \o <<\h8a, \h04, \h10, \h05, \h46, \h47, \he2, \hf8>>,
  sub |-> LongSetup(32) \o <<\h8a, \h04, \h18, \h05, \h46, \h47, \he2, \hf8>>,
  neg |-> LongSetup(32) \o <<\hb0, 0, \h1a, \h05, \h88, \h05, \h47, \he2, \hf7>>,
  shl |-> LongSetup(32) \o <<\hd0, \h15, \h47, \he2, \hfb>>,
  shr |-> LongSetup(34) \o <<\hd0, \h1d, \h4f, \he2, \hfb>>,
  div |-> LongSetup(34) \o <<\hb3, Divisor, \h8a, \h05, \hf6, \hf3, \h88, \h05, \h4f, \he2, \hf7>>]

\* The operands, and a copy of the one the loop overwrites.
Numbers == [0 .. Places - 1 -> Digits]
LongCells(x, y) ==
  [a \in (16 .. 18) \cup (32 .. 34) \cup (48 .. 50) |->
     IF a < 32 THEN x[a - 16] ELSE IF a < 48 THEN y[a - 32] ELSE y[a - 48]]

LongLoads ==
  {Load(LongPrograms[k], LongCells(x, y), 256) : k \in {"add", "sub"}, x \in Numbers, y \in Numbers}
  \cup {Load(LongPrograms[k], LongCells(y, y), 256) :
          k \in {"neg", "shl", "shr", "div"}, y \in Numbers}
-----------------------------------------------------------------------------
\* Each of the three sets has a name of its own: TLC sorts a named set, and the union
\* of sorted ones is quick.
MCLoads == StackLoads \cup (CompareLoads \cup LongLoads)
MCOsStores == {NoCells}
-----------------------------------------------------------------------------
Modulus == 256 * 256 * 256
Number(a) == At(data, a) + 256 * At(data, a + 1) + 65536 * At(data, a + 2)
Source == Number(16)
Before == Number(48)
Result == Number(32)
Runs(k) == text = Placed(LongPrograms[k], 0)

\* When such a program has run to its end, the number it leaves is the sum, the
\* difference, the opposite, the double, the half or the quotient of all three
\* digits: adc, sbb, rcl, rcr and div take over exactly what the last turn left.
LongArithmeticRight ==
  status = "exit" =>
    /\ Runs("add") => Result = (Before + Source) % Modulus
    /\ Runs("sub") => Result = (Before - Source) % Modulus
    /\ Runs("neg") => Result = (-Before) % Modulus
    /\ Runs("shl") => Result = (2 * Before) % Modulus
    /\ Runs("shr") => Result = Before \div 2
    /\ Runs("div") => Result = Before \div Divisor /\ HighByte(reg[AX]) = Before % Divisor
=============================================================================
